----------------------------- MODULE MigrateProofs -----------------------------
(* Theorems about Migrate, for every directory of scripts that one run gets   *)
(* through undisturbed and every set of processes.                            *)
EXTENDS Migrate, WellFoundedInduction, TLAPS

\* The statement ahead of which a run stands: behind the last one when it registers.
Place(p) == IF At(p, "register") THEN step[p] + 1 ELSE step[p]

(* The inductive invariant.  What is registered is applied, and the registry  *)
(* has no gaps.                                                               *)
Registered == \A v \in registry : Makes(v) \subseteq schema /\ 1 .. v \subseteq registry

\* A run has everything behind it that its version and its place say.
Runs ==
    \A p \in Running :
        LET v == version[p] IN
        /\ v \in Versions
        /\ step[p] \in DOMAIN discover[v]
        /\ At(p, "register") => step[p] = Len(discover[v])
        /\ 1 .. v - 1 \subseteq registry
        /\ done[p] \subseteq 1 .. v - 1
        /\ Before(v, Place(p)) \subseteq schema

NoneIsMissing == \A p \in Processes : result[p] # "missing"

\* The run that is ahead of all others: the schema is what it has made of it.
Leads(p) ==
    /\ p \in Running
    /\ schema = Before(version[p], Place(p))
    /\ registry = 1 .. version[p] - 1
    /\ \A q \in Running : version[q] = version[p] => Place(q) <= Place(p)

Untouched ==
    /\ schema = {} /\ registry = {} /\ Running = {}
    /\ \A p \in Processes : result[p] = "none"

\* Unless one was killed, some run is ahead until the schema is up to date.
Leading == ~killed => UpToDate \/ Untouched \/ \E p \in Processes : Leads(p)

Met ==
    ~killed =>
        /\ \A p, q \in Running : p # q => p \in met
        /\ \A p \in Processes : result[p] \in {"duplicate", "registered"} => p \in met
        /\ UpToDate => Running \subseteq met

IInv == TypeOK /\ Registered /\ Runs /\ NoneIsMissing /\ OkMeansUpToDate /\ Leading /\ Met

-----------------------------------------------------------------------------
(* The scripts. *)

\* Versions and statements are numbered.
LEMMA Numbered ==
  /\ Len(discover) \in Nat /\ Versions = 1 .. Len(discover)
  /\ \A v \in Versions :
        Len(discover[v]) \in Nat \ {0} /\ DOMAIN discover[v] = 1 .. Len(discover[v])
  BY ScriptsAssumption

\* What is made ahead of a place, by earlier versions or by earlier statements.
LEMMA InBefore ==
  ASSUME NEW v, NEW i, NEW x
  PROVE  x \in Before(v, i) <=>
            \/ \E w \in 1 .. v - 1 : x \in Makes(w)
            \/ \E j \in 1 .. i - 1 : x = discover[v][j].makes
  <1> DEFINE earlier == UNION {Makes(w) : w \in 1 .. v - 1}
             ahead == {discover[v][j].makes : j \in 1 .. i - 1}
  <1>1. x \in earlier <=> \E w \in 1 .. v - 1 : x \in Makes(w)
    OBVIOUS
  <1>2. x \in ahead <=> \E j \in 1 .. i - 1 : x = discover[v][j].makes
    OBVIOUS
  <1>3. Before(v, i) = earlier \cup ahead
    BY DEF Before
  <1> HIDE DEF earlier, ahead
  <1> QED BY <1>1, <1>2, <1>3

\* A statement adds what it makes to what the ones before it made.
LEMMA BeforeNext ==
  ASSUME NEW v \in Versions, NEW i \in DOMAIN discover[v]
  PROVE  Before(v, i + 1) = Before(v, i) \cup {discover[v][i].makes}
  <1>1. i \in Nat /\ 1 .. (i + 1) - 1 = (1 .. i - 1) \cup {i}
    BY Numbered
  <1>2. ASSUME NEW x
        PROVE  x \in Before(v, i + 1) <=> x \in Before(v, i) \/ x = discover[v][i].makes
    <2>1. x \in Before(v, i + 1) <=>
            \/ \E w \in 1 .. v - 1 : x \in Makes(w)
            \/ \E j \in (1 .. i - 1) \cup {i} : x = discover[v][j].makes
      BY <1>1, InBefore
    <2>2. x \in Before(v, i) <=>
            \/ \E w \in 1 .. v - 1 : x \in Makes(w)
            \/ \E j \in 1 .. i - 1 : x = discover[v][j].makes
      BY InBefore
    <2> QED BY <2>1, <2>2
  <1> QED BY <1>2

\* The last statement of a script makes its version complete, and the next one starts there.
LEMMA BeforeEnd ==
  ASSUME NEW v \in Versions
  PROVE  /\ Before(v, Len(discover[v]) + 1) = Before(v + 1, 1)
         /\ Makes(v) \subseteq Before(v + 1, 1)
  <1>1. /\ 1 .. (Len(discover[v]) + 1) - 1 = DOMAIN discover[v]
        /\ 1 .. (v + 1) - 1 = (1 .. v - 1) \cup {v}
        /\ 1 .. 1 - 1 = {}
    BY Numbered
  <1>2. ASSUME NEW x
        PROVE  /\ x \in Before(v, Len(discover[v]) + 1) <=>
                    (\E w \in 1 .. v - 1 : x \in Makes(w)) \/ x \in Makes(v)
               /\ x \in Before(v + 1, 1) <=>
                    (\E w \in 1 .. v - 1 : x \in Makes(w)) \/ x \in Makes(v)
    <2>1. x \in Makes(v) <=> \E j \in DOMAIN discover[v] : x = discover[v][j].makes
      BY DEF Makes
    <2>2. x \in Before(v, Len(discover[v]) + 1) <=>
            \/ \E w \in 1 .. v - 1 : x \in Makes(w)
            \/ \E j \in DOMAIN discover[v] : x = discover[v][j].makes
      BY <1>1, InBefore
    <2>3. x \in Before(v + 1, 1) <=> \E w \in (1 .. v - 1) \cup {v} : x \in Makes(w)
      BY <1>1, InBefore
    <2> QED BY <2>1, <2>2, <2>3
  <1> QED BY <1>2

\* What a statement makes is among what is made ahead of any later place.
LEMMA BeforeLater ==
  ASSUME NEW v \in Versions, NEW i \in DOMAIN discover[v], NEW w \in Nat, NEW j \in Nat,
         v < w \/ (v = w /\ i < j)
  PROVE  discover[v][i].makes \in Before(w, j)
  <1>1. CASE v < w
    <2>1. v \in 1 .. w - 1
      BY <1>1, Numbered
    <2>2. discover[v][i].makes \in Makes(v)
      BY DEF Makes
    <2> QED BY <2>1, <2>2, InBefore
  <1>2. CASE v = w /\ i < j
    <2>1. i \in 1 .. j - 1
      BY <1>2, Numbered
    <2> QED BY <2>1, <1>2, InBefore
  <1> QED BY <1>1, <1>2

\* Behind the last version there is everything; ahead of the first there is nothing.
LEMMA BeforeEdges ==
  /\ Before(1, 1) = {}
  /\ Before(Len(discover) + 1, 1) = Objects
  <1>1. 1 .. 1 - 1 = {} /\ 1 .. (Len(discover) + 1) - 1 = Versions
    BY Numbered
  <1> QED BY <1>1 DEF Before, Objects

\* The statements of the directory, as the assumption has them.
LEMMA Statements ==
  ASSUME NEW v \in Versions, NEW i \in DOMAIN discover[v]
  PROVE  /\ discover[v][i].kind \in {"create", "add"}
         /\ discover[v][i].needs \subseteq Before(v, i)
         /\ discover[v][i].kind = "add" => discover[v][i].makes \notin Before(v, i)
         /\ discover[v][i].makes \in Objects
  <1>1. discover[v][i].makes \in Makes(v)
    BY DEF Makes
  <1> QED BY <1>1, ScriptsAssumption DEF Objects

\* A set of naturals has a least element.
LEMMA Least ==
  ASSUME NEW B, B \subseteq Nat, B # {}
  PROVE  \E n \in B : \A k \in B : n <= k
  <1> DEFINE R == OpToRel(<, Nat)
  <1>1. IsWellFoundedOn(R, Nat)
    BY NatLessThanWellFounded
  <1>2. PICK n \in B : \A k \in B : ~ (<<k, n>> \in R)
    <2> HIDE DEF R
    <2> QED BY <1>1, WFMin
  <1>3. \A k \in B : <<k, n>> \in R <=> k < n
    BY DEF OpToRel
  <1> HIDE DEF R
  <1>4. \A k \in B : ~(k < n)
    BY <1>2, <1>3
  <1>5. \A k \in B : n <= k
    BY <1>4
  <1> QED BY <1>5

-----------------------------------------------------------------------------
(* What a step does, process by process. *)

\* Of the others nothing changes.
OthersStay(p) ==
    \A q \in Processes \ {p} :
        /\ pc'[q] = pc[q] /\ done'[q] = done[q] /\ version'[q] = version[q]
        /\ step'[q] = step[q] /\ result'[q] = result[q]

\* The run of P is over.
Over(p, how) == pc'[p] = "idle" /\ result'[p] = how

\* The run of P stands ahead of version V, with the versions in SKIPPED behind it.
Entered(p, v, skipped) ==
    /\ pc'[p] = "script" /\ version'[p] = v /\ step'[p] = 1
    /\ done'[p] = skipped /\ result'[p] = "none"

\* The types of the runs alone.
RunsOK ==
    /\ pc \in [Processes -> Labels]
    /\ done \in [Processes -> SUBSET Versions]
    /\ version \in [Processes -> 0 .. Len(discover)]
    /\ step \in [Processes -> Nat]
    /\ result \in [Processes -> Results]

LEMMA EndEffects ==
  ASSUME RunsOK, NEW p \in Processes, NEW how \in Results, End(p, how)
  PROVE  RunsOK' /\ OthersStay(p) /\ Over(p, how)
  <1>1. "idle" \in Labels /\ 0 \in 0 .. Len(discover) /\ 0 \in Nat /\ {} \in SUBSET Versions
    BY Numbered DEF Labels
  <1>2. OthersStay(p) /\ Over(p, how)
    BY DEF RunsOK, End, Goto, OthersStay, Over
  <1>3. pc' \in [Processes -> Labels]
    BY <1>1 DEF RunsOK, End, Goto
  <1>4. done' \in [Processes -> SUBSET Versions] /\ step' \in [Processes -> Nat]
    BY <1>1 DEF RunsOK, End
  <1>5. version' \in [Processes -> 0 .. Len(discover)]
    BY <1>1 DEF RunsOK, End
  <1>6. result' \in [Processes -> Results]
    BY DEF RunsOK, End
  <1> QED BY <1>2, <1>3, <1>4, <1>5, <1>6 DEF RunsOK

\* The loop ends when every later version is skipped, and else goes on with the first that is not.
LEMMA ProceedEffects ==
  ASSUME RunsOK, NEW p \in Processes, NEW v \in Nat, NEW skipped \in SUBSET Versions,
         Proceed(p, v, skipped)
  PROVE  /\ RunsOK' /\ OthersStay(p)
         /\ \/ Over(p, "ok") /\ \A w \in Versions : w > v => w \in skipped
            \/ \E n \in Versions \ skipped :
                    /\ n > v /\ Entered(p, n, skipped)
                    /\ \A w \in Versions : v < w /\ w < n => w \in skipped
  <1> DEFINE pending == {w \in Versions : w > v} \ skipped
             next == CHOOSE w \in pending : \A x \in pending : w <= x
  <1>1. CASE pending = {}
    <2>1. End(p, "ok")
      BY <1>1 DEF Proceed
    <2>2. RunsOK' /\ OthersStay(p) /\ Over(p, "ok")
      BY <2>1, EndEffects DEF Results
    <2> QED BY <2>2, <1>1
  <1>2. CASE pending # {}
    <2>1. pending \subseteq Nat /\ pending \subseteq Versions \ skipped
      BY Numbered
    <2>2. \E n \in pending : \A x \in pending : n <= x
      <3> HIDE DEF pending
      <3> QED BY <2>1, <1>2, Least
    <2>3. next \in pending /\ \A x \in pending : next <= x
      <3> HIDE DEF pending
      <3> QED BY <2>2
    <2>4. /\ pc' = [pc EXCEPT ![p] = "script"]
          /\ version' = [version EXCEPT ![p] = next]
          /\ step' = [step EXCEPT ![p] = 1]
          /\ done' = [done EXCEPT ![p] = skipped]
          /\ result' = [result EXCEPT ![p] = "none"]
      BY <1>2 DEF Proceed, Goto
    <2> HIDE DEF next
    <2>5. next \in Versions \ skipped /\ next > v /\ next \in 0 .. Len(discover)
      BY <2>3, Numbered
    <2>6. \A w \in Versions : v < w /\ w < next => w \in skipped
      BY <2>3, <2>5, Numbered
    <2>7. OthersStay(p) /\ Entered(p, next, skipped)
      BY <2>4 DEF RunsOK, OthersStay, Entered
    <2>8. /\ pc' \in [Processes -> Labels] /\ step' \in [Processes -> Nat]
          /\ result' \in [Processes -> Results]
      BY <2>4 DEF RunsOK, Labels, Results
    <2>9. done' \in [Processes -> SUBSET Versions]
      BY <2>4 DEF RunsOK
    <2>10. version' \in [Processes -> 0 .. Len(discover)]
      BY <2>4, <2>5 DEF RunsOK
    <2> QED BY <2>5, <2>6, <2>7, <2>8, <2>9, <2>10 DEF RunsOK
  <1> QED BY <1>1, <1>2

\* Start: all is registered, or the run stands ahead of the first version that is not.
Begins(p) ==
    /\ At(p, "idle") /\ UNCHANGED <<database, killed>>
    /\ met' = IF Running = {} THEN met \ {p} ELSE met \cup Running \cup {p}
    /\ \/ Over(p, "ok") /\ registry = Versions
       \/ \E n \in Versions : registry = 1 .. n - 1 /\ Entered(p, n, registry)

\* A statement or a row that another run has been faster with.
Raises(p) ==
    /\ UNCHANGED <<database, met, killed>>
    /\ \/ /\ At(p, "script") /\ Over(p, "duplicate")
          /\ discover[version[p]][step[p]].kind = "add"
          /\ discover[version[p]][step[p]].makes \in schema
       \/ At(p, "register") /\ Over(p, "registered") /\ version[p] \in registry

\* A statement that passes.
Performs(p) ==
    /\ At(p, "script") /\ UNCHANGED <<registry, met, killed>>
    /\ schema' = schema \cup {discover[version[p]][step[p]].makes}
    /\ pc'[p] \in {"script", "register"} /\ Place(p)' = Place(p) + 1
    /\ step'[p] \in DOMAIN discover[version[p]]
    /\ pc'[p] = "register" => step'[p] = Len(discover[version[p]])
    /\ version'[p] = version[p] /\ done'[p] = done[p] /\ result'[p] = result[p]

\* The row of the registry, and the next version.
Records(p) ==
    /\ At(p, "register") /\ UNCHANGED <<schema, met, killed>>
    /\ version[p] \notin registry /\ registry' = registry \cup {version[p]}
    /\ \/ Over(p, "ok") /\ version[p] = Len(discover)
       \/ version[p] + 1 \in Versions /\ Entered(p, version[p] + 1, done[p])

Dies(p) == ~At(p, "idle") /\ Over(p, "none") /\ killed' = TRUE /\ UNCHANGED <<database, met>>

Steps(p) ==
    RunsOK' /\ OthersStay(p) /\ (Begins(p) \/ Raises(p) \/ Performs(p) \/ Records(p) \/ Dies(p))

\* With no gaps, the registry ends where the first version is missing.
LEMMA Gapless ==
  ASSUME TypeOK, Registered, NEW n \in Versions, n \notin registry,
         \A w \in Versions : 0 < w /\ w < n => w \in registry
  PROVE  registry = 1 .. n - 1
  <1>1. registry \subseteq Versions /\ n \in Nat
    BY Numbered DEF TypeOK
  <1>2. \A w \in registry : w < n
    BY <1>1, Numbered DEF Registered
  <1>3. registry \subseteq 1 .. n - 1
    BY <1>1, <1>2, Numbered
  <1>4. 1 .. n - 1 \subseteq registry
    BY <1>1, Numbered
  <1> QED BY <1>3, <1>4

LEMMA StartEffects == ASSUME IInv, NEW p \in Processes, Start(p) PROVE Steps(p)
  <1>1. RunsOK /\ registry \in SUBSET Versions
    BY DEF IInv, TypeOK, RunsOK
  <1>2. Proceed(p, 0, registry)
    BY DEF Start
  <1>3. /\ RunsOK' /\ OthersStay(p)
        /\ \/ Over(p, "ok") /\ \A w \in Versions : w > 0 => w \in registry
           \/ \E n \in Versions \ registry :
                    /\ n > 0 /\ Entered(p, n, registry)
                    /\ \A w \in Versions : 0 < w /\ w < n => w \in registry
    BY <1>1, <1>2, ProceedEffects, Numbered
  <1>4. CASE Over(p, "ok") /\ \A w \in Versions : w > 0 => w \in registry
    <2>1. \A w \in Versions : w > 0
      BY Numbered
    <2>2. Versions \subseteq registry
      BY <1>4, <2>1
    <2>3. registry = Versions
      BY <1>1, <2>2
    <2> QED BY <1>3, <1>4, <2>3 DEF Steps, Begins, Start
  <1>5. ASSUME NEW n \in Versions \ registry, Entered(p, n, registry),
               \A w \in Versions : 0 < w /\ w < n => w \in registry
        PROVE  Steps(p)
    <2>1. registry = 1 .. n - 1
      BY <1>5, Gapless DEF IInv
    <2> QED BY <1>3, <1>5, <2>1 DEF Steps, Begins, Start
  <1> QED BY <1>3, <1>4, <1>5

LEMMA ExecuteEffects == ASSUME IInv, NEW p \in Processes, Execute(p) PROVE Steps(p)
  <1> DEFINE v == version[p]
             i == step[p]
             statement == discover[v][i]
  <1>1. RunsOK
    BY DEF IInv, TypeOK, RunsOK
  <1>2. At(p, "script") /\ p \in Running
    BY DEF Execute, At, Running
  <1>3. v \in Versions /\ i \in DOMAIN discover[v] /\ Before(v, i) \subseteq schema /\ Place(p) = i
    BY <1>2 DEF IInv, Runs, Place, At
  <1>4. statement.needs \subseteq schema
    BY <1>3, Statements
  <1>5. CASE statement.kind = "add" /\ statement.makes \in schema /\ Raise(p, "duplicate")
    <2>1. End(p, "duplicate") /\ UNCHANGED database
      BY <1>5 DEF Raise
    <2>2. RunsOK' /\ OthersStay(p) /\ Over(p, "duplicate")
      BY <1>1, <2>1, EndEffects DEF Results
    <2> QED BY <1>2, <1>5, <2>1, <2>2 DEF Steps, Raises, Execute
  <1>6. CASE /\ schema' = schema \cup {statement.makes}
             /\ IF i = Len(discover[v])
                THEN Goto(p, "register") /\ UNCHANGED step
                ELSE step' = [step EXCEPT ![p] = @ + 1] /\ UNCHANGED pc
             /\ UNCHANGED <<registry, done, version, result>>
    <2>1. i \in 1 .. Len(discover[v]) /\ DOMAIN discover[v] = 1 .. Len(discover[v])
          /\ Len(discover[v]) \in Nat
      BY <1>3, Numbered
    <2>2. CASE i = Len(discover[v])
      <3>1. pc' = [pc EXCEPT ![p] = "register"] /\ step' = step
        BY <1>6, <2>2 DEF Goto
      <3>2. RunsOK'
        BY <1>1, <1>6, <3>1 DEF RunsOK, Labels
      <3>3. OthersStay(p)
        BY <1>1, <1>6, <3>1 DEF RunsOK, OthersStay
      <3>4. pc'[p] = "register"
        BY <1>1, <3>1 DEF RunsOK
      <3>5. Performs(p)
        BY <1>2, <1>3, <1>6, <2>1, <2>2, <3>1, <3>4 DEF Performs, Place, At, Execute
      <3> QED BY <3>2, <3>3, <3>5 DEF Steps
    <2>3. CASE i # Len(discover[v])
      <3>1. step' = [step EXCEPT ![p] = @ + 1] /\ pc' = pc
        BY <1>6, <2>3
      <3>2. RunsOK'
        BY <1>1, <1>6, <3>1 DEF RunsOK
      <3>3. OthersStay(p)
        BY <1>1, <1>6, <3>1 DEF RunsOK, OthersStay
      <3>4. pc'[p] = "script" /\ step'[p] = i + 1
        BY <1>1, <1>2, <3>1 DEF RunsOK, At
      <3>5. Performs(p)
        BY <1>2, <1>3, <1>6, <2>1, <2>3, <3>1, <3>4 DEF Performs, Place, At, Execute
      <3> QED BY <3>2, <3>3, <3>5 DEF Steps
    <2> QED BY <2>2, <2>3
  <1> QED BY <1>4, <1>5, <1>6 DEF Execute

LEMMA RegisterEffects == ASSUME IInv, NEW p \in Processes, Register(p) PROVE Steps(p)
  <1> DEFINE v == version[p]
  <1>1. RunsOK
    BY DEF IInv, TypeOK, RunsOK
  <1>2. At(p, "register") /\ p \in Running
    BY DEF Register, At, Running
  <1>3. v \in Versions /\ done[p] \subseteq 1 .. v - 1 /\ done[p] \in SUBSET Versions
    BY <1>1, <1>2 DEF IInv, Runs, RunsOK
  <1>4. CASE v \in registry /\ Raise(p, "registered")
    <2>1. End(p, "registered") /\ UNCHANGED database
      BY <1>4 DEF Raise
    <2>2. RunsOK' /\ OthersStay(p) /\ Over(p, "registered")
      BY <1>1, <2>1, EndEffects DEF Results
    <2> QED BY <1>2, <1>4, <2>1, <2>2 DEF Steps, Raises, Register
  <1>5. CASE /\ v \notin registry /\ registry' = registry \cup {v}
             /\ Proceed(p, v, done[p]) /\ UNCHANGED schema
    <2>1. /\ RunsOK' /\ OthersStay(p)
          /\ \/ Over(p, "ok") /\ \A w \in Versions : w > v => w \in done[p]
             \/ \E n \in Versions \ done[p] :
                    /\ n > v /\ Entered(p, n, done[p])
                    /\ \A w \in Versions : v < w /\ w < n => w \in done[p]
      BY <1>1, <1>3, <1>5, ProceedEffects, Numbered
    <2>2. \A w \in Versions : w > v => w \notin done[p]
      BY <1>3, Numbered
    <2>3. CASE Over(p, "ok") /\ \A w \in Versions : w > v => w \in done[p]
      <3>1. v = Len(discover)
        BY <1>3, <2>2, <2>3, Numbered
      <3> QED BY <1>2, <1>5, <2>1, <2>3, <3>1 DEF Steps, Records, Register
    <2>4. ASSUME NEW n \in Versions \ done[p], n > v, Entered(p, n, done[p]),
                 \A w \in Versions : v < w /\ w < n => w \in done[p]
          PROVE  Steps(p)
      <3>1. v \in Nat /\ n \in Nat /\ (n # v + 1 => v + 1 \in Versions /\ v < v + 1 /\ v + 1 < n)
        BY <1>3, <2>4, Numbered
      <3>2. v + 1 \in Versions => v + 1 \notin done[p]
        BY <2>2, <3>1
      <3>3. n = v + 1
        BY <2>4, <3>1, <3>2
      <3> QED BY <1>2, <1>5, <2>1, <2>4, <3>3 DEF Steps, Records, Register
    <2> QED BY <2>1, <2>3, <2>4
  <1> QED BY <1>4, <1>5 DEF Register

LEMMA KillEffects == ASSUME IInv, NEW p \in Processes, Kill(p) PROVE Steps(p)
  <1>1. RunsOK
    BY DEF IInv, TypeOK, RunsOK
  <1>2. RunsOK' /\ OthersStay(p) /\ Over(p, "none")
    BY <1>1, EndEffects DEF Kill, Results
  <1> QED BY <1>2 DEF Steps, Dies, Kill

LEMMA Effects == IInv /\ Next => \E p \in Processes : Steps(p)
  BY StartEffects, ExecuteEffects, RegisterEffects, KillEffects DEF Next

-----------------------------------------------------------------------------
(* The invariant, part by part. *)

\* Nothing is taken back from the database.
LEMMA DatabaseGrows ==
  ASSUME NEW p \in Processes, Steps(p)
  PROVE  registry \subseteq registry' /\ schema \subseteq schema'
  BY DEF Steps, Begins, Raises, Performs, Records, Dies, database

\* What is registered is in the schema, and what is ahead of a first statement with it.
LEMMA AppliedBefore ==
  ASSUME Registered, NEW v, 1 .. v - 1 \subseteq registry
  PROVE  Before(v, 1) \subseteq schema
  <1>1. ASSUME NEW x \in Before(v, 1) PROVE \E w \in 1 .. v - 1 : x \in Makes(w)
    <2>1. 1 .. 1 - 1 = {}
      OBVIOUS
    <2> QED BY <1>1, <2>1, InBefore
  <1> QED BY <1>1 DEF Registered

LEMMA RunsStep == ASSUME IInv, NEW p \in Processes, Steps(p) PROVE Runs'
  <1>1. registry \subseteq registry' /\ schema \subseteq schema'
    BY DatabaseGrows
  <1> SUFFICES ASSUME NEW q \in Processes, pc'[q] # "idle"
               PROVE  /\ version'[q] \in Versions
                      /\ step'[q] \in DOMAIN discover[version'[q]]
                      /\ pc'[q] = "register" => step'[q] = Len(discover[version'[q]])
                      /\ 1 .. version'[q] - 1 \subseteq registry'
                      /\ done'[q] \subseteq 1 .. version'[q] - 1
                      /\ Before(version'[q], Place(q)') \subseteq schema'
    BY DEF Runs, Running, At
  <1>2. CASE q # p
    <2>1. /\ pc'[q] = pc[q] /\ done'[q] = done[q] /\ version'[q] = version[q]
          /\ step'[q] = step[q] /\ Place(q)' = Place(q)
      BY <1>2 DEF Steps, OthersStay, Place, At
    <2>2. q \in Running
      BY <2>1 DEF Running
    <2> QED BY <1>1, <2>1, <2>2 DEF IInv, Runs, At
  <1>3. CASE q = p /\ Begins(p)
    <2>1. PICK n \in Versions : registry = 1 .. n - 1 /\ Entered(p, n, registry)
      BY <1>3 DEF Begins, Over
    <2>2. 1 \in DOMAIN discover[n]
      BY Numbered
    <2>3. Before(n, 1) \subseteq schema
      BY <2>1, AppliedBefore DEF IInv
    <2>4. /\ version'[q] = n /\ step'[q] = 1 /\ pc'[q] = "script" /\ done'[q] = registry
          /\ Place(q)' = 1
      BY <1>3, <2>1 DEF Entered, Place, At
    <2> QED BY <1>1, <2>1, <2>2, <2>3, <2>4
  <1>4. CASE q = p /\ Performs(p)
    <2> DEFINE v == version[p]
               i == step[p]
    <2>1. /\ v \in Versions /\ i \in DOMAIN discover[v] /\ Place(p) = i
          /\ 1 .. v - 1 \subseteq registry /\ done[p] \subseteq 1 .. v - 1
          /\ Before(v, i) \subseteq schema
      BY <1>4 DEF IInv, Runs, Running, Performs, At, Place
    <2>2. Before(v, i + 1) \subseteq schema'
      BY <1>4, <2>1, BeforeNext DEF Performs
    <2>3. /\ version'[q] = v /\ done'[q] = done[p] /\ Place(q)' = i + 1
          /\ step'[q] \in DOMAIN discover[v]
          /\ pc'[q] = "register" => step'[q] = Len(discover[v])
      BY <1>4, <2>1 DEF Performs
    <2> QED BY <1>1, <2>1, <2>2, <2>3
  <1>5. CASE q = p /\ Records(p)
    <2> DEFINE v == version[p]
    <2>1. /\ v \in Versions /\ step[p] = Len(discover[v]) /\ Place(p) = step[p] + 1
          /\ 1 .. v - 1 \subseteq registry /\ done[p] \subseteq 1 .. v - 1
          /\ Before(v, Len(discover[v]) + 1) \subseteq schema
      BY <1>5 DEF IInv, Runs, Running, Records, At, Place
    <2>2. v + 1 \in Versions /\ Entered(p, v + 1, done[p])
      BY <1>5 DEF Records, Over
    <2>3. 1 \in DOMAIN discover[v + 1] /\ 1 .. (v + 1) - 1 = (1 .. v - 1) \cup {v}
      BY <2>1, <2>2, Numbered
    <2>4. registry' = registry \cup {v} /\ Before(v + 1, 1) \subseteq schema
      BY <1>5, <2>1, BeforeEnd DEF Records
    <2>5. /\ version'[q] = v + 1 /\ step'[q] = 1 /\ pc'[q] = "script" /\ done'[q] = done[p]
          /\ Place(q)' = 1
      BY <1>5, <2>2 DEF Entered, Place, At
    <2> QED BY <1>1, <2>1, <2>2, <2>3, <2>4, <2>5
  <1>6. CASE q = p /\ (Raises(p) \/ Dies(p))
    BY <1>6 DEF Raises, Dies, Over
  <1> QED BY <1>2, <1>3, <1>4, <1>5, <1>6 DEF Steps

LEMMA TypeStep == ASSUME IInv, NEW p \in Processes, Steps(p) PROVE TypeOK'
  <1>1. Runs' /\ RunsOK'
    BY RunsStep DEF Steps
  <1>2. TypeOK
    BY DEF IInv
  <1>3. schema' \in SUBSET Objects
    <2>1. CASE Performs(p)
      <3>1. version[p] \in Versions /\ step[p] \in DOMAIN discover[version[p]]
        BY <2>1 DEF IInv, Runs, Running, Performs, At
      <3> QED BY <1>2, <2>1, <3>1, Statements DEF TypeOK, Performs
    <2>2. CASE ~Performs(p)
      BY <1>2, <2>2 DEF TypeOK, Steps, Begins, Raises, Records, Dies, database
    <2> QED BY <2>1, <2>2
  <1>4. registry' \in SUBSET Versions
    <2>1. CASE Records(p)
      <3>1. version[p] \in Versions
        BY <2>1 DEF IInv, Runs, Running, Records, At
      <3> QED BY <1>2, <2>1, <3>1 DEF TypeOK, Records
    <2>2. CASE ~Records(p)
      BY <1>2, <2>2 DEF TypeOK, Steps, Begins, Raises, Performs, Dies, database
    <2> QED BY <2>1, <2>2
  <1>5. \A q \in Processes : pc'[q] = "script" => step'[q] \in DOMAIN discover[version'[q]]
    BY <1>1 DEF Runs, Running
  <1>6. met' \in SUBSET Processes /\ killed' \in BOOLEAN
    BY <1>2 DEF TypeOK, Steps, Begins, Raises, Performs, Records, Dies, Running
  <1> QED BY <1>1, <1>3, <1>4, <1>5, <1>6 DEF TypeOK, RunsOK

LEMMA RegisteredStep == ASSUME IInv, NEW p \in Processes, Steps(p) PROVE Registered'
  <1>1. Registered /\ schema \subseteq schema'
    BY DatabaseGrows DEF IInv
  <1>2. CASE Records(p)
    <2> DEFINE v == version[p]
    <2>1. /\ v \in Versions /\ step[p] = Len(discover[v]) /\ Place(p) = step[p] + 1
          /\ 1 .. v - 1 \subseteq registry
          /\ Before(v, Len(discover[v]) + 1) \subseteq schema
      BY <1>2 DEF IInv, Runs, Running, Records, At, Place
    <2>2. Makes(v) \subseteq schema
      BY <2>1, BeforeEnd
    <2>3. 1 .. v \subseteq registry \cup {v}
      BY <2>1, Numbered
    <2>4. registry' = registry \cup {v} /\ schema' = schema
      BY <1>2 DEF Records
    <2> QED BY <1>1, <2>2, <2>3, <2>4 DEF Registered
  <1>3. CASE ~Records(p)
    <2>1. registry' = registry
      BY <1>3 DEF Steps, Begins, Raises, Performs, Dies, database
    <2> QED BY <1>1, <2>1 DEF Registered
  <1> QED BY <1>2, <1>3

\* All registered is all applied.
LEMMA AllRegistered ==
  TypeOK /\ Registered /\ registry = Versions => UpToDate
  BY DEF TypeOK, Registered, UpToDate, Objects

LEMMA AllRegisteredThen ==
  (TypeOK /\ Registered /\ registry = Versions => UpToDate)'
  BY AllRegistered, PTL

\* An up-to-date schema stays so.
LEMMA StaysUpToDate == ASSUME IInv, NEW p \in Processes, Steps(p), UpToDate PROVE UpToDate'
  BY TypeStep, DatabaseGrows DEF TypeOK, UpToDate

LEMMA ResultsStep ==
  ASSUME IInv, NEW p \in Processes, Steps(p)
  PROVE  NoneIsMissing' /\ OkMeansUpToDate'
  <1>1. NoneIsMissing'
    BY DEF IInv, NoneIsMissing, Steps, OthersStay, Begins, Raises, Performs, Records, Dies,
           Over, Entered
  <1>2. ASSUME NEW q \in Processes, result'[q] = "ok" PROVE UpToDate'
    <2>1. CASE result[q] = "ok"
      BY <2>1, StaysUpToDate DEF IInv, OkMeansUpToDate
    <2>2. CASE result[q] # "ok"
      <3>1. q = p /\ (Begins(p) \/ Records(p)) /\ result'[p] = "ok"
        BY <1>2, <2>2 DEF Steps, OthersStay, Raises, Performs, Dies, Over
      <3>2. registry' = Versions
        <4>1. CASE Begins(p)
          BY <3>1, <4>1 DEF Begins, Entered, database
        <4>2. CASE Records(p)
          <5>1. version[p] = Len(discover) /\ registry' = registry \cup {version[p]}
            BY <3>1, <4>2 DEF Records, Entered
          <5>2. version[p] \in Versions /\ 1 .. version[p] - 1 \subseteq registry
            BY <4>2 DEF IInv, Runs, Running, Records, At
          <5>3. Versions \subseteq registry'
            BY <5>1, <5>2, Numbered
          <5> QED BY <5>3, TypeStep DEF TypeOK
        <4> QED BY <3>1, <4>1, <4>2
      <3> QED BY <3>2, TypeStep, RegisteredStep, AllRegisteredThen
    <2> QED BY <2>1, <2>2
  <1> QED BY <1>1, <1>2 DEF OkMeansUpToDate

-----------------------------------------------------------------------------
(* The run ahead of all others. *)

\* A run that goes on stands in a script of the directory, or at its end.
LEMMA PlaceTyped ==
  ASSUME Runs, NEW p \in Running
  PROVE  /\ version[p] \in Versions /\ version[p] \in Nat
         /\ step[p] \in DOMAIN discover[version[p]]
         /\ Place(p) \in 1 .. Len(discover[version[p]]) + 1
         /\ At(p, "register") <=> Place(p) = Len(discover[version[p]]) + 1
         /\ ~At(p, "register") => Place(p) = step[p]
         /\ 1 .. version[p] - 1 \subseteq registry
  <1>1. /\ version[p] \in Versions /\ step[p] \in DOMAIN discover[version[p]]
        /\ At(p, "register") => step[p] = Len(discover[version[p]])
        /\ 1 .. version[p] - 1 \subseteq registry
    BY DEF Runs
  <1>2. /\ version[p] \in Nat /\ step[p] \in 1 .. Len(discover[version[p]])
        /\ Len(discover[version[p]]) \in Nat
    BY <1>1, Numbered
  <1> QED BY <1>1, <1>2 DEF Place

\* Nobody is at a later version than the run that leads, and its version is not registered.
LEMMA LeaderAhead ==
  ASSUME Runs, NEW l \in Processes, Leads(l)
  PROVE  /\ version[l] \notin registry
         /\ \A q \in Running : version[q] <= version[l]
  <1>1. version[l] \in Nat /\ registry = 1 .. version[l] - 1
    BY PlaceTyped DEF Leads
  <1>2. ASSUME NEW q \in Running, ~(version[q] <= version[l]) PROVE FALSE
    <2>1. version[q] \in Nat /\ 1 .. version[q] - 1 \subseteq registry
      BY PlaceTyped
    <2>2. version[l] \in Versions /\ version[l] >= 1
      BY PlaceTyped, Numbered DEF Leads
    <2>3. version[l] \in 1 .. version[q] - 1
      BY <1>1, <1>2, <2>1, <2>2
    <2> QED BY <1>1, <2>1, <2>3
  <1> QED BY <1>1, <1>2

\* The run that leads meets nothing that another has made.
LEMMA LeaderPasses ==
  ASSUME IInv, NEW l \in Processes, Leads(l)
  PROVE  ~Raises(l)
  <1>1. CASE At(l, "script")
    <2>1. version[l] \in Versions /\ step[l] \in DOMAIN discover[version[l]] /\ Place(l) = step[l]
      BY <1>1, PlaceTyped DEF IInv, Leads, At
    <2> QED BY <1>1, <2>1, Statements DEF Leads, Raises, At
  <1>2. CASE ~At(l, "script")
    BY <1>2, LeaderAhead DEF IInv, Raises
  <1> QED BY <1>1, <1>2

LEMMA LeadingStep == ASSUME IInv, NEW p \in Processes, Steps(p) PROVE Leading'
  <1> SUFFICES ASSUME killed' # TRUE
               PROVE  UpToDate' \/ Untouched' \/ \E l \in Processes : Leads(l)'
    <2>1. killed' \in BOOLEAN
      BY TypeStep DEF TypeOK
    <2> QED BY <2>1 DEF Leading
  <1>1. ~killed /\ ~Dies(p) /\ Runs
    BY DEF IInv, TypeOK, Steps, Begins, Raises, Performs, Records, Dies
  <1>2. CASE UpToDate
    BY <1>2, StaysUpToDate
  <1>3. CASE Untouched
    <2>1. Begins(p) /\ UNCHANGED database
      BY <1>1, <1>3 DEF Steps, Begins, Raises, Performs, Records, Untouched, Running, At
    <2>2. CASE registry = Versions
      <3>1. UpToDate
        BY <2>2, <1>3, AllRegistered DEF IInv
      <3> QED BY <3>1, StaysUpToDate
    <2>3. ASSUME NEW n \in Versions, registry = 1 .. n - 1, Entered(p, n, registry)
          PROVE  Leads(p)'
      <3>1. n = 1
        <4>1. n \in Nat /\ n >= 1
          BY Numbered
        <4>2. 1 .. n - 1 = {}
          BY <1>3, <2>3 DEF Untouched
        <4>3. 1 < n => 1 \in 1 .. n - 1
          BY <4>1
        <4> QED BY <4>1, <4>2, <4>3
      <3>2. /\ pc'[p] = "script" /\ version'[p] = 1 /\ step'[p] = 1 /\ Place(p)' = 1
            /\ registry' = 1 .. 1 - 1 /\ schema' = {}
        BY <1>3, <2>1, <2>3, <3>1 DEF Entered, Place, At, database, Untouched
      <3>3. \A q \in Processes : pc'[q] # "idle" => q = p
        BY <1>3 DEF Steps, OthersStay, Untouched, Running
      <3> QED BY <3>2, <3>3, BeforeEdges DEF Leads, Running
    <2> QED BY <2>1, <2>2, <2>3 DEF Begins
  <1>4. ASSUME NEW l \in Processes, Leads(l), ~UpToDate
        PROVE  UpToDate' \/ \E k \in Processes : Leads(k)'
    <2> DEFINE v == version[l]
    <2>1. /\ v \in Versions /\ v \in Nat /\ v \notin registry /\ registry = 1 .. v - 1
          /\ schema = Before(v, Place(l)) /\ l \in Running
          /\ Place(l) \in 1 .. Len(discover[v]) + 1
          /\ Len(discover[v]) \in Nat
      BY <1>1, <1>4, PlaceTyped, LeaderAhead, Numbered DEF Leads
    <2>2. \A q \in Processes \ {p} :
            /\ version'[q] = version[q] /\ Place(q)' = Place(q)
            /\ pc'[q] # "idle" <=> q \in Running
      BY DEF Steps, OthersStay, Place, At, Running
    <2>3. \A q \in Running :
            /\ Place(q) \in Nat /\ version[q] <= v
            /\ version[q] = v => Place(q) <= Place(l)
      <3>1. ASSUME NEW q \in Running PROVE Place(q) \in Nat
        BY <1>1, PlaceTyped, Numbered
      <3> QED BY <1>1, <1>4, <3>1, LeaderAhead DEF Leads
    <2>4. CASE UNCHANGED database /\ l # p
               /\ (pc'[p] # "idle" /\ version'[p] = v => Place(p)' <= Place(l))
      <3>1. /\ version'[l] = v /\ Place(l)' = Place(l) /\ pc'[l] # "idle"
            /\ schema' = schema /\ registry' = registry
        BY <2>1, <2>2, <2>4 DEF database
      <3>2. ASSUME NEW q \in Processes, pc'[q] # "idle", version'[q] = v
            PROVE  Place(q)' <= Place(l)
        BY <2>2, <2>3, <2>4, <3>2
      <3> QED BY <2>1, <3>1, <3>2 DEF Leads, Running
    <2>5. CASE Begins(p)
      <3>1. p \notin Running /\ registry # Versions /\ UNCHANGED database
        BY <2>1, <2>5 DEF Begins, At, Running
      <3>2. PICK n \in Versions : Entered(p, n, registry)
        BY <2>5, <3>1 DEF Begins
      <3>3. Place(p)' = 1
        BY <3>2 DEF Entered, Place, At
      <3> QED BY <2>1, <2>4, <3>1, <3>3
    <2>6. CASE Raises(p)
      <3>1. l # p /\ UNCHANGED database /\ pc'[p] = "idle"
        BY <1>4, <2>6, LeaderPasses DEF Raises, Over
      <3> QED BY <2>4, <3>1
    <2>7. CASE Performs(p)
      <3> DEFINE w == version[p]
                 i == step[p]
      <3>1. /\ p \in Running /\ w \in Versions /\ w \in Nat /\ i \in DOMAIN discover[w]
            /\ Place(p) = i /\ i \in Nat
        BY <1>1, <2>7, PlaceTyped, Numbered DEF Performs, Running, At
      <3>2. /\ schema' = schema \cup {discover[w][i].makes} /\ registry' = registry
            /\ version'[p] = w /\ Place(p)' = i + 1 /\ pc'[p] # "idle"
        BY <2>7, <3>1 DEF Performs
      <3>3. w <= v /\ (w = v => i <= Place(l))
        BY <2>3, <3>1
      <3>4. CASE w < v \/ (w = v /\ i < Place(l))
        <4>1. schema' = schema
          BY <2>1, <3>1, <3>2, <3>4, BeforeLater
        <4>2. l # p
          BY <3>1, <3>4
        <4> QED BY <2>1, <2>4, <3>1, <3>2, <3>4, <4>1, <4>2 DEF database
      <3>5. CASE w = v /\ i = Place(l)
        <4>1. schema' = Before(w, i + 1)
          BY <2>1, <3>1, <3>2, <3>5, BeforeNext
        <4>2. ASSUME NEW q \in Processes, pc'[q] # "idle", version'[q] = w
              PROVE  Place(q)' <= i + 1
          <5>1. CASE q = p
            BY <3>1, <3>2, <5>1
          <5>2. CASE q # p
            <6>1. q \in Running /\ version[q] = v /\ Place(q)' = Place(q)
              BY <2>2, <3>5, <4>2, <5>2
            <6>2. Place(q) \in Nat /\ Place(q) <= Place(l)
              BY <2>3, <6>1
            <6> QED BY <3>1, <3>5, <6>1, <6>2
          <5> QED BY <5>1, <5>2
        <4> QED BY <2>1, <3>1, <3>2, <3>5, <4>1, <4>2 DEF Leads, Running
      <3> QED BY <2>1, <3>1, <3>3, <3>4, <3>5
    <2>8. CASE Records(p)
      <3>1. /\ p \in Running /\ version[p] \in Versions /\ version[p] \in Nat
            /\ Place(p) = Len(discover[version[p]]) + 1
            /\ version[p] \notin registry /\ registry' = registry \cup {version[p]}
            /\ schema' = schema
        BY <1>1, <2>8, PlaceTyped DEF Records, Running, At
      <3>2. version[p] = v
        BY <2>1, <2>3, <3>1, Numbered
      <3>3. Place(l) = Len(discover[v]) + 1 /\ registry' = 1 .. v
        BY <2>1, <2>3, <3>1, <3>2, Numbered
      <3>4. schema' = Before(v + 1, 1)
        BY <2>1, <3>1, <3>3, BeforeEnd
      <3>5. CASE v = Len(discover)
        <4>1. registry' = Versions
          BY <3>3, <3>5, Numbered
        <4> QED BY <4>1, TypeStep, RegisteredStep, AllRegisteredThen
      <3>6. CASE v + 1 \in Versions /\ Entered(p, v + 1, done[p])
        <4>1. /\ version'[p] = v + 1 /\ Place(p)' = 1 /\ pc'[p] # "idle"
              /\ registry' = 1 .. (v + 1) - 1
          BY <2>1, <3>3, <3>6 DEF Entered, Place, At
        <4>2. ASSUME NEW q \in Processes, pc'[q] # "idle", version'[q] = v + 1
              PROVE  q = p
          BY <2>1, <2>2, <2>3, <4>2
        <4> QED BY <3>4, <4>1, <4>2 DEF Leads, Running
      <3> QED BY <2>8, <3>2, <3>5, <3>6 DEF Records
    <2> QED BY <1>1, <2>5, <2>6, <2>7, <2>8 DEF Steps
  <1> QED BY <1>1, <1>2, <1>3, <1>4 DEF IInv, Leading

\* Who begins while others run has met them, and they it; who ends meets nobody anew.
LEMMA MetStep == ASSUME IInv, NEW p \in Processes, Steps(p) PROVE Met'
  <1> SUFFICES ASSUME killed' # TRUE
               PROVE  /\ \A q, r \in Running' : q # r => q \in met'
                      /\ \A q \in Processes : result'[q] \in {"duplicate", "registered"} => q \in met'
                      /\ UpToDate' => Running' \subseteq met'
    <2>1. killed' \in BOOLEAN
      BY TypeStep DEF TypeOK
    <2> QED BY <2>1 DEF Met
  <1>1. ~killed /\ ~Dies(p) /\ Runs
    BY DEF IInv, TypeOK, Steps, Begins, Raises, Performs, Records, Dies
  <1>2. /\ \A q, r \in Running : q # r => q \in met
        /\ \A q \in Processes : result[q] \in {"duplicate", "registered"} => q \in met
        /\ UpToDate => Running \subseteq met
    BY <1>1 DEF IInv, Met
  <1>3. \A q \in Processes \ {p} : (q \in Running' <=> q \in Running) /\ result'[q] = result[q]
    BY DEF Steps, OthersStay, Running
  <1>4. /\ Running \subseteq Processes /\ Running' \subseteq Processes
        /\ p \in Running' <=> pc'[p] # "idle"
    BY DEF Running
  <1>5. CASE Begins(p)
    <2>1. /\ p \notin Running /\ UNCHANGED database
          /\ met' = IF Running = {} THEN met \ {p} ELSE met \cup Running \cup {p}
          /\ result'[p] \in {"ok", "none"}
      BY <1>5 DEF Begins, At, Running, Over, Entered
    <2>2. Running' \subseteq Running \cup {p}
      BY <1>3, <1>4
    <2>3. \A q, r \in Running' : q # r => q \in met'
      BY <2>1, <2>2
    <2>4. \A q \in Processes : result'[q] \in {"duplicate", "registered"} => q \in met'
      BY <1>2, <1>3, <2>1
    <2>5. ASSUME UpToDate' PROVE Running' \subseteq met'
      <3>1. registry = Versions
        BY <2>1, <2>5 DEF UpToDate, database
      <3>2. ~(\E n \in Versions : registry = 1 .. n - 1)
        BY <3>1, Numbered
      <3>3. pc'[p] = "idle"
        BY <1>5, <3>2 DEF Begins, Over
      <3>4. Running' \subseteq Running
        BY <1>4, <2>2, <3>3
      <3> QED BY <2>1, <3>4
    <2> QED BY <2>3, <2>4, <2>5
  <1>6. CASE Raises(p)
    <2>1. met' = met /\ UNCHANGED database /\ p \in Running /\ p \notin Running'
      BY <1>4, <1>6 DEF Raises, At, Running, Over
    <2>2. Running' \subseteq Running
      BY <1>3, <1>4, <2>1
    <2>3. p \in met
      <3>1. CASE UpToDate
        BY <1>2, <2>1, <3>1
      <3>2. CASE Untouched
        BY <2>1, <3>2 DEF Untouched
      <3>3. ASSUME NEW l \in Processes, Leads(l) PROVE p \in met
        <4>1. l # p /\ l \in Running
          BY <1>6, <3>3, LeaderPasses DEF Leads
        <4> QED BY <1>2, <2>1, <4>1
      <3> QED BY <1>1, <3>1, <3>2, <3>3 DEF IInv, Leading
    <2>4. UpToDate' => UpToDate
      BY <2>1 DEF UpToDate, database
    <2> QED BY <1>2, <1>3, <2>1, <2>2, <2>3, <2>4
  <1>7. CASE Performs(p)
    <2>1. /\ met' = met /\ registry' = registry /\ p \in Running
          /\ result'[p] = result[p]
      BY <1>7 DEF Performs, At, Running
    <2>2. Running' \subseteq Running
      BY <1>3, <1>4, <2>1
    <2>3. UpToDate' => UpToDate
      BY <2>1, AllRegistered DEF UpToDate, IInv
    <2> QED BY <1>2, <1>3, <2>1, <2>2, <2>3
  <1>8. CASE Records(p)
    <2> DEFINE v == version[p]
    <2>1. /\ met' = met /\ p \in Running /\ result'[p] \in {"ok", "none"}
          /\ v \notin registry /\ registry' = registry \cup {v}
      BY <1>8 DEF Records, At, Running, Over, Entered
    <2>2. Running' \subseteq Running
      BY <1>3, <1>4, <2>1
    <2>3. ASSUME UpToDate' PROVE p \notin Running'
      <3>1. SUFFICES ASSUME v + 1 \in Versions PROVE FALSE
        BY <1>4, <1>8 DEF Records, Over
      <3>2. v \in Nat /\ v >= 1
        BY <1>1, <2>1, PlaceTyped, Numbered
      <3>3. v + 1 \in registry
        BY <2>1, <2>3, <3>1, <3>2 DEF UpToDate
      <3>4. v \in registry
        BY <3>2, <3>3 DEF IInv, Registered
      <3> QED BY <2>1, <3>4
    <2>4. UpToDate' => Running' \subseteq met'
      BY <1>2, <2>1, <2>2, <2>3
    <2> QED BY <1>2, <1>3, <2>1, <2>2, <2>4
  <1> QED BY <1>1, <1>5, <1>6, <1>7, <1>8 DEF Steps

-----------------------------------------------------------------------------
\* An empty database, and nobody has run.
LEMMA InitInv == Init => IInv
  <1> SUFFICES ASSUME Init PROVE IInv
    OBVIOUS
  <1>1. Running = {}
    BY DEF Init, Running
  <1>2. TypeOK
    <2>1. 0 \in 0 .. Len(discover)
      BY Numbered
    <2>2. pc \in [Processes -> Labels] /\ result \in [Processes -> Results]
      BY DEF Init, Labels, Results
    <2>3. done \in [Processes -> SUBSET Versions] /\ step \in [Processes -> Nat]
      BY DEF Init
    <2>4. version \in [Processes -> 0 .. Len(discover)]
      BY <2>1 DEF Init
    <2>5. \A p \in Processes : pc[p] # "script"
      BY DEF Init
    <2> QED BY <2>2, <2>3, <2>4, <2>5 DEF Init, TypeOK
  <1>3. Untouched
    BY <1>1 DEF Init, Untouched
  <1>4. Registered /\ Runs /\ NoneIsMissing /\ OkMeansUpToDate
    BY <1>1 DEF Init, Registered, Runs, NoneIsMissing, OkMeansUpToDate
  <1>5. Leading /\ Met
    BY <1>1, <1>3 DEF Leading, Met, Init
  <1> QED BY <1>2, <1>4, <1>5 DEF IInv

\* Nor does anything change when nothing happens.
LEMMA Stutters == IInv /\ UNCHANGED vars => IInv'
  BY DEF IInv, vars, database, run, TypeOK, Registered, Runs, NoneIsMissing, OkMeansUpToDate,
         UpToDate, Leading, Leads, Untouched, Met, Running, Place, At

\* Every step keeps the invariant.
LEMMA Inductive == IInv /\ [Next]_vars => IInv'
  <1>1. ASSUME IInv, NEW p \in Processes, Steps(p) PROVE IInv'
    BY <1>1, TypeStep, RegisteredStep, RunsStep, ResultsStep, LeadingStep, MetStep DEF IInv
  <1> QED BY <1>1, Effects, Stutters

\* The invariant holds in every reachable state, for every directory of scripts that one run
\* gets through undisturbed and any set of processes.
THEOREM Invariance == Spec => []IInv
  <1> QED BY InitInv, Inductive, PTL DEF Spec

\* Every variable of the migrations keeps its type; a run stands at a statement of its script.
THEOREM TypeCorrect == Spec => []TypeOK
  <1>1. IInv => TypeOK
    BY DEF IInv
  <1> QED BY <1>1, Invariance, PTL

\* What the registry names is applied to the last statement, in order, and no run ever finds a
\* table or column missing, whoever was killed in the middle of a script.
THEOREM RegistryIsTrue == Spec => []RegisteredMeansApplied
  <1>1. IInv => RegisteredMeansApplied
    BY DEF IInv, Registered, NoneIsMissing, RegisteredMeansApplied
  <1> QED BY <1>1, Invariance, PTL

\* A run that reports success leaves the schema up to date.
THEOREM SuccessIsTrue == Spec => []OkMeansUpToDate
  <1>1. IInv => OkMeansUpToDate
    BY DEF IInv
  <1> QED BY <1>1, Invariance, PTL

\* Unless a run is killed only those that met another fail, and when all have ended the schema
\* is up to date.
THEOREM OneGetsThrough == Spec => []SomebodyFinishes
  <1>1. IInv => SomebodyFinishes
    BY DEF IInv, Met, Leading, Leads, Untouched, SomebodyFinishes
  <1> QED BY <1>1, Invariance, PTL
=============================================================================
