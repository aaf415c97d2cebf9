-------------------------------- MODULE Migrate --------------------------------
(* migrate.migrate, which most command-line tools run as they start: so       *)
(* several may run it at once on one database, and any may be killed.         *)
(*                                                                            *)
(* executescript ends the open transaction and runs in autocommit: every      *)
(* statement of a script is a step of its own, whatever the `with` around it  *)
(* says, and the row of the registry is one more.  DONE is read once, at the  *)
(* start.                                                                     *)
(*                                                                            *)
(* A statement makes one object.  CREATE ... IF NOT EXISTS passes when the    *)
(* object is there, ALTER TABLE ... ADD COLUMN raises; either raises when a   *)
(* table or column that it is about is missing.                               *)
EXTENDS Naturals, Sequences, FiniteSets

CONSTANTS
    Processes,
    discover     \* the scripts in the order of their file names

Versions == DOMAIN discover    \* a version is its place in that order
Makes(v) == {discover[v][i].makes : i \in DOMAIN discover[v]}
Objects == UNION {Makes(v) : v \in Versions}

\* What the statements ahead of statement I of version V make.
Before(v, i) ==
    (UNION {Makes(w) : w \in 1 .. v - 1}) \cup {discover[v][j].makes : j \in 1 .. i - 1}

\* One run of all scripts on an empty database, undisturbed, raises nowhere.
ASSUME ScriptsAssumption ==
    /\ Len(discover) \in Nat /\ Versions = 1 .. Len(discover)
    /\ \A v \in Versions :
        Len(discover[v]) \in Nat \ {0} /\ DOMAIN discover[v] = 1 .. Len(discover[v])
    /\ \A v \in Versions : \A i \in DOMAIN discover[v] :
        LET statement == discover[v][i] IN
        /\ statement.kind \in {"create", "add"}
        /\ statement.needs \subseteq Before(v, i)
        /\ statement.kind = "add" => statement.makes \notin Before(v, i)

VARIABLES
    schema,      \* the objects of the database
    registry     \* schema_migrations

VARIABLES
    pc,          \* what each process is at
    done,        \* the versions it read from the registry
    version,     \* the version in hand
    step,        \* the statement of its script
    result       \* how its last run ended

VARIABLES
    met,         \* the processes whose run has overlapped with another
    killed       \* whether any run was killed

database == <<schema, registry>>
run == <<pc, done, version, step, result>>
vars == <<database, run, met, killed>>

Labels == {"idle", "script", "register"}
Results == {"none", "ok", "duplicate", "registered", "missing"}

TypeOK ==
    /\ schema \in SUBSET Objects
    /\ registry \in SUBSET Versions
    /\ pc \in [Processes -> Labels]
    /\ done \in [Processes -> SUBSET Versions]
    /\ version \in [Processes -> 0 .. Len(discover)]
    /\ step \in [Processes -> Nat]
    /\ \A p \in Processes : pc[p] = "script" => step[p] \in DOMAIN discover[version[p]]
    /\ result \in [Processes -> Results]
    /\ met \in SUBSET Processes
    /\ killed \in BOOLEAN

Init ==
    /\ schema = {}
    /\ registry = {}
    /\ pc = [p \in Processes |-> "idle"]
    /\ done = [p \in Processes |-> {}]
    /\ version = [p \in Processes |-> 0]
    /\ step = [p \in Processes |-> 0]
    /\ result = [p \in Processes |-> "none"]
    /\ met = {}
    /\ killed = FALSE

-----------------------------------------------------------------------------
At(p, label) == pc[p] = label
Goto(p, label) == pc' = [pc EXCEPT ![p] = label]

Running == {p \in Processes : pc[p] # "idle"}

End(p, how) ==
    /\ Goto(p, "idle")
    /\ result' = [result EXCEPT ![p] = how]
    /\ done' = [done EXCEPT ![p] = {}]
    /\ version' = [version EXCEPT ![p] = 0]
    /\ step' = [step EXCEPT ![p] = 0]

Raise(p, how) == End(p, how) /\ UNCHANGED database

\* The first version after V that is not in SKIPPED, or the end of the loop.
Proceed(p, v, skipped) ==
    LET pending == {w \in Versions : w > v} \ skipped
        next == CHOOSE w \in pending : \A x \in pending : w <= x
    IN  IF pending = {}
        THEN End(p, "ok")
        ELSE /\ Goto(p, "script")
             /\ version' = [version EXCEPT ![p] = next]
             /\ step' = [step EXCEPT ![p] = 1]
             /\ done' = [done EXCEPT ![p] = skipped]
             /\ result' = [result EXCEPT ![p] = "none"]

\* Mutant: the registry is not consulted.
StartAfresh(p) ==
    /\ At(p, "idle")
    /\ Proceed(p, 0, {})
    /\ met' = IF Running = {} THEN met \ {p} ELSE met \cup Running \cup {p}
    /\ UNCHANGED <<database, killed>>

\* _applied: create the registry where it is missing, and read it.
Start(p) ==
    /\ At(p, "idle")
    /\ Proceed(p, 0, registry)
    /\ met' = IF Running = {} THEN met \ {p} ELSE met \cup Running \cup {p}
    /\ UNCHANGED <<database, killed>>

\* Mutant: a script that raises is given up, and the loop goes on.
ExecuteOrSkip(p) ==
    LET statement == discover[version[p]][step[p]] IN
    /\ At(p, "script")
    /\ IF statement.kind = "add" /\ statement.makes \in schema
       THEN Proceed(p, version[p], done[p]) /\ UNCHANGED schema
       ELSE /\ schema' = schema \cup {statement.makes}
            /\ IF step[p] = Len(discover[version[p]])
               THEN Goto(p, "register") /\ UNCHANGED step
               ELSE step' = [step EXCEPT ![p] = @ + 1] /\ UNCHANGED pc
            /\ UNCHANGED <<done, version, result>>
    /\ UNCHANGED <<registry, met, killed>>

\* Mutant: the row of the registry goes in ahead of the script, which commits it.
ExecuteRegistered(p) ==
    LET statement == discover[version[p]][step[p]] IN
    /\ At(p, "script")
    /\ registry' = registry \cup {version[p]}
    /\ schema' = schema \cup {statement.makes}
    /\ IF step[p] = Len(discover[version[p]])
       THEN Goto(p, "register") /\ UNCHANGED step
       ELSE step' = [step EXCEPT ![p] = @ + 1] /\ UNCHANGED pc
    /\ UNCHANGED <<done, version, result, met, killed>>

\* The next statement of the script.
Execute(p) ==
    LET statement == discover[version[p]][step[p]] IN
    /\ At(p, "script")
    /\ \/ /\ ~(statement.needs \subseteq schema)
          /\ Raise(p, "missing")
       \/ /\ statement.needs \subseteq schema
          /\ statement.kind = "add" /\ statement.makes \in schema
          /\ Raise(p, "duplicate")
       \/ /\ statement.needs \subseteq schema
          /\ statement.kind = "create" \/ statement.makes \notin schema
          /\ schema' = schema \cup {statement.makes}
          /\ IF step[p] = Len(discover[version[p]])
             THEN Goto(p, "register") /\ UNCHANGED step
             ELSE step' = [step EXCEPT ![p] = @ + 1] /\ UNCHANGED pc
          /\ UNCHANGED <<registry, done, version, result>>
    /\ UNCHANGED <<met, killed>>

\* INSERT INTO schema_migrations: version is the primary key.
Register(p) ==
    /\ At(p, "register")
    /\ \/ version[p] \in registry /\ Raise(p, "registered")
       \/ /\ version[p] \notin registry
          /\ registry' = registry \cup {version[p]}
          /\ Proceed(p, version[p], done[p])
          /\ UNCHANGED schema
    /\ UNCHANGED <<met, killed>>

\* The process is killed, or waits in vain for the lock.
Kill(p) ==
    /\ ~At(p, "idle")
    /\ End(p, "none")
    /\ killed' = TRUE
    /\ UNCHANGED <<database, met>>

Next == \E p \in Processes : Start(p) \/ Execute(p) \/ Register(p) \/ Kill(p)

Spec == Init /\ [][Next]_vars

-----------------------------------------------------------------------------
(* Properties. *)

UpToDate == registry = Versions /\ schema = Objects

\* A version that the registry names is applied to the last statement, whoever applied it
\* and whatever was killed meanwhile: skipping it is right.  Versions are registered in
\* order, so none ever meets a schema that its predecessors have not made.
RegisteredMeansApplied ==
    /\ \A v \in registry : Makes(v) \subseteq schema
    /\ \A v \in registry : 1 .. v \subseteq registry
    /\ \A p \in Processes : result[p] # "missing"

\* A run that reports success leaves the schema up to date, also when others ran with it.
OkMeansUpToDate ==
    \A p \in Processes : result[p] = "ok" => UpToDate

\* Unless one was killed, only runs that met another fail; and of those that meet, one
\* gets through: when all have ended the schema is up to date.
SomebodyFinishes ==
    ~killed =>
        /\ \A p \in Processes : result[p] \in {"duplicate", "registered"} => p \in met
        /\ (Running = {} /\ \E p \in Processes : result[p] # "none") => UpToDate

-----------------------------------------------------------------------------
(* What the repository says and the code does not do. *)

\* docs/DATABASE.md: "re-running the migration step is safe and never duplicates or errors";
\* migrate: "Re-running is a safe no-op".  Here for runs that never met another.
RerunNeverErrors ==
    \A p \in Processes : result[p] # "none" /\ p \notin met => result[p] = "ok"
=============================================================================
