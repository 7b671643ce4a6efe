-------------------------- MODULE TenantMigrations --------------------------
(***************************************************************************)
(* TenantMigrationService.migrateAllTenants: a request that brings the     *)
(* databases of all ready tenants up to the migrations of this release.    *)
(* Nothing keeps two such requests apart, and nothing is transactional:    *)
(* the statements of a migration are executed and committed one by one,    *)
(* and its record is inserted after the last.                              *)
(*                                                                         *)
(* A statement is named by what it adds to the schema.  PostgreSQL refuses *)
(* it when that exists already or when something it needs does not.  The   *)
(* databases start as DatabaseCreationConsumer leaves those of ready       *)
(* tenants: some migrations finished, perhaps by an older release, and     *)
(* perhaps one more that was begun and never completed.  Faults are calls  *)
(* that fail for reasons of their own and the death of the API process.    *)
(***************************************************************************)
EXTENDS Naturals, Sequences, Functions

CONSTANTS Tenants,    \* the tenants reported ready
          Jobs,       \* the calls of migrate-tenants
          Scripts,    \* the statements of each migration, in order
          Requires,   \* what a statement needs to be there
          MaxFaults,
          Null

Migrations == DOMAIN Scripts
Statements(m) == Range(Scripts[m])
Schema == UNION {Statements(m) : m \in Migrations}

ASSUME ScriptAssumption ==
    /\ Scripts \in Seq(Seq(Schema) \ {<<>>})
    /\ Schema \subseteq DOMAIN Requires
    /\ \A m, n \in Migrations : m # n => Statements(m) \cap Statements(n) = {}
    /\ \A m \in Migrations : IsInjective(Scripts[m])

ASSUME FaultAssumption == MaxFaults \in Nat /\ Null \notin Tenants

VARIABLES objects,  \* what each tenant database contains
          records,  \* how many records each migration has in _prisma_migrations
          jobs,     \* the running calls
          results,  \* what each call reports of each tenant and migration
          faults

vars == <<objects, records, jobs, results, faults>>

-----------------------------------------------------------------------------
Job ==
    [step : {"idle", "tenant", "check", "run", "record", "done", "aborted"},
     left : SUBSET Tenants, tenant : Tenants \cup {Null},
     at : Nat \ {0}, statement : Nat \ {0}]

Report == {"none", "applied", "failed", "already_applied"}

TypeOK ==
    /\ objects \in [Tenants -> SUBSET Schema]
    /\ records \in [Tenants -> [Migrations -> Nat]]
    /\ jobs \in [Jobs -> Job]
    /\ results \in [Jobs -> [Tenants -> [Migrations -> Report]]]
    /\ faults \in 0 .. MaxFaults

\* The users table is in the default database only.  DatabaseCreationConsumer
\* skips the statements that refer to it (shouldSkipStatement).
Foreign(s) == ~(Requires[s] \subseteq Schema)

Local(m) == {s \in Statements(m) : ~Foreign(s)}

\* A migration that does not refer to the users table needs what its own earlier
\* statements add, and what earlier migrations add; the latter all from its first
\* statement on.
ASSUME OrderAssumption ==
    \A m \in Migrations : Local(m) = Statements(m) =>
        \A k \in DOMAIN Scripts[m] : \A r \in Requires[Scripts[m][k]] :
            \/ \E i \in 1 .. k - 1 : r = Scripts[m][i]
            \/ /\ r \in Requires[Scripts[m][1]]
               /\ \E n \in 1 .. m - 1 : r \in Local(n)

\* The databases provisioning leaves: n migrations finished and, when begun, the
\* first i statements of the next one gone through under a record that was never
\* marked finished.
Provisioned(n, begun, i) ==
    [objects |-> (UNION {Local(m) : m \in 1 .. n}) \cup
                 (IF begun THEN {s \in Local(n + 1) : \E k \in 1 .. i : s = Scripts[n + 1][k]}
                  ELSE {}),
     records |-> [m \in Migrations |-> IF m <= n \/ (begun /\ m = n + 1) THEN 1 ELSE 0]]

ProvisionedDatabases ==
    {Provisioned(n, FALSE, 0) : n \in 0 .. Len(Scripts)} \cup
    UNION {{Provisioned(n, TRUE, i) : i \in 0 .. Len(Scripts[n + 1])} :
              n \in 0 .. Len(Scripts) - 1}

Init ==
    /\ \E db \in [Tenants -> ProvisionedDatabases] :
          /\ objects = [t \in Tenants |-> db[t].objects]
          /\ records = [t \in Tenants |-> db[t].records]
    /\ jobs = [j \in Jobs |->
          [step |-> "idle", left |-> {}, tenant |-> Null, at |-> 1,
           statement |-> 1]]
    /\ results = [j \in Jobs |-> [t \in Tenants |-> [m \in Migrations |-> "none"]]]
    /\ faults = 0

Fault == faults < MaxFaults /\ faults' = faults + 1

-----------------------------------------------------------------------------
Goto(j, step) == jobs' = [jobs EXCEPT ![j].step = step]

MigrateAllTenants(j) ==
    /\ jobs[j].step = "idle"
    /\ jobs' = [jobs EXCEPT ![j] = [@ EXCEPT !.step = "tenant", !.left = Tenants]]
    /\ UNCHANGED <<objects, records, results, faults>>

\* Connect to the next tenant and make sure that it has _prisma_migrations.
ConnectTenant(j, t) ==
    /\ jobs[j].step = "tenant"
    /\ t \in jobs[j].left
    /\ jobs' = [jobs EXCEPT ![j] =
          [@ EXCEPT !.step = IF Migrations = {} THEN "tenant" ELSE "check",
                    !.left = jobs[j].left \ {t}, !.tenant = t, !.at = 1]]
    /\ UNCHANGED <<objects, records, results, faults>>

Answer(j) ==
    /\ jobs[j].step = "tenant"
    /\ jobs[j].left = {}
    /\ Goto(j, "done")
    /\ UNCHANGED <<objects, records, results, faults>>

\* Mutant: a migration that fails ends the work on its tenant, and on the others.
NextMigrationStops(j, report) ==
    /\ results' = [results EXCEPT ![j][jobs[j].tenant][jobs[j].at] = report]
    /\ jobs' = [jobs EXCEPT ![j] =
          [@ EXCEPT !.step = IF report = "failed" THEN "done"
                             ELSE IF jobs[j].at = Len(Scripts) THEN "tenant" ELSE "check",
                    !.at = jobs[j].at + 1, !.statement = 1]]

\* Push a result and go on with the next migration, or after the last one
\* disconnect and go on with the next tenant.
NextMigration(j, report) ==
    /\ results' = [results EXCEPT ![j][jobs[j].tenant][jobs[j].at] = report]
    /\ jobs' = [jobs EXCEPT ![j] =
          [@ EXCEPT !.step = IF jobs[j].at = Len(Scripts) THEN "tenant" ELSE "check",
                    !.at = jobs[j].at + 1, !.statement = 1]]

\* A record of any kind counts as applied.
CheckMigration(j) ==
    /\ jobs[j].step = "check"
    /\ IF records[jobs[j].tenant][jobs[j].at] > 0
       THEN NextMigration(j, "already_applied")
       ELSE Goto(j, "run") /\ UNCHANGED results
    /\ UNCHANGED <<objects, records, faults>>

Current(j) == Scripts[jobs[j].at][jobs[j].statement]

\* Mutant: IF NOT EXISTS.
AcceptedIfNotExists(t, s) == Requires[s] \subseteq objects[t]

Accepted(t, s) == s \notin objects[t] /\ Requires[s] \subseteq objects[t]

\* Mutant: a statement that is refused is passed over.
RunStatementLeniently(j) ==
    LET t == jobs[j].tenant  s == Current(j) IN
    /\ jobs[j].step = "run"
    /\ objects' = IF Accepted(t, s) THEN [objects EXCEPT ![t] = @ \cup {s}] ELSE objects
    /\ jobs' = [jobs EXCEPT ![j] =
          [@ EXCEPT !.step = IF jobs[j].statement = Len(Scripts[jobs[j].at])
                             THEN "record" ELSE "run",
                    !.statement = jobs[j].statement + 1]]
    /\ UNCHANGED <<records, results, faults>>

RunStatement(j) ==
    LET t == jobs[j].tenant  s == Current(j) IN
    /\ jobs[j].step = "run"
    /\ IF Accepted(t, s)
       THEN /\ objects' = [objects EXCEPT ![t] = @ \cup {s}]
            /\ jobs' = [jobs EXCEPT ![j] =
                  [@ EXCEPT !.step = IF jobs[j].statement = Len(Scripts[jobs[j].at])
                                     THEN "record" ELSE "run",
                            !.statement = jobs[j].statement + 1]]
            /\ UNCHANGED results
       ELSE NextMigration(j, "failed") /\ UNCHANGED objects
    /\ UNCHANGED <<records, faults>>

\* Mutant: the result is pushed without a status.
RecordMigrationSilently(j) ==
    /\ jobs[j].step = "record"
    /\ records' = [records EXCEPT ![jobs[j].tenant][jobs[j].at] = @ + 1]
    /\ NextMigration(j, Null)
    /\ UNCHANGED <<objects, faults>>

RecordMigration(j) ==
    /\ jobs[j].step = "record"
    /\ records' = [records EXCEPT ![jobs[j].tenant][jobs[j].at] = @ + 1]
    /\ NextMigration(j, "applied")
    /\ UNCHANGED <<objects, faults>>

\* A statement or the insert of the record fails for another reason: the error
\* is reported, and what was executed stays.
CallFails(j) ==
    /\ jobs[j].step \in {"run", "record"}
    /\ NextMigration(j, "failed")
    /\ Fault
    /\ UNCHANGED <<objects, records>>

\* A call outside the try clause fails: connecting, looking for the record,
\* disconnecting.  The request fails, and the tenants that are left stay as
\* they are.
JobFails(j) ==
    /\ jobs[j].step \in {"tenant", "check"}
    /\ Goto(j, "aborted")
    /\ Fault
    /\ UNCHANGED <<objects, records, results>>

ApiCrash ==
    /\ jobs' = [j \in Jobs |->
          IF jobs[j].step \in {"idle", "done"} THEN jobs[j]
          ELSE [jobs[j] EXCEPT !.step = "aborted"]]
    /\ Fault
    /\ UNCHANGED <<objects, records, results>>

JobContinues(j) ==
    \/ \E t \in Tenants : ConnectTenant(j, t)
    \/ CheckMigration(j) \/ RunStatement(j) \/ RecordMigration(j) \/ Answer(j)

Next ==
    \/ \E j \in Jobs : MigrateAllTenants(j) \/ JobContinues(j) \/ CallFails(j) \/ JobFails(j)
    \/ ApiCrash

Spec == Init /\ [][Next]_vars

-----------------------------------------------------------------------------
(* What holds.                                                              *)

\* Job j has executed statements of migration m in the database of t and is not
\* done with it.
Underway(j, t, m) ==
    /\ jobs[j].tenant = t
    /\ jobs[j].at = m
    /\ \/ jobs[j].step = "run" /\ jobs[j].statement > 1
       \/ jobs[j].step = "record"

\* Two requests that both found no record never both get past the first
\* statement of a migration, although nothing locks the database: the statement
\* that comes second is refused.
SingleRunner ==
    \A i, j \in Jobs, t \in Tenants, m \in Migrations :
        Underway(i, t, m) /\ Underway(j, t, m) => i = j

\* 'applied' is said of a migration by one request at most, when every statement
\* has been executed, and leaves one record, with no unique index on its name.
AppliedOnce ==
    \A j \in Jobs, t \in Tenants, m \in Migrations :
        results[j][t][m] = "applied" =>
            /\ Statements(m) \subseteq objects[t]
            /\ records[t][m] = 1
            /\ \A i \in Jobs \ {j} : results[i][t][m] # "applied"

\* Once the request that began a migration has given it up, no request gets past
\* its first statement again or inserts its record: calling migrate-tenants again
\* does not repair a tenant.
GivenUp(t, m) ==
    /\ Statements(m) \cap objects[t] # {}
    /\ \A j \in Jobs : ~Underway(j, t, m)

NothingResumes ==
    [][\A t \in Tenants, m \in Migrations :
        GivenUp(t, m) => GivenUp(t, m)' /\ records'[t][m] = records[t][m]]_vars

\* When a request has ended, no other is running and nothing failed of itself,
\* every tenant has all that the scripts create, except where provisioning left
\* a migration incomplete under a record and where a migration that was pending
\* refers to the users table, which this service does not skip.
Running(j) == jobs[j].step \notin {"idle", "done", "aborted"}

Spoiled(t) ==
    \E m \in Migrations :
        IF records[t][m] > 0
        THEN ~(Local(m) \subseteq objects[t])
        ELSE \E s \in Statements(m) : Foreign(s)

UpgradeComplete ==
    (faults = 0 /\ (\A j \in Jobs : ~Running(j)) /\ \E j \in Jobs : jobs[j].step = "done")
        => \A t \in Tenants :
              \/ \A m \in Migrations :
                    records[t][m] = 1 /\ Local(m) \subseteq objects[t]
              \/ Spoiled(t)

=============================================================================
