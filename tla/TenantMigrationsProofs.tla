----------------------- MODULE TenantMigrationsProofs -----------------------
(***************************************************************************)
(* Theorems about TenantMigrations, for any scripts, any tenants, any      *)
(* number of requests and any bound on failures.                           *)
(***************************************************************************)
EXTENDS TenantMigrations, TLAPS

-----------------------------------------------------------------------------
(* The inductive invariant.                                                 *)

\* A request that is at a migration is at a statement of it.
AtStatement(j) ==
    /\ jobs[j].step \in {"idle", "tenant", "check"} => jobs[j].statement = 1
    /\ jobs[j].step \in {"check", "run", "record"} =>
          jobs[j].tenant \in Tenants /\ jobs[j].at \in Migrations
    /\ jobs[j].step = "run" => jobs[j].statement \in 1 .. Len(Scripts[jobs[j].at])

\* What a request has executed of its migration is there: statements only add.
Executed(j) ==
    /\ jobs[j].step = "run" =>
          \A k \in 1 .. jobs[j].statement - 1 :
              Scripts[jobs[j].at][k] \in objects[jobs[j].tenant]
    /\ jobs[j].step = "record" =>
          Statements(jobs[j].at) \subseteq objects[jobs[j].tenant]

\* A request that is about to execute a migration found no record of it.  If there
\* is one now, another request has been here, and the first statement is refused.
FoundNoRecord(j) ==
    (jobs[j].step = "run" /\ records[jobs[j].tenant][jobs[j].at] > 0) =>
        Scripts[jobs[j].at][1] \in objects[jobs[j].tenant]

\* The record is inserted by the request at work, and by nobody before it.
UnrecordedUnderway ==
    \A j \in Jobs, t \in Tenants, m \in Migrations : Underway(j, t, m) => records[t][m] = 0

\* A migration is begun at its first statement, or, by provisioning, at the first
\* that does not refer to the users table.
BegunAtFirst ==
    \A t \in Tenants, m \in Migrations :
        Statements(m) \cap objects[t] # {} =>
            Scripts[m][1] \in objects[t] \/ Foreign(Scripts[m][1])

MigrationInv ==
    /\ TypeOK
    /\ \A j \in Jobs : AtStatement(j)
    /\ \A j \in Jobs : Executed(j)
    /\ \A j \in Jobs : FoundNoRecord(j)
    /\ UnrecordedUnderway
    /\ BegunAtFirst
    /\ SingleRunner
    /\ AppliedOnce

-----------------------------------------------------------------------------
(* Scripts and their statements.                                            *)

\* Every migration has a first statement, and its statements are of the schema.
LEMMA ScriptFacts ==
    /\ Migrations = 1 .. Len(Scripts)
    /\ Len(Scripts) \in Nat
    /\ \A m \in Migrations :
          /\ Scripts[m] \in Seq(Schema)
          /\ Len(Scripts[m]) \in Nat \ {0}
          /\ \A k \in 1 .. Len(Scripts[m]) : Scripts[m][k] \in Statements(m)
          /\ Statements(m) \subseteq Schema
          /\ \A s \in Statements(m) : \E k \in 1 .. Len(Scripts[m]) : s = Scripts[m][k]
  BY SMTT(30), ScriptAssumption DEF Migrations, Statements, Range, Schema

\* A database that provisioning leaves has a record of each migration up to some one,
\* and objects of those migrations only.
LEMMA ProvisionedShape ==
    ASSUME NEW db \in ProvisionedDatabases
    PROVE  \E last \in 0 .. Len(Scripts) :
              /\ db.records = [m \in Migrations |-> IF m <= last THEN 1 ELSE 0]
              /\ \A s \in db.objects : \E m \in Migrations : m <= last /\ s \in Local(m)
<1>1. CASE \E n \in 0 .. Len(Scripts) : db = Provisioned(n, FALSE, 0)
  <2>1. PICK n \in 0 .. Len(Scripts) : db = Provisioned(n, FALSE, 0)
    BY <1>1
  <2>2. /\ db.objects = UNION {Local(l) : l \in 1 .. n}
        /\ db.records = [m \in Migrations |-> IF m <= n THEN 1 ELSE 0]
    BY <2>1 DEF Provisioned
  <2>3. \A l \in 1 .. n : l \in Migrations /\ l <= n
    BY ScriptFacts
  <2>4. \A s \in db.objects : \E m \in Migrations : m <= n /\ s \in Local(m)
    BY <2>2, <2>3
  <2> QED
    BY <2>2, <2>4
<1>2. CASE \E n \in 0 .. Len(Scripts) - 1 :
             \E i \in 0 .. Len(Scripts[n + 1]) : db = Provisioned(n, TRUE, i)
  <2>1. PICK n \in 0 .. Len(Scripts) - 1 :
               \E i \in 0 .. Len(Scripts[n + 1]) : db = Provisioned(n, TRUE, i)
    BY <1>2
  <2>2. PICK i \in 0 .. Len(Scripts[n + 1]) : db = Provisioned(n, TRUE, i)
    BY <2>1
  <2>3. /\ db.objects = (UNION {Local(l) : l \in 1 .. n}) \cup
                        {s \in Local(n + 1) : \E k \in 1 .. i : s = Scripts[n + 1][k]}
        /\ db.records = [m \in Migrations |-> IF m <= n \/ m = n + 1 THEN 1 ELSE 0]
    BY <2>2 DEF Provisioned
  <2>4. PICK last \in 0 .. Len(Scripts) : last = n + 1
    BY ScriptFacts
  <2>5. \A m \in Migrations : (m <= n \/ m = n + 1) <=> m <= last
    BY <2>4, ScriptFacts
  <2>6. last \in Migrations /\ \A l \in 1 .. n : l \in Migrations /\ l <= last
    BY <2>4, ScriptFacts
  <2>7. \A s \in db.objects : \E m \in Migrations : m <= last /\ s \in Local(m)
    <3>1. SUFFICES ASSUME NEW s \in db.objects
                   PROVE  \E m \in Migrations : m <= last /\ s \in Local(m)
      OBVIOUS
    <3>2. CASE s \in Local(last)
      BY <2>4, <2>6, <3>2
    <3>3. CASE \E l \in 1 .. n : s \in Local(l)
      BY <2>6, <3>3
    <3> QED
      BY <2>3, <2>4, <3>1, <3>2, <3>3
  <2>8. db.records = [m \in Migrations |-> IF m <= last THEN 1 ELSE 0]
    BY <2>3, <2>5
  <2> QED
    BY <2>7, <2>8
<1> QED
  BY <1>1, <1>2 DEF ProvisionedDatabases

\* A database that provisioning leaves holds statements of the schema.
LEMMA ProvisionedType ==
    ASSUME NEW db \in ProvisionedDatabases
    PROVE  db.objects \in SUBSET Schema /\ db.records \in [Migrations -> Nat]
<1>1. PICK last \in 0 .. Len(Scripts) :
          /\ db.records = [m \in Migrations |-> IF m <= last THEN 1 ELSE 0]
          /\ \A s \in db.objects : \E m \in Migrations : m <= last /\ s \in Local(m)
  BY ProvisionedShape
<1>2. \A m \in Migrations : Local(m) \subseteq Schema
  BY ScriptFacts DEF Local
<1> QED
  BY <1>1, <1>2

\* Before the first request a database holds the first statement of every migration
\* that provisioning has begun, unless that statement was skipped.
LEMMA ProvisionedBegun ==
    ASSUME NEW db \in ProvisionedDatabases, NEW m \in Migrations,
           Statements(m) \cap db.objects # {}
    PROVE  Scripts[m][1] \in db.objects \/ Foreign(Scripts[m][1])
<1>1. \A l \in Migrations, s \in Statements(m) : s \in Statements(l) => l = m
  BY ScriptAssumption
<1>2. /\ Scripts[m][1] \in Statements(m)
      /\ ~Foreign(Scripts[m][1]) => Scripts[m][1] \in Local(m)
  BY ScriptFacts DEF Local
<1>3. CASE \E n \in 0 .. Len(Scripts) : db = Provisioned(n, FALSE, 0)
  <2>1. PICK n \in 0 .. Len(Scripts) : db = Provisioned(n, FALSE, 0)
    BY <1>3
  <2>2. db.objects = UNION {Local(l) : l \in 1 .. n}
    BY <2>1 DEF Provisioned
  <2>3. m \in 1 .. n
    BY <1>1, <2>2, ScriptFacts DEF Local
  <2> QED
    BY <1>2, <2>2, <2>3
<1>4. CASE \E n \in 0 .. Len(Scripts) - 1 :
             \E i \in 0 .. Len(Scripts[n + 1]) : db = Provisioned(n, TRUE, i)
  <2> PICK n \in 0 .. Len(Scripts) - 1 :
               \E i \in 0 .. Len(Scripts[n + 1]) : db = Provisioned(n, TRUE, i)
    BY <1>4
  <2>1. PICK i \in 0 .. Len(Scripts[n + 1]) : db = Provisioned(n, TRUE, i)
    OBVIOUS
  <2>2. db.objects = (UNION {Local(l) : l \in 1 .. n}) \cup
                     {s \in Local(n + 1) : \E k \in 1 .. i : s = Scripts[n + 1][k]}
    BY <2>1 DEF Provisioned
  <2>3. n + 1 \in Migrations /\ \A l \in 1 .. n : l \in Migrations
    BY ScriptFacts
  <2>4. CASE m \in 1 .. n
    BY <1>2, <2>2, <2>4
  <2>5. CASE m \notin 1 .. n
    <3>1. PICK s \in Statements(m) : s \in db.objects
      OBVIOUS
    <3>2. ~(\E l \in 1 .. n : s \in Local(l))
      BY <1>1, <2>3, <2>5 DEF Local
    <3>3. s \in Local(n + 1) /\ \E k \in 1 .. i : s = Scripts[n + 1][k]
      <4>1. s \notin UNION {Local(l) : l \in 1 .. n}
        BY <3>2
      <4> QED
        BY <2>2, <3>1, <4>1
    <3>4. m = n + 1 /\ 1 \in 1 .. i
      BY <1>1, <2>3, <3>3, ScriptFacts DEF Local
    <3> QED
      BY <1>2, <2>2, <3>4
  <2> QED
    BY <2>4, <2>5
<1> QED
  BY <1>3, <1>4 DEF ProvisionedDatabases

-----------------------------------------------------------------------------
(* The invariant.                                                           *)

\* It holds of the databases that provisioning leaves.
LEMMA InitInv == Init => MigrationInv
<1> SUFFICES ASSUME Init PROVE MigrationInv
  OBVIOUS
<1>1. PICK db \in [Tenants -> ProvisionedDatabases] :
          /\ objects = [t \in Tenants |-> db[t].objects]
          /\ records = [t \in Tenants |-> db[t].records]
  BY DEF Init
<1>2. TypeOK
  <2>1. \A t \in Tenants : /\ db[t].objects \in SUBSET Schema
                           /\ db[t].records \in [Migrations -> Nat]
    BY ProvisionedType
  <2>2. objects \in [Tenants -> SUBSET Schema] /\ records \in [Tenants -> [Migrations -> Nat]]
    BY <1>1, <2>1
  <2>3. jobs \in [Jobs -> Job]
    BY DEF Init, Job
  <2>4. results \in [Jobs -> [Tenants -> [Migrations -> Report]]]
    BY DEF Init, Report
  <2>5. faults \in 0 .. MaxFaults
    BY FaultAssumption DEF Init
  <2> QED
    BY <2>2, <2>3, <2>4, <2>5 DEF TypeOK
<1>3. \A j \in Jobs : jobs[j].step = "idle" /\ jobs[j].statement = 1
  BY DEF Init
<1>4. BegunAtFirst
  <2> SUFFICES ASSUME NEW t \in Tenants, NEW m \in Migrations,
                      Statements(m) \cap db[t].objects # {}
               PROVE  Scripts[m][1] \in db[t].objects \/ Foreign(Scripts[m][1])
    BY <1>1 DEF BegunAtFirst
  <2> QED
    BY ProvisionedBegun
<1>5. AppliedOnce
  BY DEF Init, AppliedOnce
<1> QED
  BY <1>2, <1>3, <1>4, <1>5 DEF MigrationInv, AtStatement, Executed, FoundNoRecord,
     UnrecordedUnderway, SingleRunner, Underway

\* Steps that change no database, say 'applied' of nothing and leave the requests
\* that move with no statement executed preserve the invariant.
LEMMA QuietStep ==
    ASSUME MigrationInv, UNCHANGED <<objects, records>>,
           jobs' \in [Jobs -> Job],
           results' \in [Jobs -> [Tenants -> [Migrations -> Report]]],
           faults' \in 0 .. MaxFaults,
           \A j \in Jobs, t \in Tenants, m \in Migrations :
               results'[j][t][m] = "applied" => results[j][t][m] = "applied",
           \A j \in Jobs : jobs'[j] = jobs[j] \/
               /\ AtStatement(j)'
               /\ jobs'[j].step # "record"
               /\ jobs'[j].step = "run" =>
                     jobs'[j].statement = 1 /\ records[jobs'[j].tenant][jobs'[j].at] = 0
    PROVE  MigrationInv'
<1>1. TypeOK'
  BY DEF MigrationInv, TypeOK
<1>2. \A j \in Jobs : AtStatement(j)'
  BY DEF MigrationInv, AtStatement
<1>3. \A j \in Jobs : Executed(j)'
  <2> TAKE j \in Jobs
  <2>1. CASE jobs'[j] = jobs[j]
    BY <2>1 DEF MigrationInv, Executed, Statements
  <2>2. CASE jobs'[j] # jobs[j]
    BY <2>2 DEF Executed
  <2> QED
    BY <2>1, <2>2
<1>4. \A j \in Jobs : FoundNoRecord(j)'
  BY DEF MigrationInv, FoundNoRecord
<1>5. \A j \in Jobs, t \in Tenants, m \in Migrations : Underway(j, t, m)' => Underway(j, t, m)
  BY DEF Underway
<1>6. UnrecordedUnderway' /\ SingleRunner'
  BY <1>5 DEF MigrationInv, UnrecordedUnderway, SingleRunner
<1>7. BegunAtFirst'
  BY DEF MigrationInv, BegunAtFirst
<1>8. AppliedOnce'
  <2> SUFFICES ASSUME NEW j \in Jobs, NEW t \in Tenants, NEW m \in Migrations,
                      results'[j][t][m] = "applied"
               PROVE  /\ Statements(m) \subseteq objects[t]
                      /\ records[t][m] = 1
                      /\ \A i \in Jobs \ {j} : results'[i][t][m] # "applied"
    BY Zenon DEF AppliedOnce
  <2>1. results[j][t][m] = "applied"
    OBVIOUS
  <2> QED
    BY <2>1 DEF MigrationInv, AppliedOnce
<1> QED
  BY <1>1, <1>2, <1>3, <1>4, <1>6, <1>7, <1>8 DEF MigrationInv

\* Going on with the next migration leaves a request that has executed nothing of it.
LEMMA NextMigrationStep ==
    ASSUME MigrationInv, NEW j \in Jobs, NEW report \in Report,
           jobs[j].step \in {"check", "run", "record"}, NextMigration(j, report)
    PROVE  /\ jobs' \in [Jobs -> Job]
           /\ results' \in [Jobs -> [Tenants -> [Migrations -> Report]]]
           /\ \A i \in Jobs \ {j} : jobs'[i] = jobs[i]
           /\ AtStatement(j)'
           /\ jobs'[j].step \notin {"run", "record"}
           /\ results'[j][jobs[j].tenant][jobs[j].at] = report
           /\ \A i \in Jobs, t \in Tenants, m \in Migrations :
                 ~(i = j /\ t = jobs[j].tenant /\ m = jobs[j].at) =>
                     results'[i][t][m] = results[i][t][m]
<1>1. /\ jobs \in [Jobs -> Job]
      /\ results \in [Jobs -> [Tenants -> [Migrations -> Report]]]
      /\ jobs[j].tenant \in Tenants /\ jobs[j].at \in Migrations
  BY DEF MigrationInv, TypeOK, AtStatement
<1>2. jobs[j].at \in 1 .. Len(Scripts) /\ Len(Scripts) \in Nat
  BY <1>1, ScriptFacts
<1>3. jobs' \in [Jobs -> Job]
  <2> DEFINE next ==
        [jobs[j] EXCEPT !.step = IF jobs[j].at = Len(Scripts) THEN "tenant" ELSE "check",
                        !.at = jobs[j].at + 1, !.statement = 1]
  <2>1. next \in Job
    <3>1. jobs[j] \in Job /\ jobs[j].at + 1 \in Nat \ {0} /\ 1 \in Nat \ {0}
      BY <1>1, <1>2
    <3> QED
      BY <3>1 DEF Job
  <2>2. jobs' = [jobs EXCEPT ![j] = next]
    BY DEF NextMigration
  <2> HIDE DEF next
  <2> QED
    BY <1>1, <2>1, <2>2
<1>4. results' \in [Jobs -> [Tenants -> [Migrations -> Report]]]
  BY <1>1 DEF NextMigration
<1>5. /\ jobs'[j].step = IF jobs[j].at = Len(Scripts) THEN "tenant" ELSE "check"
      /\ jobs'[j].at = jobs[j].at + 1
      /\ jobs'[j].statement = 1
      /\ jobs'[j].tenant = jobs[j].tenant
  BY <1>1 DEF NextMigration, Job
<1>6. AtStatement(j)'
  BY <1>1, <1>2, <1>5, ScriptFacts DEF AtStatement
<1> QED
  BY <1>1, <1>3, <1>4, <1>5, <1>6 DEF NextMigration

\* Executing a statement of a migration: what makes the request the only one at it.
LEMMA AcceptedStep ==
    ASSUME MigrationInv, NEW j \in Jobs, RunStatement(j),
           Accepted(jobs[j].tenant, Current(j))
    PROVE  MigrationInv'
<1> DEFINE t == jobs[j].tenant
           m == jobs[j].at
           n == jobs[j].statement
<1>1. /\ jobs \in [Jobs -> Job]
      /\ objects \in [Tenants -> SUBSET Schema]
      /\ jobs[j].step = "run"
      /\ t \in Tenants /\ m \in Migrations /\ n \in 1 .. Len(Scripts[m])
  BY DEF MigrationInv, TypeOK, AtStatement, RunStatement
<1>2. /\ UNCHANGED <<records, results, faults>>
      /\ objects' = [objects EXCEPT ![t] = @ \cup {Scripts[m][n]}]
      /\ jobs' = [jobs EXCEPT ![j] =
            [@ EXCEPT !.step = IF n = Len(Scripts[m]) THEN "record" ELSE "run",
                      !.statement = n + 1]]
  BY DEF RunStatement, Current
<1>3. /\ \A i \in Jobs \ {j} : jobs'[i] = jobs[i]
      /\ jobs'[j].step = IF n = Len(Scripts[m]) THEN "record" ELSE "run"
      /\ jobs'[j].statement = n + 1
      /\ jobs'[j].tenant = t
      /\ jobs'[j].at = m
      /\ jobs' \in [Jobs -> Job]
  <2> DEFINE next ==
        [jobs[j] EXCEPT !.step = IF n = Len(Scripts[m]) THEN "record" ELSE "run",
                        !.statement = n + 1]
  <2>1. /\ next \in Job
        /\ next.step = IF n = Len(Scripts[m]) THEN "record" ELSE "run"
        /\ next.statement = n + 1
        /\ next.tenant = t
        /\ next.at = m
    <3>1. jobs[j] \in Job /\ n + 1 \in Nat \ {0}
      BY <1>1, ScriptFacts
    <3> QED
      BY <3>1 DEF Job
  <2>2. jobs' = [jobs EXCEPT ![j] = next]
    BY <1>2
  <2> HIDE DEF next
  <2> QED
    BY <1>1, <2>1, <2>2
<1>4. /\ Scripts[m][n] \in Statements(m)
      /\ Scripts[m][n] \in Schema
      /\ Scripts[m][n] \notin objects[t]
  BY <1>1, ScriptFacts DEF Accepted, Current
<1>5. /\ \A u \in Tenants : objects[u] \subseteq objects'[u]
      /\ objects'[t] = objects[t] \cup {Scripts[m][n]}
      /\ \A u \in Tenants \ {t} : objects'[u] = objects[u]
      /\ objects' \in [Tenants -> SUBSET Schema]
  BY <1>1, <1>2, <1>4
<1>6. TypeOK'
  BY <1>2, <1>3, <1>5 DEF MigrationInv, TypeOK
<1>7. AtStatement(j)' /\ \A i \in Jobs \ {j} : AtStatement(i)'
  BY <1>1, <1>3, ScriptFacts DEF MigrationInv, AtStatement
<1>8. \A k \in 1 .. n : Scripts[m][k] \in objects'[t]
  BY <1>1, <1>5 DEF MigrationInv, Executed
<1>9. \A i \in Jobs : Executed(i)'
  <2>1. ASSUME NEW i \in Jobs \ {j} PROVE Executed(i)'
    BY <1>3, <1>5 DEF MigrationInv, Executed, AtStatement
  <2>2. n = Len(Scripts[m]) => Statements(m) \subseteq objects'[t]
    BY <1>1, <1>8, ScriptFacts
  <2>3. Executed(j)'
    BY <1>1, <1>3, <1>8, <2>2 DEF Executed, Statements
  <2> QED
    BY <2>1, <2>3
<1>10. \A i \in Jobs : FoundNoRecord(i)'
  <2>1. ASSUME NEW i \in Jobs \ {j} PROVE FoundNoRecord(i)'
    BY <1>2, <1>3, <1>5 DEF MigrationInv, FoundNoRecord, AtStatement
  <2>2. FoundNoRecord(j)'
    BY <1>1, <1>3, <1>8 DEF FoundNoRecord
  <2> QED
    BY <2>1, <2>2
<1>11. ~Underway(j, t, m) =>
          /\ Scripts[m][1] \notin objects[t]
          /\ records[t][m] = 0
          /\ \A i \in Jobs : ~Underway(i, t, m)
  <2> SUFFICES ASSUME ~Underway(j, t, m)
               PROVE  /\ Scripts[m][1] \notin objects[t]
                      /\ records[t][m] = 0
                      /\ \A i \in Jobs : ~Underway(i, t, m)
    OBVIOUS
  <2>1. n = 1
    BY <1>1 DEF Underway
  <2>2. Scripts[m][1] \notin objects[t]
    BY <1>4, <2>1
  <2>3. records[t][m] = 0
    <3>1. records[t][m] \in Nat
      BY <1>1 DEF MigrationInv, TypeOK
    <3> QED
      BY <1>1, <2>2, <3>1 DEF MigrationInv, FoundNoRecord
  <2>4. ASSUME NEW i \in Jobs, Underway(i, t, m) PROVE FALSE
    <3>1. CASE jobs[i].step = "run"
      <4>1. jobs[i].statement > 1 /\ jobs[i].statement \in Nat
        BY <2>4, <3>1, <1>1 DEF Underway, Job
      <4> QED
        BY <2>2, <2>4, <3>1, <4>1 DEF MigrationInv, Executed, Underway
    <3>2. CASE jobs[i].step = "record"
      BY <1>1, <2>2, <2>4, <3>2, ScriptFacts DEF MigrationInv, Executed, Underway
    <3> QED
      BY <2>4, <3>1, <3>2 DEF Underway
  <2> QED
    BY <2>2, <2>3, <2>4
<1>12. /\ \A i \in Jobs, u \in Tenants, l \in Migrations :
             Underway(i, u, l)' => Underway(i, u, l) \/ (i = j /\ u = t /\ l = m)
  BY <1>3 DEF Underway
<1>13. UnrecordedUnderway'
  BY <1>2, <1>11, <1>12 DEF MigrationInv, UnrecordedUnderway
<1>14. SingleRunner'
  BY <1>11, <1>12 DEF MigrationInv, SingleRunner
<1>15. BegunAtFirst'
  <2> SUFFICES ASSUME NEW u \in Tenants, NEW l \in Migrations,
                      Statements(l) \cap objects'[u] # {}
               PROVE  Scripts[l][1] \in objects'[u] \/ Foreign(Scripts[l][1])
    BY Zenon DEF BegunAtFirst
  <2>1. CASE u = t /\ l = m
    BY <1>1, <1>8, <2>1
  <2>2. CASE ~(u = t /\ l = m)
    <3>1. l # m => Statements(l) \cap Statements(m) = {}
      BY <1>1, ScriptAssumption
    <3>2. Statements(l) \cap objects[u] # {}
      BY <1>4, <1>5, <2>2, <3>1
    <3> QED
      BY <1>5, <3>2 DEF MigrationInv, BegunAtFirst
  <2> QED
    BY <2>1, <2>2
<1>16. AppliedOnce'
  <2> SUFFICES ASSUME NEW i \in Jobs, NEW u \in Tenants, NEW l \in Migrations,
                      results[i][u][l] = "applied"
               PROVE  /\ Statements(l) \subseteq objects'[u]
                      /\ records[u][l] = 1
                      /\ \A k \in Jobs \ {i} : results[k][u][l] # "applied"
    BY <1>2 DEF AppliedOnce
  <2> QED
    BY <1>5 DEF MigrationInv, AppliedOnce
<1> QED
  BY <1>6, <1>7, <1>9, <1>10, <1>13, <1>14, <1>15, <1>16 DEF MigrationInv

\* Inserting the record: only the request at work on a migration does, and only once.
LEMMA RecordStep ==
    ASSUME MigrationInv, NEW j \in Jobs, RecordMigration(j)
    PROVE  MigrationInv'
<1> DEFINE t == jobs[j].tenant
           m == jobs[j].at
<1>1. /\ jobs \in [Jobs -> Job]
      /\ records \in [Tenants -> [Migrations -> Nat]]
      /\ jobs[j].step = "record"
      /\ t \in Tenants /\ m \in Migrations
      /\ UNCHANGED <<objects, faults>>
      /\ records' = [records EXCEPT ![t][m] = @ + 1]
      /\ NextMigration(j, "applied")
  BY DEF MigrationInv, TypeOK, AtStatement, RecordMigration
<1>2. /\ jobs' \in [Jobs -> Job]
      /\ results' \in [Jobs -> [Tenants -> [Migrations -> Report]]]
      /\ \A i \in Jobs \ {j} : jobs'[i] = jobs[i]
      /\ AtStatement(j)'
      /\ jobs'[j].step \notin {"run", "record"}
      /\ results'[j][t][m] = "applied"
      /\ \A i \in Jobs, u \in Tenants, l \in Migrations :
            ~(i = j /\ u = t /\ l = m) => results'[i][u][l] = results[i][u][l]
  BY <1>1, NextMigrationStep DEF Report
<1>3. Underway(j, t, m) /\ Statements(m) \subseteq objects[t]
  BY <1>1 DEF Underway, MigrationInv, Executed
<1>4. records[t][m] = 0
  BY <1>1, <1>3 DEF MigrationInv, UnrecordedUnderway
<1>5. /\ records'[t][m] = 1
      /\ \A u \in Tenants, l \in Migrations :
            ~(u = t /\ l = m) => records'[u][l] = records[u][l]
      /\ records' \in [Tenants -> [Migrations -> Nat]]
  BY <1>1, <1>4
<1>6. TypeOK'
  BY <1>1, <1>2, <1>5 DEF MigrationInv, TypeOK
<1>7. \A i \in Jobs : AtStatement(i)' /\ Executed(i)'
  <2> TAKE i \in Jobs
  <2>1. CASE i = j
    BY <1>2, <2>1 DEF Executed
  <2>2. CASE i # j
    BY <1>1, <1>2, <2>2 DEF MigrationInv, AtStatement, Executed, Statements
  <2> QED
    BY <2>1, <2>2
<1>8. \A i \in Jobs : FoundNoRecord(i)'
  <2>1. ASSUME NEW i \in Jobs \ {j}, jobs[i].step = "run",
               records'[jobs[i].tenant][jobs[i].at] > 0
        PROVE  Scripts[jobs[i].at][1] \in objects[jobs[i].tenant]
    <3>1. jobs[i].tenant \in Tenants /\ jobs[i].at \in Migrations
      BY <2>1 DEF MigrationInv, AtStatement
    <3>2. CASE jobs[i].tenant = t /\ jobs[i].at = m
      BY <1>1, <1>3, <3>2, ScriptFacts
    <3>3. CASE ~(jobs[i].tenant = t /\ jobs[i].at = m)
      BY <1>5, <2>1, <3>1, <3>3 DEF MigrationInv, FoundNoRecord
    <3> QED
      BY <3>2, <3>3
  <2> QED
    BY <1>1, <1>2, <2>1 DEF FoundNoRecord
<1>9. \A i \in Jobs, u \in Tenants, l \in Migrations :
          Underway(i, u, l)' => i # j /\ Underway(i, u, l)
  BY <1>2 DEF Underway
<1>10. SingleRunner'
  BY <1>9 DEF MigrationInv, SingleRunner
<1>11. UnrecordedUnderway'
  <2> SUFFICES ASSUME NEW i \in Jobs, NEW u \in Tenants, NEW l \in Migrations,
                      Underway(i, u, l)'
               PROVE  records'[u][l] = 0
    BY DEF UnrecordedUnderway
  <2>1. i # j /\ Underway(i, u, l)
    BY <1>9
  <2>2. ~(u = t /\ l = m)
    BY <1>1, <1>3, <2>1 DEF MigrationInv, SingleRunner
  <2> QED
    BY <1>5, <2>1, <2>2 DEF MigrationInv, UnrecordedUnderway
<1>12. BegunAtFirst'
  BY <1>1 DEF MigrationInv, BegunAtFirst
<1>13. AppliedOnce'
  <2>1. \A i \in Jobs : results[i][t][m] # "applied"
    BY <1>1, <1>4 DEF MigrationInv, AppliedOnce
  <2> SUFFICES ASSUME NEW i \in Jobs, NEW u \in Tenants, NEW l \in Migrations,
                      results'[i][u][l] = "applied"
               PROVE  /\ Statements(l) \subseteq objects[u]
                      /\ records'[u][l] = 1
                      /\ \A k \in Jobs \ {i} : results'[k][u][l] # "applied"
    BY <1>1, ZenonT(30) DEF AppliedOnce
  <2>2. CASE u = t /\ l = m
    <3>1. \A k \in Jobs \ {j} : results'[k][t][m] # "applied"
      BY <1>1, <1>2, <2>1
    <3>2. i = j
      BY <2>2, <3>1
    <3> QED
      BY <1>3, <1>5, <2>2, <3>1, <3>2
  <2>3. CASE ~(u = t /\ l = m)
    <3>1. \A k \in Jobs : results'[k][u][l] = results[k][u][l]
      BY <1>2, <2>3
    <3>2. records'[u][l] = records[u][l]
      BY <1>5, <2>3
    <3> QED
      BY <3>1, <3>2 DEF MigrationInv, AppliedOnce
  <2> QED
    BY <2>2, <2>3
<1> QED
  BY <1>6, <1>7, <1>8, <1>10, <1>11, <1>12, <1>13 DEF MigrationInv

\* Moving a request to a step at which it holds no statement leaves it well placed.
LEMMA GotoStep ==
    ASSUME MigrationInv, NEW j \in Jobs, NEW step \in {"run", "done", "aborted"},
           Goto(j, step)
    PROVE  /\ jobs' \in [Jobs -> Job]
           /\ jobs'[j] = [jobs[j] EXCEPT !.step = step]
           /\ \A i \in Jobs \ {j} : jobs'[i] = jobs[i]
<1>1. jobs \in [Jobs -> Job] /\ jobs[j] \in Job
  BY DEF MigrationInv, TypeOK
<1>2. [jobs[j] EXCEPT !.step = step] \in Job
  BY <1>1 DEF Job
<1> QED
  BY <1>1, <1>2 DEF Goto

\* Every step of migrateAllTenants preserves the invariant.
LEMMA StepInv == MigrationInv /\ [Next]_vars => MigrationInv'
<1> SUFFICES ASSUME MigrationInv, [Next]_vars PROVE MigrationInv'
  OBVIOUS
<1>1. /\ jobs \in [Jobs -> Job]
      /\ results \in [Jobs -> [Tenants -> [Migrations -> Report]]]
      /\ faults \in 0 .. MaxFaults
      /\ \A i \in Jobs : jobs[i] \in Job /\ AtStatement(i)
  BY DEF MigrationInv, TypeOK
<1>2. Fault => faults' \in 0 .. MaxFaults
  BY <1>1, FaultAssumption DEF Fault
<1>3. ASSUME NEW j \in Jobs, MigrateAllTenants(j) PROVE MigrationInv'
  <2>1. [jobs[j] EXCEPT !.step = "tenant", !.left = Tenants] \in Job
    BY <1>1 DEF Job
  <2>2. /\ jobs'[j] = [jobs[j] EXCEPT !.step = "tenant", !.left = Tenants]
        /\ \A i \in Jobs \ {j} : jobs'[i] = jobs[i]
        /\ jobs' \in [Jobs -> Job]
        /\ UNCHANGED <<objects, records, results, faults>>
    BY <1>1, <1>3, <2>1 DEF MigrateAllTenants
  <2>3. jobs'[j].step = "tenant" /\ jobs'[j].statement = 1
    BY <1>1, <1>3, <2>2 DEF Job, MigrateAllTenants, AtStatement
  <2>4. AtStatement(j)'
    BY <2>3 DEF AtStatement
  <2> QED
    BY <1>1, <2>2, <2>3, <2>4, QuietStep
<1>4. ASSUME NEW j \in Jobs, NEW t \in Tenants, ConnectTenant(j, t) PROVE MigrationInv'
  <2> DEFINE next ==
        [jobs[j] EXCEPT !.step = IF Migrations = {} THEN "tenant" ELSE "check",
                        !.left = jobs[j].left \ {t}, !.tenant = t, !.at = 1]
  <2>1. /\ next \in Job
        /\ next.step = IF Migrations = {} THEN "tenant" ELSE "check"
        /\ next.tenant = t /\ next.at = 1 /\ next.statement = jobs[j].statement
    <3>1. jobs[j] \in Job /\ jobs[j].left \ {t} \in SUBSET Tenants /\ 1 \in Nat \ {0}
      BY <1>1 DEF Job
    <3> QED
      BY <3>1 DEF Job
  <2>2. /\ jobs' = [jobs EXCEPT ![j] = next]
        /\ jobs[j].step = "tenant"
        /\ UNCHANGED <<objects, records, results, faults>>
    BY <1>4 DEF ConnectTenant
  <2> HIDE DEF next
  <2>3. /\ jobs'[j] = next
        /\ \A i \in Jobs \ {j} : jobs'[i] = jobs[i]
        /\ jobs' \in [Jobs -> Job]
    BY <1>1, <2>1, <2>2
  <2>4. next.statement = 1
    BY <1>1, <2>1, <2>2 DEF AtStatement
  <2>5. Migrations # {} => 1 \in Migrations
    BY ScriptFacts
  <2>6. AtStatement(j)'
    BY <2>1, <2>3, <2>4, <2>5 DEF AtStatement
  <2>7. jobs'[j].step \notin {"run", "record"}
    BY <2>1, <2>3
  <2> QED
    BY <1>1, <2>2, <2>3, <2>6, <2>7, QuietStep
<1>5. ASSUME NEW j \in Jobs, Answer(j) PROVE MigrationInv'
  <2>1. /\ jobs'[j] = [jobs[j] EXCEPT !.step = "done"]
        /\ \A i \in Jobs \ {j} : jobs'[i] = jobs[i]
        /\ jobs' \in [Jobs -> Job]
        /\ UNCHANGED <<objects, records, results, faults>>
    BY <1>5, GotoStep DEF Answer
  <2>2. jobs'[j].step = "done"
    BY <1>1, <2>1 DEF Job
  <2>3. AtStatement(j)'
    BY <2>2 DEF AtStatement
  <2> QED
    BY <1>1, <2>1, <2>2, <2>3, QuietStep
<1>6. ASSUME NEW j \in Jobs, CheckMigration(j) PROVE MigrationInv'
  <2>1. /\ jobs[j].step = "check"
        /\ UNCHANGED <<objects, records, faults>>
    BY <1>6 DEF CheckMigration
  <2>2. CASE records[jobs[j].tenant][jobs[j].at] > 0
    <3>1. NextMigration(j, "already_applied")
      BY <1>6, <2>2 DEF CheckMigration
    <3>2. "already_applied" \in Report
      BY DEF Report
    <3>3. /\ jobs' \in [Jobs -> Job]
          /\ results' \in [Jobs -> [Tenants -> [Migrations -> Report]]]
          /\ \A i \in Jobs \ {j} : jobs'[i] = jobs[i]
          /\ AtStatement(j)' /\ jobs'[j].step \notin {"run", "record"}
          /\ \A i \in Jobs, u \in Tenants, m \in Migrations :
                results'[i][u][m] = "applied" => results[i][u][m] = "applied"
      BY SMTT(30), <2>1, <3>1, <3>2, NextMigrationStep
    <3> QED
      BY <1>1, <2>1, <3>3, QuietStep
  <2>3. CASE ~(records[jobs[j].tenant][jobs[j].at] > 0)
    <3>1. Goto(j, "run") /\ UNCHANGED results
      BY <1>6, <2>3 DEF CheckMigration
    <3>2. /\ jobs'[j] = [jobs[j] EXCEPT !.step = "run"]
          /\ \A i \in Jobs \ {j} : jobs'[i] = jobs[i]
          /\ jobs' \in [Jobs -> Job]
      BY <3>1, GotoStep
    <3>3. /\ jobs'[j].step = "run" /\ jobs'[j].statement = 1
          /\ jobs'[j].tenant = jobs[j].tenant /\ jobs'[j].at = jobs[j].at
      BY <1>1, <2>1, <3>2 DEF Job, AtStatement
    <3>4. jobs[j].tenant \in Tenants /\ jobs[j].at \in Migrations
      BY <1>1, <2>1 DEF AtStatement
    <3>5. records[jobs[j].tenant][jobs[j].at] = 0
      BY <2>3, <3>4 DEF MigrationInv, TypeOK
    <3>6. AtStatement(j)'
      BY <3>3, <3>4, ScriptFacts DEF AtStatement
    <3> QED
      BY <1>1, <2>1, <3>1, <3>2, <3>3, <3>5, <3>6, QuietStep
  <2> QED
    BY <2>2, <2>3
<1>7. ASSUME NEW j \in Jobs, jobs[j].step \in {"run", "record"}, NextMigration(j, "failed"),
             UNCHANGED <<objects, records>>, faults' \in 0 .. MaxFaults
      PROVE  MigrationInv'
  <2>1. "failed" \in Report
    BY DEF Report
  <2>2. /\ jobs' \in [Jobs -> Job]
        /\ results' \in [Jobs -> [Tenants -> [Migrations -> Report]]]
        /\ \A i \in Jobs \ {j} : jobs'[i] = jobs[i]
        /\ AtStatement(j)' /\ jobs'[j].step \notin {"run", "record"}
        /\ results'[j][jobs[j].tenant][jobs[j].at] = "failed"
        /\ \A i \in Jobs, u \in Tenants, m \in Migrations :
              ~(i = j /\ u = jobs[j].tenant /\ m = jobs[j].at) =>
                  results'[i][u][m] = results[i][u][m]
    <3>1. jobs[j].step \in {"check", "run", "record"}
      BY <1>7
    <3> QED
      BY <1>7, <2>1, <3>1, NextMigrationStep
  <2>3. \A i \in Jobs, u \in Tenants, m \in Migrations :
            results'[i][u][m] = "applied" => results[i][u][m] = "applied"
    BY <2>2
  <2> QED
    BY <1>7, <2>2, <2>3, QuietStep
<1>8. ASSUME NEW j \in Jobs, RunStatement(j) PROVE MigrationInv'
  <2>1. CASE Accepted(jobs[j].tenant, Current(j))
    BY <1>8, <2>1, AcceptedStep
  <2>2. CASE ~Accepted(jobs[j].tenant, Current(j))
    BY <1>1, <1>7, <1>8, <2>2 DEF RunStatement
  <2> QED
    BY <2>1, <2>2
<1>9. ASSUME NEW j \in Jobs, RecordMigration(j) PROVE MigrationInv'
  BY <1>9, RecordStep
<1>10. ASSUME NEW j \in Jobs, CallFails(j) PROVE MigrationInv'
  BY <1>2, <1>7, <1>10 DEF CallFails
<1>11. ASSUME NEW j \in Jobs, JobFails(j) PROVE MigrationInv'
  <2>1. /\ jobs'[j] = [jobs[j] EXCEPT !.step = "aborted"]
        /\ \A i \in Jobs \ {j} : jobs'[i] = jobs[i]
        /\ jobs' \in [Jobs -> Job]
        /\ UNCHANGED <<objects, records, results>>
        /\ faults' \in 0 .. MaxFaults
    BY <1>2, <1>11, GotoStep DEF JobFails
  <2>2. jobs'[j].step = "aborted"
    BY <1>1, <2>1 DEF Job
  <2>3. AtStatement(j)'
    BY <2>2 DEF AtStatement
  <2> QED
    BY <1>1, <2>1, <2>2, <2>3, QuietStep
<1>12. ASSUME ApiCrash PROVE MigrationInv'
  <2>1. \A i \in Jobs : [jobs[i] EXCEPT !.step = "aborted"] \in Job
    BY <1>1 DEF Job
  <2>2. /\ jobs' \in [Jobs -> Job]
        /\ UNCHANGED <<objects, records, results>>
        /\ faults' \in 0 .. MaxFaults
    BY <1>1, <1>2, <1>12, <2>1 DEF ApiCrash
  <2>3. \A i \in Jobs : jobs'[i] = jobs[i] \/ jobs'[i].step = "aborted"
    BY <1>1, <1>12 DEF ApiCrash, Job
  <2>4. \A i \in Jobs : jobs'[i].step = "aborted" => AtStatement(i)'
    BY DEF AtStatement
  <2> QED
    BY <1>1, <2>2, <2>3, <2>4, QuietStep
<1>13. ASSUME UNCHANGED vars PROVE MigrationInv'
  BY <1>1, <1>13, QuietStep DEF vars
<1> QED
  BY <1>3, <1>4, <1>5, <1>6, <1>8, <1>9, <1>10, <1>11, <1>12, <1>13 DEF Next, JobContinues

\* MigrationInv holds throughout.
THEOREM MigrationsInvariant == Spec => []MigrationInv
<1>1. Init => MigrationInv
  BY InitInv
<1>2. MigrationInv /\ [Next]_vars => MigrationInv'
  BY StepInv
<1> QED
  BY <1>1, <1>2, PTL DEF Spec

\* The variables keep their types: migrateAllTenants never leaves the statements
\* of the scripts, the tenants or the migrations (TypeOK).
THEOREM MigrationsTyped == Spec => []TypeOK
<1>1. MigrationInv => TypeOK
  BY DEF MigrationInv
<1> QED
  BY <1>1, MigrationsInvariant, PTL

\* However many requests run at once, and although the code takes no lock, at most
\* one of them is past the first statement of a migration of a tenant (SingleRunner).
THEOREM MigrationsSingleRunner == Spec => []SingleRunner
<1>1. MigrationInv => SingleRunner
  BY DEF MigrationInv
<1> QED
  BY <1>1, MigrationsInvariant, PTL

\* A migration reported 'applied' was executed completely, has exactly one record,
\* and is reported so by one request only (AppliedOnce).
THEOREM MigrationsAppliedOnce == Spec => []AppliedOnce
<1>1. MigrationInv => AppliedOnce
  BY DEF MigrationInv
<1> QED
  BY <1>1, MigrationsInvariant, PTL

-----------------------------------------------------------------------------
(* What no step does.                                                       *)

\* Once a migration is begun, by a request or by provisioning, no request that is
\* not at work on it gets past its first statement: it is there already, or it
\* refers to the users table and is refused for that.
LEMMA NeverBegunAgain ==
    ASSUME MigrationInv, NEW t \in Tenants, NEW m \in Migrations, GivenUp(t, m)
    PROVE  ~Accepted(t, Scripts[m][1])
<1>1. Scripts[m][1] \in objects[t] \/ Foreign(Scripts[m][1])
  BY DEF GivenUp, MigrationInv, BegunAtFirst
<1>2. objects[t] \subseteq Schema
  BY DEF MigrationInv, TypeOK
<1> QED
  BY <1>1, <1>2 DEF Accepted, Foreign

\* A migration given up stays given up, and is never recorded: no number of calls
\* of migrate-tenants repairs it.
LEMMA GivenUpStep ==
    ASSUME MigrationInv, Next, NEW t \in Tenants, NEW m \in Migrations, GivenUp(t, m)
    PROVE  GivenUp(t, m)' /\ records'[t][m] = records[t][m]
<1>1. /\ jobs \in [Jobs -> Job]
      /\ objects \in [Tenants -> SUBSET Schema]
      /\ records \in [Tenants -> [Migrations -> Nat]]
      /\ \A i \in Jobs : jobs[i] \in Job /\ AtStatement(i)
  BY DEF MigrationInv, TypeOK
<1>2. /\ Statements(m) \cap objects[t] # {}
      /\ \A i \in Jobs : ~Underway(i, t, m)
  BY DEF GivenUp
<1> DEFINE Kept == /\ objects[t] \subseteq objects'[t]
                   /\ records'[t][m] = records[t][m]
                   /\ \A i \in Jobs : ~Underway(i, t, m)'
<1> SUFFICES Kept
  BY <1>2 DEF GivenUp, Statements
\* A step that touches no database and leaves its request with nothing executed.
<1>3. ASSUME UNCHANGED <<objects, records>>,
             \A i \in Jobs : \/ jobs'[i] = jobs[i]
                             \/ jobs'[i].step \notin {"run", "record"}
                             \/ jobs'[i].step = "run" /\ jobs'[i].statement = 1
      PROVE  Kept
  BY <1>2, <1>3 DEF Underway
<1>4. ASSUME NEW j \in Jobs, MigrateAllTenants(j) PROVE Kept
  <2>1. /\ jobs'[j].step = "tenant"
        /\ \A i \in Jobs \ {j} : jobs'[i] = jobs[i]
    BY <1>1, <1>4 DEF MigrateAllTenants, Job
  <2> QED
    BY <1>3, <1>4, <2>1 DEF MigrateAllTenants
<1>5. ASSUME NEW j \in Jobs, NEW u \in Tenants, ConnectTenant(j, u) PROVE Kept
  <2>1. /\ jobs'[j].step \in {"tenant", "check"}
        /\ \A i \in Jobs \ {j} : jobs'[i] = jobs[i]
    BY <1>1, <1>5 DEF ConnectTenant, Job
  <2> QED
    BY <1>3, <1>5, <2>1 DEF ConnectTenant
<1>6. ASSUME NEW j \in Jobs, NEW step \in {"done", "aborted"}, Goto(j, step),
             UNCHANGED <<objects, records>>
      PROVE  Kept
  <2>1. /\ jobs'[j].step = step
        /\ \A i \in Jobs \ {j} : jobs'[i] = jobs[i]
    BY <1>1, <1>6 DEF Goto, Job
  <2> QED
    BY <1>3, <1>6, <2>1
<1>7. ASSUME NEW j \in Jobs, NEW report \in Report,
             jobs[j].step \in {"check", "run", "record"}, NextMigration(j, report),
             UNCHANGED <<objects, records>>
      PROVE  Kept
  <2>1. /\ jobs'[j].step \notin {"run", "record"}
        /\ \A i \in Jobs \ {j} : jobs'[i] = jobs[i]
    BY <1>7, NextMigrationStep
  <2> QED
    BY <1>3, <1>7, <2>1
<1>8. ASSUME NEW j \in Jobs, CheckMigration(j) PROVE Kept
  <2>1. CASE NextMigration(j, "already_applied")
    BY <1>7, <1>8, <2>1 DEF CheckMigration, Report
  <2>2. CASE Goto(j, "run")
    <3>1. /\ jobs'[j].step = "run" /\ jobs'[j].statement = 1
          /\ \A i \in Jobs \ {j} : jobs'[i] = jobs[i]
      BY <1>1, <1>8, <2>2 DEF CheckMigration, Goto, Job, AtStatement
    <3> QED
      BY <1>3, <1>8, <3>1 DEF CheckMigration
  <2> QED
    BY <1>8, <2>1, <2>2 DEF CheckMigration
<1>9. ASSUME NEW j \in Jobs, RunStatement(j) PROVE Kept
  <2>1. CASE ~Accepted(jobs[j].tenant, Current(j))
    BY <1>7, <1>9, <2>1 DEF RunStatement, Report
  <2>2. CASE Accepted(jobs[j].tenant, Current(j))
    <3>1. /\ jobs[j].step = "run"
          /\ objects' = [objects EXCEPT ![jobs[j].tenant] = @ \cup {Current(j)}]
          /\ records' = records
      BY <1>9, <2>2 DEF RunStatement
    <3>2. objects[t] \subseteq objects'[t]
      BY <1>1, <3>1
    <3>3. /\ \A i \in Jobs \ {j} : jobs'[i] = jobs[i]
          /\ jobs'[j].tenant = jobs[j].tenant /\ jobs'[j].at = jobs[j].at
      <4> DEFINE next ==
            [jobs[j] EXCEPT
                !.step = IF jobs[j].statement = Len(Scripts[jobs[j].at]) THEN "record" ELSE "run",
                !.statement = jobs[j].statement + 1]
      <4>1. next.tenant = jobs[j].tenant /\ next.at = jobs[j].at
        BY <1>1 DEF Job
      <4>2. jobs' = [jobs EXCEPT ![j] = next]
        BY <1>9, <2>2 DEF RunStatement
      <4> HIDE DEF next
      <4> QED
        BY <1>1, <4>1, <4>2
    <3>4. ~Underway(j, t, m)'
      <4> SUFFICES ASSUME jobs[j].tenant = t, jobs[j].at = m PROVE FALSE
        BY <3>3 DEF Underway
      <4>1. jobs[j].statement = 1
        BY <1>1, <1>2, <3>1 DEF Underway, AtStatement
      <4> QED
        BY <2>2, <4>1, NeverBegunAgain DEF Current
    <3> QED
      BY <1>2, <3>1, <3>2, <3>3, <3>4 DEF Underway
  <2> QED
    BY <2>1, <2>2
<1>10. ASSUME NEW j \in Jobs, RecordMigration(j) PROVE Kept
  <2>1. /\ jobs[j].step = "record"
        /\ records' = [records EXCEPT ![jobs[j].tenant][jobs[j].at] = @ + 1]
        /\ NextMigration(j, "applied")
        /\ objects' = objects
    BY <1>10 DEF RecordMigration
  <2>2. ~(jobs[j].tenant = t /\ jobs[j].at = m)
    BY <1>2, <2>1 DEF Underway
  <2>3. records'[t][m] = records[t][m]
    BY <1>1, <2>1, <2>2
  <2>4. /\ jobs'[j].step \notin {"run", "record"}
        /\ \A i \in Jobs \ {j} : jobs'[i] = jobs[i]
    BY <2>1, NextMigrationStep DEF Report
  <2> QED
    BY <1>2, <2>1, <2>3, <2>4 DEF Underway
<1>11. ASSUME NEW j \in Jobs, CallFails(j) PROVE Kept
  BY <1>7, <1>11 DEF CallFails, Report
<1>12. ASSUME ApiCrash PROVE Kept
  <2>1. \A i \in Jobs : jobs'[i] = jobs[i] \/ jobs'[i].step = "aborted"
    BY <1>1, <1>12 DEF ApiCrash, Job
  <2> QED
    BY <1>3, <1>12, <2>1 DEF ApiCrash
<1> HIDE DEF Kept
<1> QED
  BY <1>4, <1>5, <1>6, <1>8, <1>9, <1>10, <1>11, <1>12
  DEF Next, JobContinues, Answer, JobFails

\* Once the request that began a migration has given it up, no step of any request
\* executes more than its first statement or inserts its record (NothingResumes).
THEOREM MigrationsNothingResumes == Spec => NothingResumes
<1>1. MigrationInv /\ [Next]_vars =>
        [\A t \in Tenants, m \in Migrations :
            GivenUp(t, m) => GivenUp(t, m)' /\ records'[t][m] = records[t][m]]_vars
  BY GivenUpStep
<1> QED
  BY <1>1, MigrationsInvariant, PTL DEF Spec, NothingResumes

-----------------------------------------------------------------------------
(* An upgrade without failures is complete.                                 *)

\* Job j is through with migration m of tenant t.
Passed(j, t, m) ==
    /\ jobs[j].step \in {"tenant", "check", "run", "record", "done"}
    /\ t \notin jobs[j].left
    /\ (jobs[j].step \in {"check", "run", "record"} /\ jobs[j].tenant = t) => jobs[j].at > m

\* Job j is at migration m of tenant t or will come to it.
Pending(j, t, m) ==
    /\ jobs[j].step \in {"check", "run", "record"}
    /\ jobs[j].tenant = t
    /\ jobs[j].at <= m

\* A tenant that was connected to is not connected to again, and all are before
\* the request is answered.
TenantsLeft(j) ==
    /\ jobs[j].step \in {"check", "run", "record"} => jobs[j].tenant \notin jobs[j].left
    /\ jobs[j].step = "done" => jobs[j].left = {}

\* Past its first statement, a request finds what that one needed, and nothing of
\* what is still to be added.
WayClear(j) ==
    (jobs[j].step = "run" /\ jobs[j].statement > 1) =>
        /\ Requires[Scripts[jobs[j].at][1]] \subseteq objects[jobs[j].tenant]
        /\ \A k \in jobs[j].statement .. Len(Scripts[jobs[j].at]) :
              Scripts[jobs[j].at][k] \notin objects[jobs[j].tenant]

\* A migration without a record that was begun is being worked on, and one that some
\* request has passed will be reached by another.
Carried(t, m) ==
    /\ Statements(m) \cap objects[t] # {} => \E j \in Jobs : Underway(j, t, m)
    /\ (\E j \in Jobs : Passed(j, t, m)) => \E i \in Jobs : Pending(i, t, m)

UpgradeInv ==
    /\ \A t \in Tenants : \A s \in objects[t] : ~Foreign(s)
    /\ \A t \in Tenants, m \in Migrations : records[t][m] <= 1
    /\ \A j \in Jobs : TenantsLeft(j)
    /\ \A j \in Jobs : WayClear(j)
    /\ faults = 0 =>
          \A t \in Tenants, m \in Migrations :
              (~Spoiled(t) /\ records[t][m] = 0) => Carried(t, m)

\* Databases as provisioning leaves them: a migration without a record was not begun.
LEMMA ProvisionedUpgrade ==
    ASSUME NEW db \in ProvisionedDatabases
    PROVE  /\ \A s \in db.objects : ~Foreign(s)
           /\ \A m \in Migrations : db.records[m] <= 1
           /\ \A m \in Migrations : db.records[m] = 0 => Statements(m) \cap db.objects = {}
<1>1. \A l, m \in Migrations : Statements(l) \cap Statements(m) # {} => l = m
  BY ScriptAssumption
<1>2. PICK last \in 0 .. Len(Scripts) :
          /\ db.records = [m \in Migrations |-> IF m <= last THEN 1 ELSE 0]
          /\ \A s \in db.objects : \E m \in Migrations : m <= last /\ s \in Local(m)
  BY ProvisionedShape
<1>3. \A m \in Migrations : db.records[m] = 0 => Statements(m) \cap db.objects = {}
  <2>1. SUFFICES ASSUME NEW m \in Migrations, NEW s \in Statements(m), s \in db.objects
                 PROVE  db.records[m] = 1
    BY <1>2
  <2>2. PICK l \in Migrations : s \in Local(l) /\ l <= last
    BY <1>2, <2>1
  <2>3. l = m
    BY <1>1, <2>1, <2>2 DEF Local
  <2> QED
    BY <1>2, <2>2, <2>3
<1> QED
  BY <1>2, <1>3 DEF Local

\* Before the first request there is nothing to carry on.
LEMMA InitUpgrade == Init => UpgradeInv
<1> SUFFICES ASSUME Init PROVE UpgradeInv
  OBVIOUS
<1>1. PICK db \in [Tenants -> ProvisionedDatabases] :
          /\ objects = [t \in Tenants |-> db[t].objects]
          /\ records = [t \in Tenants |-> db[t].records]
  BY DEF Init
<1>2. \A t \in Tenants :
          /\ \A s \in objects[t] : ~Foreign(s)
          /\ \A m \in Migrations : records[t][m] <= 1
          /\ \A m \in Migrations : records[t][m] = 0 => Statements(m) \cap objects[t] = {}
  BY <1>1, ProvisionedUpgrade
<1>3. \A j \in Jobs : jobs[j].step = "idle"
  BY DEF Init
<1>4. \A j \in Jobs : TenantsLeft(j) /\ WayClear(j)
  BY <1>3 DEF TenantsLeft, WayClear
<1>5. \A t \in Tenants, m \in Migrations : records[t][m] = 0 => Carried(t, m)
  BY <1>2, <1>3 DEF Carried, Passed
<1> QED
  BY <1>2, <1>4, <1>5 DEF UpgradeInv

\* Where a request stands after a migration.
LEMMA NextMigrationPlace ==
    ASSUME MigrationInv, NEW j \in Jobs, NEW report \in Report,
           jobs[j].step \in {"check", "run", "record"}, NextMigration(j, report)
    PROVE  /\ jobs'[j].step = IF jobs[j].at = Len(Scripts) THEN "tenant" ELSE "check"
           /\ jobs'[j].at = jobs[j].at + 1
           /\ jobs'[j].statement = 1
           /\ jobs'[j].tenant = jobs[j].tenant
           /\ jobs'[j].left = jobs[j].left
           /\ jobs[j].tenant \in Tenants /\ jobs[j].at \in 1 .. Len(Scripts)
<1>1. jobs \in [Jobs -> Job] /\ jobs[j].tenant \in Tenants /\ jobs[j].at \in Migrations
  BY DEF MigrationInv, TypeOK, AtStatement
<1>2. jobs[j].at \in 1 .. Len(Scripts)
  BY <1>1, ScriptFacts
<1> QED
  BY <1>1, <1>2 DEF NextMigration, Job

\* Going on with the next migration, a request passes the one it was at and no other.
LEMMA PassingOn ==
    ASSUME MigrationInv, NEW j \in Jobs, NEW report \in Report,
           jobs[j].step \in {"check", "run", "record"}, NextMigration(j, report),
           NEW t \in Tenants, NEW m \in Migrations,
           ~(t = jobs[j].tenant /\ m = jobs[j].at)
    PROVE  /\ Passed(j, t, m)' => Passed(j, t, m)
           /\ Pending(j, t, m) => Pending(j, t, m)'
<1>1. /\ jobs'[j].step = IF jobs[j].at = Len(Scripts) THEN "tenant" ELSE "check"
      /\ jobs'[j].at = jobs[j].at + 1
      /\ jobs'[j].tenant = jobs[j].tenant
      /\ jobs'[j].left = jobs[j].left
      /\ jobs[j].at \in 1 .. Len(Scripts)
  BY NextMigrationPlace
<1>2. m \in 1 .. Len(Scripts) /\ Len(Scripts) \in Nat
  BY ScriptFacts
<1>3. ASSUME Passed(j, t, m)' PROVE Passed(j, t, m)
  BY <1>1, <1>2, <1>3 DEF Passed
<1>4. ASSUME Pending(j, t, m) PROVE Pending(j, t, m)'
  BY <1>1, <1>2, <1>4 DEF Pending
<1> QED
  BY <1>3, <1>4

\* One request moves, without touching a database: nothing is lost when another is
\* on its way to whatever it passes.
LEMMA MovedJob ==
    ASSUME MigrationInv, UpgradeInv, NEW j \in Jobs,
           UNCHANGED <<objects, records>>,
           \A i \in Jobs \ {j} : jobs'[i] = jobs[i],
           TenantsLeft(j)',
           ~(jobs'[j].step = "run" /\ jobs'[j].statement > 1),
           faults' = 0 => faults = 0,
           faults' = 0 =>
               \A t \in Tenants, m \in Migrations :
                   (~Spoiled(t) /\ records[t][m] = 0) =>
                       /\ ~Underway(j, t, m)
                       /\ Passed(j, t, m)' =>
                             Passed(j, t, m) \/ \E i \in Jobs \ {j} : Pending(i, t, m)
                       /\ Pending(j, t, m) =>
                             Pending(j, t, m)' \/ \E i \in Jobs \ {j} : Pending(i, t, m)
    PROVE  UpgradeInv'
<1>1. \A i \in Jobs : TenantsLeft(i)'
  BY DEF UpgradeInv, TenantsLeft
<1>2. \A i \in Jobs : WayClear(i)'
  <2>1. ASSUME NEW i \in Jobs \ {j} PROVE WayClear(i)'
    BY <2>1 DEF UpgradeInv, WayClear
  <2>2. WayClear(j)'
    BY DEF WayClear
  <2> QED
    BY <2>1, <2>2
<1>3. ASSUME faults' = 0, NEW t \in Tenants, NEW m \in Migrations, ~Spoiled(t)', records'[t][m] = 0
      PROVE  Carried(t, m)'
  <2>1. ~Spoiled(t) /\ records[t][m] = 0 /\ faults = 0
    BY <1>3 DEF Spoiled
  <2>2. Carried(t, m)
    BY <2>1 DEF UpgradeInv
  <2>3. \A i \in Jobs \ {j} : /\ Underway(i, t, m)' = Underway(i, t, m)
                             /\ Passed(i, t, m)' = Passed(i, t, m)
                             /\ Pending(i, t, m)' = Pending(i, t, m)
    BY DEF Underway, Passed, Pending
  <2>4. ASSUME Statements(m) \cap objects'[t] # {} PROVE \E i \in Jobs : Underway(i, t, m)'
    <3>1. PICK i \in Jobs : Underway(i, t, m)
      BY <2>2, <2>4 DEF Carried
    <3>2. i # j
      BY <1>3, <2>1, <3>1
    <3> QED
      BY <2>3, <3>1, <3>2
  <2>5. ASSUME NEW i \in Jobs, Passed(i, t, m)' PROVE \E k \in Jobs : Pending(k, t, m)'
    <3>1. (\E l \in Jobs : Passed(l, t, m)) \/ \E k \in Jobs \ {j} : Pending(k, t, m)
      BY <1>3, <2>1, <2>3, <2>5
    <3>2. PICK k \in Jobs : Pending(k, t, m)
      BY <2>2, <3>1 DEF Carried
    <3>3. CASE k # j
      BY <2>3, <3>2, <3>3
    <3>4. CASE k = j
      BY <1>3, <2>1, <2>3, <3>2, <3>4
    <3> QED
      BY <3>3, <3>4
  <2> QED
    BY <2>4, <2>5 DEF Carried, Statements
<1> QED
  BY <1>1, <1>2, <1>3 DEF UpgradeInv

\* Nothing in the way of a request that has begun a migration makes it fail.
LEMMA NextAccepted ==
    ASSUME MigrationInv, UpgradeInv, NEW j \in Jobs,
           jobs[j].step = "run", jobs[j].statement > 1, ~Spoiled(jobs[j].tenant)
    PROVE  Accepted(jobs[j].tenant, Current(j))
<1>1. PICK t, m, n : t = jobs[j].tenant /\ m = jobs[j].at /\ n = jobs[j].statement
  OBVIOUS
<1>2. t \in Tenants /\ m \in Migrations /\ n \in 1 .. Len(Scripts[m]) /\ n > 1
  BY <1>1 DEF MigrationInv, AtStatement
<1>3. records[t][m] = 0
  BY <1>1, <1>2 DEF MigrationInv, UnrecordedUnderway, Underway
<1>4. Local(m) = Statements(m)
  BY <1>1, <1>2, <1>3 DEF Spoiled, Local
<1>5. /\ Requires[Scripts[m][1]] \subseteq objects[t]
      /\ Scripts[m][n] \notin objects[t]
  BY <1>1, <1>2, ScriptFacts DEF UpgradeInv, WayClear
<1>6. \A k \in 1 .. n - 1 : Scripts[m][k] \in objects[t]
  BY <1>1 DEF MigrationInv, Executed
<1>7. Requires[Scripts[m][n]] \subseteq objects[t]
  <2>1. n \in DOMAIN Scripts[m]
    BY <1>2, ScriptFacts
  <2> QED
    BY <1>2, <1>4, <1>5, <1>6, <2>1, OrderAssumption
<1> QED
  BY <1>1, <1>5, <1>7 DEF Accepted, Current

\* A request whose first statement is refused leaves the migration to another.
LEMMA RefusedIsCarried ==
    ASSUME MigrationInv, UpgradeInv, faults = 0, NEW j \in Jobs,
           jobs[j].step = "run", jobs[j].statement = 1,
           ~Accepted(jobs[j].tenant, Current(j)),
           ~Spoiled(jobs[j].tenant), records[jobs[j].tenant][jobs[j].at] = 0
    PROVE  \E i \in Jobs \ {j} : Pending(i, jobs[j].tenant, jobs[j].at)
<1>1. PICK t, m : t = jobs[j].tenant /\ m = jobs[j].at
  OBVIOUS
<1>2. t \in Tenants /\ m \in Migrations /\ m \in Nat
  BY <1>1, ScriptFacts DEF MigrationInv, AtStatement
<1>3. Scripts[m][1] \in Statements(m) /\ 1 \in DOMAIN Scripts[m]
  BY <1>2, ScriptFacts
<1>4. CASE Scripts[m][1] \in objects[t]
  <2>1. PICK i \in Jobs : Underway(i, t, m)
    BY <1>1, <1>2, <1>3, <1>4 DEF UpgradeInv, Carried
  <2>2. i # j /\ Pending(i, t, m)
    BY <1>2, <2>1 DEF Underway, Pending
  <2> QED
    BY <1>1, <2>2
<1>5. CASE ~(Requires[Scripts[m][1]] \subseteq objects[t])
  <2>1. PICK r \in Requires[Scripts[m][1]] : r \notin objects[t]
    BY <1>5
  <2>2. Local(m) = Statements(m)
    BY <1>1, <1>2 DEF Spoiled, Local
  <2>3. PICK n \in 1 .. m - 1 : r \in Local(n)
    BY <1>2, <1>3, <2>1, <2>2, OrderAssumption
  <2>4. n \in Migrations /\ n < m
    BY <1>2, <2>3, ScriptFacts
  <2>5. records[t][n] = 0
    <3>1. records[t][n] \in Nat
      BY <1>2, <2>4 DEF MigrationInv, TypeOK
    <3>2. ~(records[t][n] > 0)
      BY <1>1, <2>1, <2>3, <2>4 DEF Spoiled
    <3> QED
      BY <3>1, <3>2
  <2>6. Passed(j, t, n)
    BY <1>1, <2>4 DEF UpgradeInv, TenantsLeft, Passed
  <2>7. PICK i \in Jobs : Pending(i, t, n)
    BY <1>1, <1>2, <2>4, <2>5, <2>6 DEF UpgradeInv, Carried
  <2>8. jobs[i].at \in Nat /\ jobs[i].at <= n
    BY <2>7 DEF Pending, MigrationInv, TypeOK, Job
  <2>9. i # j /\ Pending(i, t, m)
    BY <1>1, <1>2, <2>3, <2>4, <2>7, <2>8 DEF Pending
  <2> QED
    BY <1>1, <2>9
<1> QED
  BY <1>1, <1>4, <1>5 DEF Accepted, Current

\* A statement that is executed clears the way for the next one.
LEMMA AcceptedUpgrade ==
    ASSUME MigrationInv, UpgradeInv, NEW j \in Jobs, RunStatement(j),
           Accepted(jobs[j].tenant, Current(j))
    PROVE  UpgradeInv'
<1>1. PICK t, m, n, s :
          t = jobs[j].tenant /\ m = jobs[j].at /\ n = jobs[j].statement /\ s = Scripts[m][n]
  OBVIOUS
<1>2. /\ jobs \in [Jobs -> Job]
      /\ objects \in [Tenants -> SUBSET Schema]
      /\ jobs[j].step = "run"
      /\ t \in Tenants /\ m \in Migrations /\ n \in 1 .. Len(Scripts[m]) /\ n \in Nat
  BY <1>1, ScriptFacts DEF MigrationInv, TypeOK, AtStatement, RunStatement
<1>3. PICK next : next = [jobs[j] EXCEPT !.step = IF n = Len(Scripts[m]) THEN "record" ELSE "run",
                                        !.statement = n + 1]
  OBVIOUS
<1>4. /\ UNCHANGED <<records, faults>>
      /\ objects' = [objects EXCEPT ![t] = objects[t] \cup {s}]
      /\ jobs' = [jobs EXCEPT ![j] = next]
  BY <1>1, <1>3 DEF RunStatement, Current
<1>5. /\ next.step \in {"run", "record"} /\ next.statement = n + 1
      /\ next.tenant = t /\ next.at = m /\ next.left = jobs[j].left
  BY <1>1, <1>2, <1>3 DEF Job
<1>6. jobs'[j] = next /\ \A i \in Jobs \ {j} : jobs'[i] = jobs[i]
  BY <1>2, <1>4
<1>7. /\ s \in Statements(m) /\ s \notin objects[t]
      /\ Requires[s] \subseteq objects[t]
      /\ \A l \in Migrations \ {m} : s \notin Statements(l)
  BY <1>1, <1>2, ScriptFacts, ScriptAssumption DEF Accepted, Current
<1>8. /\ objects'[t] = objects[t] \cup {s}
      /\ \A u \in Tenants \ {t} : objects'[u] = objects[u]
  BY <1>2, <1>4
<1>9. \A u \in Tenants : \A x \in objects'[u] : ~Foreign(x)
  <2>1. ~Foreign(s)
    BY <1>2, <1>7 DEF Foreign
  <2> QED
    BY <1>2, <1>8, <2>1 DEF UpgradeInv
<1>10. \A i \in Jobs : TenantsLeft(i)'
  BY <1>1, <1>2, <1>5, <1>6 DEF UpgradeInv, TenantsLeft
\* While nobody was past the first statement, nothing of the migration was there.
<1>11. n = 1 => Statements(m) \cap objects[t] = {}
  <2>1. n = 1 => ~Foreign(s)
    BY <1>2, <1>7 DEF Foreign
  <2> QED
    BY <1>1, <1>2, <1>7, <2>1 DEF MigrationInv, BegunAtFirst
<1>12. n > 1 => Underway(j, t, m)
  BY <1>1, <1>2 DEF Underway
<1>13. WayClear(j)'
  <2>1. Requires[Scripts[m][1]] \subseteq objects[t]
    <3>1. CASE n = 1
      BY <1>1, <1>7, <3>1
    <3>2. CASE n > 1
      BY <1>1, <1>2, <3>2 DEF UpgradeInv, WayClear
    <3> QED
      BY <1>2, <3>1, <3>2
  <2>2. ASSUME NEW k \in n + 1 .. Len(Scripts[m]) PROVE Scripts[m][k] \notin objects'[t]
    <3>1. k \in 1 .. Len(Scripts[m]) /\ k # n /\ k \in n .. Len(Scripts[m])
      BY <1>2, ScriptFacts
    <3>2. Scripts[m][k] # s
      <4>1. n \in DOMAIN Scripts[m] /\ k \in DOMAIN Scripts[m]
        BY <1>2, <3>1, ScriptFacts
      <4> QED
        BY <1>1, <1>2, <3>1, <4>1, ScriptAssumption DEF IsInjective
    <3>3. CASE n = 1
      BY <1>2, <1>8, <1>11, <3>1, <3>2, <3>3, ScriptFacts
    <3>4. CASE n > 1
      BY <1>1, <1>2, <1>8, <3>1, <3>2, <3>4 DEF UpgradeInv, WayClear
    <3> QED
      BY <1>2, <3>3, <3>4
  <2> QED
    BY <1>5, <1>6, <1>8, <2>1, <2>2 DEF WayClear
<1>14. ASSUME NEW i \in Jobs \ {j} PROVE WayClear(i)'
  <2>1. SUFFICES ASSUME jobs[i].step = "run", jobs[i].statement > 1
                 PROVE  /\ Requires[Scripts[jobs[i].at][1]] \subseteq objects'[jobs[i].tenant]
                        /\ \A k \in jobs[i].statement .. Len(Scripts[jobs[i].at]) :
                              Scripts[jobs[i].at][k] \notin objects'[jobs[i].tenant]
    BY <1>6, <1>14 DEF WayClear
  <2>2. PICK u, l, k : u = jobs[i].tenant /\ l = jobs[i].at /\ k = jobs[i].statement
    OBVIOUS
  <2>3. u \in Tenants /\ l \in Migrations /\ k \in 1 .. Len(Scripts[l]) /\ k > 1
    BY <2>1, <2>2 DEF MigrationInv, AtStatement
  <2>4. /\ Requires[Scripts[l][1]] \subseteq objects[u]
        /\ \A h \in k .. Len(Scripts[l]) : Scripts[l][h] \notin objects[u]
    BY <2>1, <2>2 DEF UpgradeInv, WayClear
  <2>5. ~(u = t /\ l = m)
    <3>1. SUFFICES ASSUME u = t, l = m PROVE FALSE
      OBVIOUS
    <3>2. Underway(i, t, m)
      BY <2>1, <2>2, <3>1 DEF Underway
    <3>3. CASE n = 1
      <4>1. 1 \in 1 .. k - 1
        BY <2>3, ScriptFacts
      <4>2. Scripts[m][1] \in objects[t]
        BY <2>1, <2>2, <3>1, <4>1 DEF MigrationInv, Executed
      <4> QED
        BY <1>1, <1>7, <3>3, <4>2
    <3>4. CASE n > 1
      BY <1>2, <1>12, <1>14, <3>2, <3>4 DEF MigrationInv, SingleRunner
    <3> QED
      BY <1>2, <3>3, <3>4
  <2>6. \A h \in k .. Len(Scripts[l]) : Scripts[l][h] \in Statements(l)
    BY <2>3, ScriptFacts
  <2>7. \A h \in k .. Len(Scripts[l]) : Scripts[l][h] \notin objects'[u]
    BY <1>7, <1>8, <2>3, <2>4, <2>5, <2>6
  <2>8. Requires[Scripts[l][1]] \subseteq objects'[u]
    BY <1>8, <2>3, <2>4
  <2> QED
    BY <2>2, <2>7, <2>8
<1>15. ASSUME faults' = 0, NEW u \in Tenants, NEW l \in Migrations, ~Spoiled(u)', records'[u][l] = 0
       PROVE  Carried(u, l)'
  <2>1. ~Spoiled(u)
    <3>1. SUFFICES ASSUME NEW k \in Migrations, records[u][k] > 0, ~(Local(k) \subseteq objects[u])
                   PROVE  FALSE
      BY <1>4, <1>15 DEF Spoiled
    <3>2. Local(k) \subseteq objects'[u]
      BY <1>4, <1>15, <3>1 DEF Spoiled
    <3>3. u = t /\ k = m
      BY <1>7, <1>8, <3>1, <3>2 DEF Local
    <3>4. Scripts[m][1] \in objects[t]
      BY <1>1, <1>2, <3>1, <3>3 DEF MigrationInv, FoundNoRecord
    <3>5. n > 1
      BY <1>1, <1>2, <1>7, <3>4
    <3> QED
      BY <1>2, <1>12, <3>1, <3>3, <3>5 DEF MigrationInv, UnrecordedUnderway
  <2>2. Carried(u, l)
    BY <1>4, <1>15, <2>1 DEF UpgradeInv
  <2>3. \A i \in Jobs : Passed(i, u, l)' = Passed(i, u, l) /\ Pending(i, u, l)' = Pending(i, u, l)
    <3>1. ASSUME NEW i \in Jobs \ {j}
          PROVE  Passed(i, u, l)' = Passed(i, u, l) /\ Pending(i, u, l)' = Pending(i, u, l)
      BY <1>6, <3>1 DEF Passed, Pending
    <3>2. Passed(j, u, l)' = Passed(j, u, l) /\ Pending(j, u, l)' = Pending(j, u, l)
      BY <1>1, <1>2, <1>5, <1>6 DEF Passed, Pending
    <3> QED
      BY <3>1, <3>2
  <2>4. ASSUME Statements(l) \cap objects'[u] # {} PROVE \E i \in Jobs : Underway(i, u, l)'
    <3>1. CASE u = t /\ l = m
      BY <1>2, <1>5, <1>6, <3>1 DEF Underway
    <3>2. CASE ~(u = t /\ l = m)
      <4>1. Statements(l) \cap objects[u] # {}
        BY <1>7, <1>8, <2>4, <3>2
      <4>2. PICK i \in Jobs : Underway(i, u, l)
        BY <2>2, <4>1 DEF Carried
      <4>3. i # j
        BY <1>1, <3>2, <4>2 DEF Underway
      <4> QED
        BY <1>6, <4>2, <4>3 DEF Underway
    <3> QED
      BY <3>1, <3>2
  <2> QED
    BY <2>2, <2>3, <2>4 DEF Carried, Statements
<1> QED
  BY <1>4, <1>9, <1>10, <1>13, <1>14, <1>15 DEF UpgradeInv

\* The record is inserted once, of a migration that is complete.
LEMMA RecordUpgrade ==
    ASSUME MigrationInv, UpgradeInv, NEW j \in Jobs, RecordMigration(j)
    PROVE  UpgradeInv'
<1>1. PICK t, m : t = jobs[j].tenant /\ m = jobs[j].at
  OBVIOUS
<1>2. /\ jobs[j].step = "record" /\ NextMigration(j, "applied") /\ UNCHANGED <<objects, faults>>
      /\ records' = [records EXCEPT ![t][m] = @ + 1]
      /\ "applied" \in Report
  BY <1>1 DEF RecordMigration, Report
<1>3. t \in Tenants /\ m \in Migrations /\ records \in [Tenants -> [Migrations -> Nat]]
  BY <1>1, <1>2 DEF MigrationInv, TypeOK, AtStatement
<1>4. records[t][m] = 0 /\ Statements(m) \subseteq objects[t]
  BY <1>1, <1>2, <1>3 DEF MigrationInv, UnrecordedUnderway, Underway, Executed
<1>5. /\ records'[t][m] = 1
      /\ \A u \in Tenants, l \in Migrations : ~(u = t /\ l = m) => records'[u][l] = records[u][l]
  BY <1>2, <1>3, <1>4
<1>6. /\ jobs'[j].step \in {"tenant", "check"} /\ jobs'[j].tenant = t
      /\ jobs'[j].left = jobs[j].left
      /\ \A i \in Jobs \ {j} : jobs'[i] = jobs[i]
  BY <1>1, <1>2, NextMigrationPlace, NextMigrationStep
<1>7. \A u \in Tenants, l \in Migrations : records'[u][l] <= 1
  BY <1>5 DEF UpgradeInv
<1>8. \A i \in Jobs : TenantsLeft(i)'
  BY <1>1, <1>2, <1>6 DEF UpgradeInv, TenantsLeft
<1>9. \A i \in Jobs : WayClear(i)'
  <2>1. ASSUME NEW i \in Jobs \ {j} PROVE WayClear(i)'
    BY <1>2, <1>6, <2>1 DEF UpgradeInv, WayClear
  <2>2. WayClear(j)'
    BY <1>6 DEF WayClear
  <2> QED
    BY <2>1, <2>2
<1>10. ASSUME faults' = 0, NEW u \in Tenants, NEW l \in Migrations, ~Spoiled(u)', records'[u][l] = 0
       PROVE  Carried(u, l)'
  <2>1. ~(u = t /\ l = m) /\ records[u][l] = 0
    BY <1>5, <1>10
  <2>2. ~Spoiled(u)
    <3>1. SUFFICES ASSUME NEW k \in Migrations,
                          IF records[u][k] > 0 THEN ~(Local(k) \subseteq objects[u])
                          ELSE \E s \in Statements(k) : Foreign(s)
                   PROVE  FALSE
      BY DEF Spoiled
    <3>2. CASE u = t /\ k = m
      BY <1>3, <1>4, <3>1, <3>2 DEF UpgradeInv
    <3>3. CASE ~(u = t /\ k = m)
      <4>1. records'[u][k] = records[u][k]
        BY <1>5, <3>3
      <4> QED
        BY <1>2, <1>10, <3>1, <4>1 DEF Spoiled
    <3> QED
      BY <3>2, <3>3
  <2>3. Carried(u, l)
    BY <1>2, <1>10, <2>1, <2>2 DEF UpgradeInv
  <2>4. \A i \in Jobs : (Passed(i, u, l)' => Passed(i, u, l)) /\ (Pending(i, u, l) => Pending(i, u, l)')
    <3>1. ASSUME NEW i \in Jobs \ {j}
          PROVE  Passed(i, u, l)' = Passed(i, u, l) /\ Pending(i, u, l)' = Pending(i, u, l)
      BY <1>6, <3>1 DEF Passed, Pending
    <3>2. (Passed(j, u, l)' => Passed(j, u, l)) /\ (Pending(j, u, l) => Pending(j, u, l)')
      BY <1>1, <1>2, <2>1, PassingOn
    <3> QED
      BY <3>1, <3>2
  <2>5. ASSUME Statements(l) \cap objects'[u] # {} PROVE \E i \in Jobs : Underway(i, u, l)'
    <3>1. PICK i \in Jobs : Underway(i, u, l)
      BY <1>2, <2>3, <2>5 DEF Carried
    <3>2. i # j
      BY <1>1, <2>1, <3>1 DEF Underway
    <3> QED
      BY <1>6, <3>1, <3>2 DEF Underway
  <2> QED
    BY <2>3, <2>4, <2>5 DEF Carried, Statements
<1> QED
  BY <1>2, <1>7, <1>8, <1>9, <1>10 DEF UpgradeInv

\* Every step of migrateAllTenants preserves UpgradeInv.
LEMMA StepUpgrade == MigrationInv /\ UpgradeInv /\ [Next]_vars => UpgradeInv'
<1> SUFFICES ASSUME MigrationInv, UpgradeInv, [Next]_vars PROVE UpgradeInv'
  OBVIOUS
<1>1. /\ jobs \in [Jobs -> Job] /\ faults \in Nat
      /\ \A i \in Jobs : jobs[i] \in Job
  BY DEF MigrationInv, TypeOK
<1>2. Fault => faults' # 0
  BY <1>1 DEF Fault
<1>3. ASSUME NEW j \in Jobs, MigrateAllTenants(j) PROVE UpgradeInv'
  <2>1. /\ jobs[j].step = "idle"
        /\ jobs'[j] = [jobs[j] EXCEPT !.step = "tenant", !.left = Tenants]
        /\ \A i \in Jobs \ {j} : jobs'[i] = jobs[i]
        /\ UNCHANGED <<objects, records, faults>>
    BY <1>1, <1>3 DEF MigrateAllTenants
  <2>2. jobs'[j].step = "tenant" /\ jobs'[j].left = Tenants
    BY <1>1, <2>1 DEF Job
  <2>3. \A t \in Tenants, m \in Migrations :
            ~Underway(j, t, m) /\ ~Passed(j, t, m)' /\ ~Pending(j, t, m)
    BY <2>1, <2>2 DEF Underway, Passed, Pending
  <2>4. TenantsLeft(j)'
    BY <2>2 DEF TenantsLeft
  <2> QED
    BY <2>1, <2>2, <2>3, <2>4, MovedJob
<1>4. ASSUME NEW j \in Jobs, NEW u \in Tenants, ConnectTenant(j, u) PROVE UpgradeInv'
  <2>1. PICK next : next = [jobs[j] EXCEPT !.step = IF Migrations = {} THEN "tenant" ELSE "check",
                                          !.left = jobs[j].left \ {u}, !.tenant = u, !.at = 1]
    OBVIOUS
  <2>2. /\ jobs[j].step = "tenant"
        /\ jobs' = [jobs EXCEPT ![j] = next]
        /\ UNCHANGED <<objects, records, faults>>
    BY <1>4, <2>1 DEF ConnectTenant
  <2>3. jobs'[j] = next /\ \A i \in Jobs \ {j} : jobs'[i] = jobs[i]
    BY <1>1, <2>2
  <2>4. /\ next.step = IF Migrations = {} THEN "tenant" ELSE "check"
        /\ next.left = jobs[j].left \ {u} /\ next.tenant = u /\ next.at = 1
    BY <1>1, <2>1 DEF Job
  <2>5. ASSUME NEW t \in Tenants, NEW m \in Migrations
        PROVE  ~Underway(j, t, m) /\ ~Pending(j, t, m) /\ (Passed(j, t, m)' => Passed(j, t, m))
    <3>1. m \in Nat \ {0}
      BY ScriptFacts
    <3>2. ~Underway(j, t, m) /\ ~Pending(j, t, m)
      BY <2>2 DEF Underway, Pending
    <3>3. Passed(j, t, m)' => Passed(j, t, m)
      BY <2>2, <2>3, <2>4, <3>1 DEF Passed
    <3> QED
      BY <3>2, <3>3
  <2>6. TenantsLeft(j)' /\ jobs'[j].step # "run"
    BY <2>3, <2>4 DEF TenantsLeft
  <2> QED
    BY <2>2, <2>3, <2>5, <2>6, MovedJob
<1>5. ASSUME NEW j \in Jobs, Answer(j) PROVE UpgradeInv'
  <2>1. /\ jobs[j].step = "tenant" /\ jobs[j].left = {}
        /\ jobs'[j] = [jobs[j] EXCEPT !.step = "done"]
        /\ \A i \in Jobs \ {j} : jobs'[i] = jobs[i]
        /\ UNCHANGED <<objects, records, faults>>
    BY <1>5, GotoStep DEF Answer
  <2>2. jobs'[j].step = "done" /\ jobs'[j].left = {}
    BY <1>1, <2>1 DEF Job
  <2>3. \A t \in Tenants, m \in Migrations :
            ~Underway(j, t, m) /\ Passed(j, t, m) /\ ~Pending(j, t, m)
    BY <2>1 DEF Underway, Passed, Pending
  <2>4. TenantsLeft(j)'
    BY <2>2 DEF TenantsLeft
  <2> QED
    BY <2>1, <2>2, <2>3, <2>4, MovedJob
<1>6. ASSUME NEW j \in Jobs, CheckMigration(j) PROVE UpgradeInv'
  <2>1. jobs[j].step = "check" /\ UNCHANGED <<objects, records, faults>>
    BY <1>6 DEF CheckMigration
  <2>2. jobs[j].tenant \in Tenants /\ jobs[j].at \in Migrations /\ jobs[j].statement = 1
    BY <2>1 DEF MigrationInv, AtStatement
  <2>3. \A t \in Tenants, m \in Migrations : ~Underway(j, t, m)
    BY <2>1 DEF Underway
  <2>4. CASE records[jobs[j].tenant][jobs[j].at] > 0
    <3>1. NextMigration(j, "already_applied") /\ "already_applied" \in Report
      BY <1>6, <2>4 DEF CheckMigration, Report
    <3>2. /\ jobs'[j].step \in {"tenant", "check"} /\ jobs'[j].tenant = jobs[j].tenant
          /\ jobs'[j].left = jobs[j].left
          /\ \A i \in Jobs \ {j} : jobs'[i] = jobs[i]
      BY <2>1, <3>1, NextMigrationPlace, NextMigrationStep
    <3>3. TenantsLeft(j)' /\ jobs'[j].step # "run"
      BY <2>1, <3>2 DEF UpgradeInv, TenantsLeft
    <3>4. ASSUME NEW t \in Tenants, NEW m \in Migrations, records[t][m] = 0
          PROVE  (Passed(j, t, m)' => Passed(j, t, m)) /\ (Pending(j, t, m) => Pending(j, t, m)')
      <4>1. ~(t = jobs[j].tenant /\ m = jobs[j].at)
        BY <2>4, <3>4
      <4> QED
        BY <2>1, <3>1, <4>1, PassingOn
    <3> QED
      BY <2>1, <2>3, <3>2, <3>3, <3>4, MovedJob
  <2>5. CASE ~(records[jobs[j].tenant][jobs[j].at] > 0)
    <3>1. Goto(j, "run")
      BY <1>6, <2>5 DEF CheckMigration
    <3>2. /\ jobs'[j] = [jobs[j] EXCEPT !.step = "run"]
          /\ \A i \in Jobs \ {j} : jobs'[i] = jobs[i]
      BY <3>1, GotoStep
    <3>3. /\ jobs'[j].step = "run" /\ jobs'[j].statement = 1 /\ jobs'[j].left = jobs[j].left
          /\ jobs'[j].tenant = jobs[j].tenant /\ jobs'[j].at = jobs[j].at
      BY <1>1, <2>2, <3>2 DEF Job
    <3>4. \A t \in Tenants, m \in Migrations :
              (Passed(j, t, m)' => Passed(j, t, m)) /\ (Pending(j, t, m) => Pending(j, t, m)')
      BY <2>1, <3>3 DEF Passed, Pending
    <3>5. TenantsLeft(j)'
      BY <2>1, <3>3 DEF UpgradeInv, TenantsLeft
    <3>6. ~(jobs'[j].step = "run" /\ jobs'[j].statement > 1)
      BY <3>3
    <3> QED
      BY <2>1, <2>3, <3>2, <3>4, <3>5, <3>6, MovedJob
  <2> QED
    BY <2>4, <2>5
\* A migration that ends in an error, when nothing failed of itself, was refused at its
\* first statement.
<1>7. ASSUME NEW j \in Jobs, jobs[j].step \in {"run", "record"}, NextMigration(j, "failed"),
             UNCHANGED <<objects, records>>,
             faults' = 0 =>
                 faults = 0 /\ jobs[j].step = "run" /\ ~Accepted(jobs[j].tenant, Current(j))
      PROVE  UpgradeInv'
  <2>1. jobs[j].step \in {"check", "run", "record"} /\ "failed" \in Report
    BY <1>7 DEF Report
  <2>2. /\ jobs'[j].step \in {"tenant", "check"} /\ jobs'[j].tenant = jobs[j].tenant
        /\ jobs'[j].left = jobs[j].left
        /\ \A i \in Jobs \ {j} : jobs'[i] = jobs[i]
    BY <1>7, <2>1, NextMigrationPlace, NextMigrationStep
  <2>3. TenantsLeft(j)' /\ jobs'[j].step # "run"
    BY <1>7, <2>2 DEF UpgradeInv, TenantsLeft
  <2>4. ASSUME faults' = 0, NEW t \in Tenants, NEW m \in Migrations,
               ~Spoiled(t), records[t][m] = 0
        PROVE  /\ ~Underway(j, t, m)
               /\ Passed(j, t, m)' =>
                     Passed(j, t, m) \/ \E i \in Jobs \ {j} : Pending(i, t, m)
               /\ Pending(j, t, m) =>
                     Pending(j, t, m)' \/ \E i \in Jobs \ {j} : Pending(i, t, m)
    <3>1. CASE t = jobs[j].tenant /\ m = jobs[j].at
      <4>1. /\ faults = 0 /\ jobs[j].step = "run" /\ ~Accepted(jobs[j].tenant, Current(j))
            /\ ~Spoiled(jobs[j].tenant) /\ records[jobs[j].tenant][jobs[j].at] = 0
        BY <1>7, <2>4, <3>1
      <4>2. ~(jobs[j].statement > 1)
        BY <4>1, NextAccepted
      <4>3. jobs[j].statement = 1
        BY <1>1, <4>2 DEF Job
      <4>4. \E i \in Jobs \ {j} : Pending(i, t, m)
        BY <3>1, <4>1, <4>3, RefusedIsCarried
      <4>5. ~Underway(j, t, m)
        BY <4>1, <4>3 DEF Underway
      <4> QED
        BY <4>4, <4>5
    <3>2. CASE ~(t = jobs[j].tenant /\ m = jobs[j].at)
      <4>1. (Passed(j, t, m)' => Passed(j, t, m)) /\ (Pending(j, t, m) => Pending(j, t, m)')
        BY <1>7, <2>1, <3>2, PassingOn
      <4>2. ~Underway(j, t, m)
        BY <3>2 DEF Underway
      <4> QED
        BY <4>1, <4>2
    <3> QED
      BY <3>1, <3>2
  <2> QED
    BY <1>7, <2>2, <2>3, <2>4, MovedJob
<1>8. ASSUME NEW j \in Jobs, RunStatement(j) PROVE UpgradeInv'
  <2>1. CASE Accepted(jobs[j].tenant, Current(j))
    BY <1>8, <2>1, AcceptedUpgrade
  <2>2. CASE ~Accepted(jobs[j].tenant, Current(j))
    BY <1>7, <1>8, <2>2 DEF RunStatement
  <2> QED
    BY <2>1, <2>2
<1>9. ASSUME NEW j \in Jobs, RecordMigration(j) PROVE UpgradeInv'
  BY <1>9, RecordUpgrade
<1>10. ASSUME NEW j \in Jobs, CallFails(j) PROVE UpgradeInv'
  BY <1>2, <1>7, <1>10 DEF CallFails
<1>11. ASSUME NEW j \in Jobs, JobFails(j) PROVE UpgradeInv'
  <2>1. /\ jobs'[j] = [jobs[j] EXCEPT !.step = "aborted"]
        /\ \A i \in Jobs \ {j} : jobs'[i] = jobs[i]
        /\ UNCHANGED <<objects, records>>
        /\ faults' # 0
    BY <1>2, <1>11, GotoStep DEF JobFails
  <2>2. jobs'[j].step = "aborted"
    BY <1>1, <2>1 DEF Job
  <2>3. TenantsLeft(j)'
    BY <2>2 DEF TenantsLeft
  <2> QED
    BY <2>1, <2>2, <2>3, MovedJob
<1>12. ASSUME ApiCrash PROVE UpgradeInv'
  <2>1. /\ \A i \in Jobs : jobs'[i] = jobs[i] \/ jobs'[i].step = "aborted"
        /\ UNCHANGED <<objects, records>> /\ faults' # 0
    BY <1>1, <1>2, <1>12 DEF ApiCrash, Job
  <2>2. \A i \in Jobs : TenantsLeft(i)' /\ WayClear(i)'
    BY <2>1 DEF UpgradeInv, TenantsLeft, WayClear
  <2> QED
    BY <2>1, <2>2 DEF UpgradeInv
<1>13. ASSUME UNCHANGED vars PROVE UpgradeInv'
  <2>1. UNCHANGED <<objects, records, jobs, faults>>
    BY <1>13 DEF vars
  <2>2. \A i \in Jobs : TenantsLeft(i)' /\ WayClear(i)'
    BY <2>1 DEF UpgradeInv, TenantsLeft, WayClear
  <2>3. \A t \in Tenants, m \in Migrations :
            (Spoiled(t)' = Spoiled(t)) /\ (Carried(t, m) => Carried(t, m)')
    BY <2>1 DEF Spoiled, Carried, Underway, Passed, Pending
  <2> QED
    BY <2>1, <2>2, <2>3 DEF UpgradeInv
<1> QED
  BY <1>3, <1>4, <1>5, <1>6, <1>8, <1>9, <1>10, <1>11, <1>12, <1>13 DEF Next, JobContinues

\* When requests have ended and nothing failed of itself, every tenant has all that the
\* scripts create, however many requests ran at once, unless provisioning left it
\* incomplete or a pending migration refers to the users table (UpgradeComplete).
THEOREM MigrationsUpgradeComplete == Spec => []UpgradeComplete
<1>1. MigrationInv /\ UpgradeInv => UpgradeComplete
  <2> SUFFICES ASSUME MigrationInv, UpgradeInv, faults = 0, \A j \in Jobs : ~Running(j),
                      NEW j \in Jobs, jobs[j].step = "done",
                      NEW t \in Tenants, ~Spoiled(t), NEW m \in Migrations
               PROVE  records[t][m] = 1 /\ Local(m) \subseteq objects[t]
    BY DEF UpgradeComplete
  <2>1. Passed(j, t, m)
    BY DEF UpgradeInv, TenantsLeft, Passed
  <2>2. \A i \in Jobs : ~Pending(i, t, m)
    BY DEF Running, Pending
  <2>3. records[t][m] # 0
    BY <2>1, <2>2 DEF UpgradeInv, Carried
  <2>4. records[t][m] \in Nat /\ records[t][m] <= 1
    BY DEF MigrationInv, TypeOK, UpgradeInv
  <2>5. records[t][m] = 1
    BY <2>3, <2>4
  <2> QED
    BY <2>5 DEF Spoiled
<1>2. Init => UpgradeInv
  BY InitUpgrade
<1>3. MigrationInv /\ UpgradeInv /\ [Next]_vars => UpgradeInv'
  BY StepUpgrade
<1> QED
  BY <1>1, <1>2, <1>3, MigrationsInvariant, PTL DEF Spec

=============================================================================
