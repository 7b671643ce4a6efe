------------------------- MODULE TenantProvisioning -------------------------
(***************************************************************************)
(* From the creation of an ADMIN user to the tenant database: UserService  *)
(* (create, update, remove), the database-creation queue, and              *)
(* DatabaseCreationConsumer, which creates the database, applies the       *)
(* tenant migrations and marks the user isDatabaseCreated.                 *)
(*                                                                         *)
(* Every database call is a step.  Handlers of several messages run at the *)
(* same time, and the consumer process may die between any two calls.  A   *)
(* migration's statements are one step: that it was applied or not is all  *)
(* that matters here.  MaxFaults bounds the failures and MaxUpdates the    *)
(* edits of users that exist.                                              *)
(***************************************************************************)
EXTENDS Naturals

CONSTANTS Users,       \* the ids of users that may be created
          Emails,      \* stands for the e-mail and the username, both unique
          Codes,       \* tenant codes, compared as they were typed
          Databases,   \* names of databases
          DbName,      \* DATABASE_PREFIX and the code in lower case
          Migrations,  \* how many migrations a tenant database needs
          MaxFaults,
          MaxUpdates,
          Null

ASSUME NameAssumption == DbName \in [Codes -> Databases]

ASSUME SizeAssumption ==
    Migrations \in Nat /\ MaxFaults \in Nat /\ MaxUpdates \in Nat

ASSUME NullUserAssumption == Null \notin Users \cup Emails \cup Codes

VARIABLES users,      \* the users table of the default database
          signup,     \* the running UserService.create requests
          creation,   \* the database-creation queue, one message per user
          handler,    \* the running handlers, one per message
          databases,  \* the tenant databases of the PostgreSQL server
          faults,     \* failures so far
          updates     \* edits of users so far

bounds == <<faults, updates>>
vars == <<users, signup, creation, handler, databases, bounds>>

Creation == INSTANCE WorkQueue WITH Msg <- Users, msg <- creation

-----------------------------------------------------------------------------
Roles == {"ADMIN", "CUSTOMER"}

UserRow ==
    [state : {"none", "active", "deleted"}, email : Emails \cup {Null},
     role : Roles, code : Codes \cup {Null}, isDatabaseCreated : BOOLEAN]

SignupSteps == {"email", "code", "insert", "publish"}

SignupRequest ==
    [step : SignupSteps \cup {"idle", "done", "failed"},
     email : Emails \cup {Null}, role : Roles, code : Codes \cup {Null}]

\* A record in _prisma_migrations: absent, started, finished or rolled back.
Record == {"absent", "started", "finished", "rolledBack"}

\* owner is the user whose handler created the database; it is no column, but
\* tells apart two databases of the same name.
DatabaseState ==
    [exists : BOOLEAN, owner : Users \cup {Null},
     record : [1 .. Migrations -> Record], applied : SUBSET (1 .. Migrations)]

NoDatabase ==
    [exists |-> FALSE, owner |-> Null,
     record |-> [m \in 1 .. Migrations |-> "absent"], applied |-> {}]

\* The calls a handler makes on the database it has created.
MigrateSteps == {"connect", "check", "record", "run", "finish", "disconnect"}

HandlerSteps == {"create", "drop", "mark"} \cup MigrateSteps

Handler == [step : HandlerSteps \cup {"idle"}, at : 1 .. Migrations + 1]

Idle == [step |-> "idle", at |-> 1]

TypeOK ==
    /\ users \in [Users -> UserRow]
    /\ signup \in [Users -> SignupRequest]
    /\ Creation!TypeOK
    /\ handler \in [Users -> Handler]
    /\ databases \in [Databases -> DatabaseState]
    /\ faults \in 0 .. MaxFaults
    /\ updates \in 0 .. MaxUpdates

Init ==
    /\ users = [u \in Users |->
          [state |-> "none", email |-> Null, role |-> "CUSTOMER", code |-> Null,
           isDatabaseCreated |-> FALSE]]
    /\ signup = [u \in Users |->
          [step |-> "idle", email |-> Null, role |-> "CUSTOMER", code |-> Null]]
    /\ Creation!Init
    /\ handler = [u \in Users |-> Idle]
    /\ databases = [d \in Databases |-> NoDatabase]
    /\ faults = 0
    /\ updates = 0

Fault == faults < MaxFaults /\ faults' = faults + 1 /\ UNCHANGED updates
Edit == updates < MaxUpdates /\ updates' = updates + 1 /\ UNCHANGED faults

-----------------------------------------------------------------------------
(* UserService.create, for an ADMIN or, from register, for a CUSTOMER.      *)

EmailTaken(e, u) == \E v \in Users \ {u} : users[v].state = "active" /\ users[v].email = e

CodeTaken(c, u) ==
    c # Null /\ \E v \in Users \ {u} : users[v].state = "active" /\ users[v].code = c

SignupGoto(u, step) == signup' = [signup EXCEPT ![u].step = step]

\* A tenantCode is required for an ADMIN and refused for anybody else.
StartSignup(u, email, role, code) ==
    /\ signup[u].step = "idle"
    /\ (role = "ADMIN") <=> (code # Null)
    /\ signup' = [signup EXCEPT ![u] =
          [step |-> "email", email |-> email, role |-> role, code |-> code]]
    /\ UNCHANGED <<users, creation, handler, databases, bounds>>

CheckEmail(u) ==
    /\ signup[u].step = "email"
    /\ SignupGoto(u, IF EmailTaken(signup[u].email, u) THEN "failed"
                     ELSE IF signup[u].code # Null THEN "code" ELSE "insert")
    /\ UNCHANGED <<users, creation, handler, databases, bounds>>

CheckTenantCode(u) ==
    /\ signup[u].step = "code"
    /\ SignupGoto(u, IF CodeTaken(signup[u].code, u) THEN "failed" ELSE "insert")
    /\ UNCHANGED <<users, creation, handler, databases, bounds>>

\* Mutant: the columns email and tenantCode have no unique index.
InsertUserUnchecked(u) ==
    /\ signup[u].step = "insert"
    /\ SignupGoto(u, IF signup[u].role = "ADMIN" THEN "publish" ELSE "done")
    /\ users' = [users EXCEPT ![u] =
            [state |-> "active", email |-> signup[u].email,
             role |-> signup[u].role, code |-> signup[u].code,
             isDatabaseCreated |-> signup[u].role # "ADMIN"]]
    /\ UNCHANGED <<creation, handler, databases, bounds>>

\* Mutant: a role left out is not replaced by CUSTOMER.
InsertUserNoDefault(u) ==
    LET refused == EmailTaken(signup[u].email, u) \/ CodeTaken(signup[u].code, u) IN
    /\ signup[u].step = "insert"
    /\ SignupGoto(u, IF refused THEN "failed"
                     ELSE IF signup[u].role = "ADMIN" THEN "publish" ELSE "done")
    /\ users' =
          IF refused THEN users
          ELSE [users EXCEPT ![u] =
                  [state |-> "active", email |-> signup[u].email,
                   role |-> IF signup[u].role = "ADMIN" THEN "ADMIN" ELSE Null,
                   code |-> signup[u].code,
                   isDatabaseCreated |-> signup[u].role # "ADMIN"]]
    /\ UNCHANGED <<creation, handler, databases, bounds>>

\* The unique indexes decide between requests that passed the checks together.
InsertUser(u) ==
    LET refused == EmailTaken(signup[u].email, u) \/ CodeTaken(signup[u].code, u) IN
    /\ signup[u].step = "insert"
    /\ SignupGoto(u, IF refused THEN "failed"
                     ELSE IF signup[u].role = "ADMIN" THEN "publish" ELSE "done")
    /\ users' =
          IF refused THEN users
          ELSE [users EXCEPT ![u] =
                  [state |-> "active", email |-> signup[u].email,
                   role |-> signup[u].role, code |-> signup[u].code,
                   isDatabaseCreated |-> signup[u].role # "ADMIN"]]
    /\ UNCHANGED <<creation, handler, databases, bounds>>

PublishCreation(u) ==
    /\ signup[u].step = "publish"
    /\ SignupGoto(u, "done")
    /\ Creation!Publish(u)
    /\ UNCHANGED <<users, handler, databases, bounds>>

\* An error of publishDatabaseCreationMessage is logged and the user returned.
PublishFails(u) ==
    /\ signup[u].step = "publish"
    /\ SignupGoto(u, "done")
    /\ Fault
    /\ UNCHANGED <<users, creation, handler, databases>>

\* A database call throws, or the API process dies.
AbortSignup(u) ==
    /\ signup[u].step \in SignupSteps
    /\ SignupGoto(u, "failed")
    /\ Fault
    /\ UNCHANGED <<users, creation, handler, databases>>

\* UserService.update: every field is optional, the tenantCode is not among them.
UpdateUser(u, email, role) ==
    /\ users[u].state = "active"
    /\ ~EmailTaken(email, u)
    /\ users' = [users EXCEPT ![u] = [@ EXCEPT !.email = email, !.role = role]]
    /\ Edit
    /\ UNCHANGED <<signup, creation, handler, databases>>

\* UserService.remove deletes the row; the tenant database stays.
RemoveUser(u) ==
    /\ users[u].state = "active"
    /\ users' = [users EXCEPT ![u].state = "deleted"]
    /\ Edit
    /\ UNCHANGED <<signup, creation, handler, databases>>

-----------------------------------------------------------------------------
(* DatabaseCreationConsumer.  The message of user u carries the tenantCode  *)
(* it was published with.                                                   *)

Database(u) == DbName[signup[u].code]

HandlerGoto(u, step) == handler' = [handler EXCEPT ![u].step = step]

StoreMessage(u) ==
    /\ Creation!Store(u)
    /\ UNCHANGED <<users, signup, handler, databases, bounds>>

LoseMessage(u) ==
    /\ Creation!Lose(u)
    /\ Fault
    /\ UNCHANGED <<users, signup, handler, databases>>

DeliverMessage(u) ==
    /\ Creation!Deliver(u)
    /\ HandlerGoto(u, "create")
    /\ UNCHANGED <<users, signup, databases, bounds>>

\* Mutant: a database that exists already is taken and migrated like a new one.
CreateDatabaseReuses(u) ==
    LET d == Database(u) IN
    /\ handler[u].step = "create"
    /\ HandlerGoto(u, "connect")
    /\ databases' =
          IF databases[d].exists THEN databases
          ELSE [databases EXCEPT ![d] = [NoDatabase EXCEPT !.exists = TRUE, !.owner = u]]
    /\ UNCHANGED <<users, signup, creation, bounds>>

\* CREATE DATABASE.  'already exists' counts as success: the call returns, and
\* the user is marked.
CreateDatabase(u) ==
    LET d == Database(u) IN
    /\ handler[u].step = "create"
    /\ HandlerGoto(u, IF databases[d].exists THEN "mark" ELSE "connect")
    /\ databases' =
          IF databases[d].exists THEN databases
          ELSE [databases EXCEPT ![d] = [NoDatabase EXCEPT !.exists = TRUE, !.owner = u]]
    /\ UNCHANGED <<users, signup, creation, bounds>>

\* Connect to the new database and create _prisma_migrations if need be.
ConnectTenant(u) ==
    /\ handler[u].step = "connect"
    /\ HandlerGoto(u, IF Migrations = 0 THEN "disconnect" ELSE "check")
    /\ UNCHANGED <<users, signup, creation, databases, bounds>>

\* Mutant: the loop ends one migration early.
NextMigrationStopsShort(u) ==
    handler' = [handler EXCEPT ![u] =
        [step |-> IF handler[u].at + 1 < Migrations THEN "check" ELSE "disconnect",
         at |-> handler[u].at + 1]]

NextMigration(u) ==
    handler' = [handler EXCEPT ![u] =
        [step |-> IF handler[u].at < Migrations THEN "check" ELSE "disconnect",
         at |-> handler[u].at + 1]]

\* A migration that has any record, finished or not, is skipped.
CheckMigration(u) ==
    /\ handler[u].step = "check"
    /\ IF databases[Database(u)].record[handler[u].at] = "absent"
       THEN HandlerGoto(u, "record") ELSE NextMigration(u)
    /\ UNCHANGED <<users, signup, creation, databases, bounds>>

SetRecord(u, r) ==
    databases' = [databases EXCEPT ![Database(u)].record[handler[u].at] = r]

RecordStart(u) ==
    /\ handler[u].step = "record"
    /\ HandlerGoto(u, "run")
    /\ SetRecord(u, "started")
    /\ UNCHANGED <<users, signup, creation, bounds>>

RunStatements(u) ==
    /\ handler[u].step = "run"
    /\ HandlerGoto(u, "finish")
    /\ databases' = [databases EXCEPT ![Database(u)].applied = @ \cup {handler[u].at}]
    /\ UNCHANGED <<users, signup, creation, bounds>>

FinishMigration(u) ==
    /\ handler[u].step = "finish"
    /\ NextMigration(u)
    /\ SetRecord(u, "finished")
    /\ UNCHANGED <<users, signup, creation, bounds>>

Disconnect(u) ==
    /\ handler[u].step = "disconnect"
    /\ HandlerGoto(u, "mark")
    /\ UNCHANGED <<users, signup, creation, databases, bounds>>

\* Mutant: the error of a migration is logged and the next one is started.
MigrationFailsQuietly(u) ==
    /\ handler[u].step \in MigrateSteps \ {"connect", "disconnect"}
    /\ NextMigration(u)
    /\ IF handler[u].step \in {"run", "finish"}
       THEN SetRecord(u, "rolledBack") ELSE UNCHANGED databases
    /\ Fault
    /\ UNCHANGED <<users, signup, creation>>

\* A call on the new database throws: the migration in progress is marked rolled
\* back, unless that fails as well, and the database is to be dropped.
MigrationFails(u) ==
    /\ handler[u].step \in MigrateSteps
    /\ HandlerGoto(u, "drop")
    /\ \/ handler[u].step \in {"run", "finish"} /\ SetRecord(u, "rolledBack")
       \/ UNCHANGED databases
    /\ Fault
    /\ UNCHANGED <<users, signup, creation>>

\* Mutant: the message is rejected without requeueing it.
GiveBackDiscards(u) ==
    /\ creation' = [creation EXCEPT ![u] = "lost"]
    /\ handler' = [handler EXCEPT ![u] = Idle]

\* The handler's error reaches the consume callback, which requeues the message.
GiveBack(u) ==
    /\ Creation!Nack(u)
    /\ handler' = [handler EXCEPT ![u] = Idle]

\* DROP DATABASE IF EXISTS.  PostgreSQL refuses it while the tenant client, which
\* is not disconnected on this path, still holds a session; its error is logged.
DropDatabase(u, dropped) ==
    /\ handler[u].step = "drop"
    /\ GiveBack(u)
    /\ databases' =
          IF dropped THEN [databases EXCEPT ![Database(u)] = NoDatabase] ELSE databases
    /\ UNCHANGED <<users, signup, bounds>>

\* Mutant: a failure to create the database is taken for 'already exists'.
HandlerFailsQuietly(u) ==
    /\ handler[u].step \in {"create", "connect", "mark"}
    /\ HandlerGoto(u, "mark")
    /\ Fault
    /\ UNCHANGED <<users, signup, creation, databases>>

\* CREATE DATABASE fails for another reason, or its client cannot be disconnected
\* once the database exists, or the update of the user fails.
HandlerFails(u) ==
    /\ handler[u].step \in {"create", "connect", "mark"}
    /\ GiveBack(u)
    /\ Fault
    /\ UNCHANGED <<users, signup, databases>>

MarkCreated(u) ==
    /\ handler[u].step = "mark"
    /\ users[u].state = "active"
    /\ users' = [users EXCEPT ![u].isDatabaseCreated = TRUE]
    /\ Creation!Handle(u)
    /\ handler' = [handler EXCEPT ![u] = Idle]
    /\ UNCHANGED <<signup, databases, bounds>>

\* There is no row to update: the handler throws, now and on every redelivery.
MarkMissing(u) ==
    /\ handler[u].step = "mark"
    /\ users[u].state # "active"
    /\ GiveBack(u)
    /\ UNCHANGED <<users, signup, databases, bounds>>

AckMessage(u) ==
    /\ Creation!Ack(u)
    /\ UNCHANGED <<users, signup, handler, databases, bounds>>

\* The consumer process dies with all its handlers.
ConsumerCrash ==
    /\ Creation!InProgress # {}
    /\ Creation!PutBack
    /\ handler' = [u \in Users |-> Idle]
    /\ Fault
    /\ UNCHANGED <<users, signup, databases>>

-----------------------------------------------------------------------------
SignupContinues(u) ==
    \/ CheckEmail(u) \/ CheckTenantCode(u) \/ InsertUser(u) \/ PublishCreation(u)

HandlerContinues(u) ==
    \/ CreateDatabase(u) \/ ConnectTenant(u) \/ CheckMigration(u) \/ RecordStart(u)
    \/ RunStatements(u) \/ FinishMigration(u) \/ Disconnect(u) \/ MarkCreated(u)
    \/ MarkMissing(u)
    \/ \E dropped \in BOOLEAN : DropDatabase(u, dropped)

MessageContinues(u) ==
    StoreMessage(u) \/ DeliverMessage(u) \/ AckMessage(u) \/ HandlerContinues(u)

Next ==
    \/ \E u \in Users :
          \/ \E email \in Emails, role \in Roles, code \in Codes \cup {Null} :
                StartSignup(u, email, role, code)
          \/ SignupContinues(u)
          \/ PublishFails(u)
          \/ AbortSignup(u)
          \/ \E email \in Emails, role \in Roles : UpdateUser(u, email, role)
          \/ RemoveUser(u)
          \/ MessageContinues(u)
          \/ LoseMessage(u)
          \/ MigrationFails(u)
          \/ HandlerFails(u)
    \/ ConsumerCrash

Spec == Init /\ [][Next]_vars

\* A request and a handler go on as long as their calls are answered, and the
\* broker delivers what it holds.  MaxFaults bounds the failures.
FairSpec ==
    /\ Spec
    /\ \A u \in Users : WF_vars(SignupContinues(u)) /\ WF_vars(MessageContinues(u))

-----------------------------------------------------------------------------
(* What holds.                                                              *)

\* No two users have the same e-mail or the same tenantCode, although both are
\* checked one call (and one password hash) before they are inserted.
UniqueIdentities ==
    \A u, v \in Users :
        (u # v /\ users[u].state = "active" /\ users[v].state = "active") =>
            /\ users[u].email # users[v].email
            /\ users[u].code = users[v].code => users[u].code = Null

\* CREATE DATABASE is a lock: of all the handlers at work, for tenants whose codes
\* differ only in case as well and over any number of redeliveries, one at most
\* migrates or drops a given database, and it is the one that created it.
SingleMigrator ==
    \A u, v \in Users :
        LET busy == MigrateSteps \cup {"drop"} IN
        (handler[u].step \in busy /\ handler[v].step \in busy
            /\ Database(u) = Database(v)) => u = v

\* Migrations are applied in order and without a gap, whatever fails and whoever
\* takes over.
MigrationsInOrder ==
    \A d \in Databases : \A m \in databases[d].applied : \A k \in 1 .. m :
        k \in databases[d].applied

\* The user is told 'Database is ready for use' (checkDatabaseStatus).
Ready(u) ==
    users[u].state = "active" /\ users[u].code # Null /\ users[u].isDatabaseCreated

\* No two tenants, deleted ones included, have codes that name one database.
NamesDistinct ==
    \A u, v \in Users :
        (u # v /\ users[u].code # Null /\ users[v].code # Null) =>
            DbName[users[u].code] # DbName[users[v].code]

\* As long as names are distinct, a tenant whose database is reported ready has
\* one: no failed handler, repeated delivery or drop takes it away again.
ReadyDatabaseExists ==
    NamesDistinct => \A u \in Users : Ready(u) => databases[DbName[users[u].code]].exists

Migrated(d) ==
    /\ databases[d].exists
    /\ databases[d].applied = 1 .. Migrations
    /\ \A m \in 1 .. Migrations : databases[d].record[m] = "finished"

\* If moreover nothing has failed, that database is the tenant's own and has every
\* migration: handlers that run at the same time do not disturb each other.
CleanProvisioning ==
    (faults = 0 /\ NamesDistinct) =>
        \A u \in Users : Ready(u) =>
            /\ Migrated(DbName[users[u].code])
            /\ databases[DbName[users[u].code]].owner = u

\* Every message the broker stored is worked off, and its user marked, however
\* often handlers fail in between, unless the user has been deleted.
ProvisioningSettles ==
    \A u \in Users :
        (creation[u] = "ready") ~>
            \/ creation[u] = "acked" /\ users[u].isDatabaseCreated
            \/ users[u].state = "deleted"

-----------------------------------------------------------------------------
(* What the repository says and the code does not do.                       *)

\* README: the consumer 'creates the tenant DB and applies migrations [...], then
\* marks isDatabaseCreated=true'.
ReadyMeansMigrated == \A u \in Users : Ready(u) => Migrated(DbName[users[u].code])

=============================================================================
