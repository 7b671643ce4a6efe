---------------------- MODULE TenantProvisioningProofs ----------------------
(***************************************************************************)
(* Theorems about TenantProvisioning, for any users, codes and names, any  *)
(* number of migrations and any bound on failures and edits.               *)
(***************************************************************************)
EXTENDS TenantProvisioning, TLAPS

-----------------------------------------------------------------------------
(* The inductive invariant.                                                 *)

\* The row of a user is inserted by its signup, with the code it was given, and
\* the message is published after that, for those who have a code.
SignupMatches(u) ==
    /\ signup[u].step # "idle" => ((signup[u].role = "ADMIN") <=> (signup[u].code # Null))
    /\ signup[u].step \in {"idle", "email", "code", "insert"} => users[u].state = "none"
    /\ signup[u].step = "publish" => signup[u].role = "ADMIN" /\ users[u].state # "none"
    /\ users[u].code = IF users[u].state = "none" THEN Null ELSE signup[u].code
    /\ creation[u] # "none" =>
          /\ signup[u].step = "done"
          /\ signup[u].code # Null
          /\ users[u].state # "none"

\* A handler is at work exactly while its message is delivered.
HandlerMatches(u) ==
    /\ (handler[u].step # "idle") <=> (creation[u] = "delivered")
    /\ handler[u].step \in {"idle", "create", "connect"} => handler[u].at = 1

Busy(u) == handler[u].step \in MigrateSteps \cup {"drop"}

\* How far a handler has come with its database: r is the record of the migration
\* it is at.
Recorded(u, r) ==
    \A m \in 1 .. Migrations :
        databases[Database(u)].record[m] =
            IF m < handler[u].at THEN "finished"
            ELSE IF m = handler[u].at THEN r ELSE "absent"

Progress(u) ==
    LET applied == databases[Database(u)].applied  step == handler[u].step IN
    /\ step \in {"connect", "check", "record", "disconnect"} => Recorded(u, "absent")
    /\ step \in {"run", "finish"} => Recorded(u, "started")
    /\ step \in {"check", "record", "run", "finish"} => handler[u].at \in 1 .. Migrations
    /\ step \in {"connect", "check", "record", "run"} => applied = 1 .. handler[u].at - 1
    /\ step = "finish" => applied = 1 .. handler[u].at
    /\ step = "disconnect" => handler[u].at = Migrations + 1 /\ applied = 1 .. Migrations

\* The database a handler works on is the one it created.
Working(u) ==
    Busy(u) =>
        /\ databases[Database(u)].exists
        /\ databases[Database(u)].owner = u
        /\ Progress(u)

\* A database was created by the handler of a message; as long as nothing fails
\* that handler is still at work on it or has completed it.
Owned(d) ==
    databases[d].exists =>
        LET w == databases[d].owner IN
        /\ w \in Users
        /\ creation[w] # "none"
        /\ Database(w) = d
        /\ faults = 0 => Busy(w) \/ Migrated(d)

\* What the mark rests on, while names are distinct.
MarkSound(u) ==
    NamesDistinct =>
        /\ handler[u].step = "mark" \/ Ready(u) => databases[Database(u)].exists
        /\ Ready(u) => ~Busy(u)
        /\ Ready(u) => creation[u] # "none"
        /\ (faults = 0 /\ (handler[u].step = "mark" \/ Ready(u))) =>
              Migrated(Database(u)) /\ databases[Database(u)].owner = u

NoDropYet == faults = 0 => \A u \in Users : handler[u].step # "drop"

FlowInv == \A u \in Users : SignupMatches(u) /\ HandlerMatches(u)

DatabaseInv ==
    /\ \A u \in Users : Working(u)
    /\ \A d \in Databases : Owned(d)
    /\ \A u \in Users : MarkSound(u)
    /\ NoDropYet
    /\ MigrationsInOrder

ProvisioningInv == TypeOK /\ FlowInv /\ DatabaseInv /\ UniqueIdentities

-----------------------------------------------------------------------------
(* Type correctness.                                                        *)

\* Before the first signup every variable has its type.
LEMMA InitType == Init => TypeOK
<1> SUFFICES ASSUME Init PROVE TypeOK
  OBVIOUS
<1>1. users \in [Users -> UserRow]
  BY DEF Init, UserRow, Roles
<1>2. signup \in [Users -> SignupRequest]
  BY DEF Init, SignupRequest, Roles
<1>3. Creation!TypeOK
  BY DEF Init, Creation!Init, Creation!TypeOK, Creation!Places
<1>4. handler \in [Users -> Handler]
  BY SizeAssumption DEF Init, Handler, Idle
<1>5. databases \in [Databases -> DatabaseState]
  BY DEF Init, DatabaseState, NoDatabase, Record
<1>6. faults \in 0 .. MaxFaults /\ updates \in 0 .. MaxUpdates
  BY SizeAssumption DEF Init
<1> QED
  BY <1>1, <1>2, <1>3, <1>4, <1>5, <1>6 DEF TypeOK

\* A message moves between places.
LEMMA MoveType ==
    ASSUME Creation!TypeOK, NEW u \in Users, NEW from, NEW to \in Creation!Places,
           Creation!Move(u, from, to)
    PROVE  Creation!TypeOK' /\ creation' = [creation EXCEPT ![u] = to] /\ creation[u] \in from
  BY DEF Creation!TypeOK, Creation!Move

\* A signup moves between steps.
LEMMA SignupGotoType ==
    ASSUME signup \in [Users -> SignupRequest], NEW u \in Users,
           NEW step \in SignupSteps \cup {"done", "failed"}, SignupGoto(u, step)
    PROVE  /\ signup' \in [Users -> SignupRequest]
           /\ signup'[u].step = step
           /\ signup'[u].email = signup[u].email
           /\ signup'[u].role = signup[u].role
           /\ signup'[u].code = signup[u].code
           /\ \A v \in Users \ {u} : signup'[v] = signup[v]
  BY DEF SignupGoto, SignupRequest

\* A handler moves between steps.
LEMMA HandlerGotoType ==
    ASSUME handler \in [Users -> Handler], NEW u \in Users,
           NEW step \in HandlerSteps, HandlerGoto(u, step)
    PROVE  /\ handler' \in [Users -> Handler]
           /\ handler'[u].step = step
           /\ handler'[u].at = handler[u].at
           /\ \A v \in Users \ {u} : handler'[v] = handler[v]
  BY DEF HandlerGoto, Handler

\* A handler goes on to the next migration.
LEMMA NextMigrationType ==
    ASSUME handler \in [Users -> Handler], NEW u \in Users,
           handler[u].at \in 1 .. Migrations, NextMigration(u)
    PROVE  /\ handler' \in [Users -> Handler]
           /\ handler'[u].step =
                 IF handler[u].at < Migrations THEN "check" ELSE "disconnect"
           /\ handler'[u].at = handler[u].at + 1
           /\ \A v \in Users \ {u} : handler'[v] = handler[v]
  BY SizeAssumption DEF NextMigration, Handler, HandlerSteps, MigrateSteps

\* A handler ends.
LEMMA IdleType ==
    ASSUME handler \in [Users -> Handler], NEW u \in Users,
           handler' = [handler EXCEPT ![u] = Idle]
    PROVE  /\ handler' \in [Users -> Handler]
           /\ handler'[u].step = "idle"
           /\ handler'[u].at = 1
           /\ \A v \in Users \ {u} : handler'[v] = handler[v]
  BY SizeAssumption DEF Handler, Idle

\* The record of a migration changes.
LEMMA SetRecordType ==
    ASSUME databases \in [Databases -> DatabaseState], NEW u \in Users,
           Database(u) \in Databases, handler[u].at \in 1 .. Migrations,
           NEW r \in Record, SetRecord(u, r)
    PROVE  /\ databases' \in [Databases -> DatabaseState]
           /\ \A d \in Databases \ {Database(u)} : databases'[d] = databases[d]
           /\ databases'[Database(u)].exists = databases[Database(u)].exists
           /\ databases'[Database(u)].owner = databases[Database(u)].owner
           /\ databases'[Database(u)].applied = databases[Database(u)].applied
           /\ databases'[Database(u)].record =
                 [databases[Database(u)].record EXCEPT ![handler[u].at] = r]
<1> DEFINE d == Database(u)
           next == [databases[d] EXCEPT !.record = [@ EXCEPT ![handler[u].at] = r]]
<1>1. databases[d] \in DatabaseState
  OBVIOUS
<1>2. /\ next \in DatabaseState
      /\ next.exists = databases[d].exists
      /\ next.owner = databases[d].owner
      /\ next.applied = databases[d].applied
      /\ next.record = [databases[d].record EXCEPT ![handler[u].at] = r]
  BY <1>1 DEF DatabaseState
<1>3. databases' = [databases EXCEPT ![d] = next]
  BY <1>1 DEF SetRecord, DatabaseState
<1> HIDE DEF next
<1> QED
  BY <1>2, <1>3

-----------------------------------------------------------------------------
(* Which database a user's message names.                                   *)

\* A published message names a database, the one of its user's code, and two users
\* with messages whose names are distinct name two.
LEMMA MessageNames ==
    ASSUME TypeOK, FlowInv
    PROVE  /\ \A u \in Users : creation[u] # "none" =>
                 /\ Database(u) \in Databases
                 /\ users[u].code # Null
                 /\ users[u].code = signup[u].code
           /\ \A u \in Users : handler[u].step # "idle" => creation[u] # "none"
           /\ NamesDistinct => \A u, v \in Users :
                 (creation[u] # "none" /\ creation[v] # "none" /\ u # v) =>
                     Database(u) # Database(v)
<1>1. ASSUME NEW u \in Users, creation[u] # "none"
      PROVE  /\ Database(u) \in Databases
             /\ users[u].code # Null
             /\ users[u].code = signup[u].code
  <2>1. signup[u].code \in Codes /\ users[u].state # "none"
    BY <1>1 DEF TypeOK, FlowInv, SignupMatches, SignupRequest
  <2>2. users[u].code = signup[u].code /\ signup[u].code # Null
    BY <1>1, <2>1 DEF FlowInv, SignupMatches
  <2> QED
    BY <2>1, <2>2, NameAssumption DEF Database
<1>2. ASSUME NEW u \in Users, handler[u].step # "idle" PROVE creation[u] # "none"
  BY <1>2 DEF FlowInv, HandlerMatches
<1> QED
  BY <1>1, <1>2 DEF NamesDistinct, Database

-----------------------------------------------------------------------------
(* Steps and the databases.                                                 *)

\* Steps that change no database.  The users, messages and codes that were there
\* stay, and a request or handler that moves keeps what is said of it.
LEMMA SameDatabases ==
    ASSUME ProvisioningInv, databases' = databases, faults' = 0 => faults = 0,
           \A w \in Users : creation[w] # "none" =>
               creation'[w] # "none" /\ signup'[w].code = signup[w].code,
           \A w \in Users : users[w].code # Null => users'[w].code = users[w].code,
           \A w \in Users :
               \/ handler'[w] = handler[w] /\ (Ready(w)' => Ready(w))
               \/ /\ Working(w)'
                  /\ MarkSound(w)'
                  /\ faults' = 0 =>
                        /\ handler'[w].step # "drop"
                        /\ Busy(w) => Busy(w)' \/ Migrated(Database(w))
    PROVE  DatabaseInv'
<1>1. /\ \A w \in Users : creation[w] # "none" => Database(w)' = Database(w)
      /\ \A w \in Users : handler[w].step # "idle" => creation[w] # "none"
  BY MessageNames DEF ProvisioningInv, Database
<1>2. NamesDistinct' => NamesDistinct
  BY DEF NamesDistinct
<1>3. \A d \in Databases : Migrated(d)' <=> Migrated(d)
  BY DEF Migrated
<1>4. \A w \in Users : Busy(w) => handler[w].step # "idle"
  BY DEF Busy, MigrateSteps
<1>5. ASSUME NEW w \in Users PROVE Working(w)'
  <2>1. CASE handler'[w] = handler[w]
    <3> SUFFICES ASSUME Busy(w)'
                 PROVE  (databases[Database(w)].exists /\ databases[Database(w)].owner = w
                            /\ Progress(w))'
      BY DEF Working
    <3>1. Busy(w) /\ Database(w)' = Database(w)
      BY <1>1, <1>4, <2>1 DEF Busy
    <3>2. databases[Database(w)].exists /\ databases[Database(w)].owner = w /\ Progress(w)
      BY <3>1 DEF ProvisioningInv, DatabaseInv, Working
    <3> QED
      BY <2>1, <3>1, <3>2 DEF Progress, Recorded
  <2> QED
    BY <2>1
<1>6. ASSUME NEW d \in Databases PROVE Owned(d)'
  <2> DEFINE w == databases[d].owner
  <2> SUFFICES ASSUME databases[d].exists
               PROVE  /\ w \in Users
                      /\ creation'[w] # "none"
                      /\ Database(w)' = d
                      /\ faults' = 0 => Busy(w)' \/ Migrated(d)
    BY <1>3 DEF Owned, Busy, Database
  <2>1. /\ w \in Users
        /\ creation[w] # "none"
        /\ Database(w) = d
        /\ faults = 0 => Busy(w) \/ Migrated(d)
    BY DEF ProvisioningInv, DatabaseInv, Owned
  <2>2. faults' = 0 /\ Busy(w) => Busy(w)' \/ Migrated(d)
    BY <2>1 DEF Busy
  <2> QED
    BY <1>1, <2>1, <2>2
<1>7. ASSUME NEW w \in Users PROVE MarkSound(w)'
  <2>1. CASE handler'[w] = handler[w] /\ (Ready(w)' => Ready(w))
    <3> SUFFICES ASSUME NamesDistinct', handler'[w].step = "mark" \/ Ready(w)'
                 PROVE  MarkSound(w)'
      BY DEF MarkSound
    <3>1. /\ NamesDistinct
          /\ handler[w].step = "mark" \/ Ready(w)
          /\ MarkSound(w)
      BY <1>2, <2>1 DEF ProvisioningInv, DatabaseInv
    <3>2. creation[w] # "none"
      BY <1>1, <3>1 DEF MarkSound
    <3>3. Database(w)' = Database(w) /\ creation'[w] # "none"
      BY <1>1, <3>2
    <3> QED
      BY <2>1, <3>1, <3>3 DEF MarkSound, Busy, Migrated
  <2> QED
    BY <2>1
<1>8. NoDropYet'
  BY DEF ProvisioningInv, DatabaseInv, NoDropYet
<1>9. MigrationsInOrder'
  BY DEF ProvisioningInv, DatabaseInv, MigrationsInOrder
<1> QED
  BY <1>5, <1>6, <1>7, <1>8, <1>9 DEF DatabaseInv

\* Steps of a handler on the database of its message, which nobody else is at.
LEMMA OwnDatabase ==
    ASSUME ProvisioningInv, NEW u \in Users, handler[u].step # "idle",
           UNCHANGED <<users, signup>>, faults' = 0 => faults = 0,
           \A w \in Users : creation[w] # "none" => creation'[w] # "none",
           \A w \in Users \ {u} : handler'[w] = handler[w],
           \A d \in Databases \ {Database(u)} : databases'[d] = databases[d],
           databases[Database(u)].exists => databases[Database(u)].owner = u,
           Working(u)', Owned(Database(u))', MarkSound(u)',
           faults' = 0 => handler'[u].step # "drop",
           \A m \in databases'[Database(u)].applied :
               \A k \in 1 .. m : k \in databases'[Database(u)].applied
    PROVE  DatabaseInv'
<1>1. /\ Database(u) \in Databases
      /\ creation[u] # "none"
      /\ \A w \in Users : Database(w)' = Database(w)
      /\ \A w \in Users : creation[w] # "none" => Database(w) \in Databases
      /\ \A w \in Users : handler[w].step # "idle" => creation[w] # "none"
  BY MessageNames DEF ProvisioningInv, Database
<1>2. /\ NamesDistinct' <=> NamesDistinct
      /\ \A w \in Users : Ready(w)' <=> Ready(w)
  BY DEF NamesDistinct, Ready
<1>3. \A w \in Users : Busy(w) => handler[w].step # "idle"
  BY DEF Busy, MigrateSteps
<1>4. ASSUME NEW w \in Users PROVE Working(w)'
  <2>1. CASE w # u /\ Busy(w)
    <3>1. databases[Database(w)].exists /\ databases[Database(w)].owner = w /\ Progress(w)
      BY <2>1 DEF ProvisioningInv, DatabaseInv, Working
    <3>2. Database(w) \in Databases \ {Database(u)}
      BY <1>1, <1>3, <2>1, <3>1
    <3>3. databases'[Database(w)] = databases[Database(w)] /\ handler'[w] = handler[w]
      BY <2>1, <3>2
    <3> QED
      BY <1>1, <3>1, <3>3 DEF Working, Progress, Recorded
  <2>2. CASE w # u /\ ~Busy(w)
    BY <2>2 DEF Working, Busy
  <2> QED
    BY <2>1, <2>2
<1>5. ASSUME NEW d \in Databases PROVE Owned(d)'
  <2>1. CASE d # Database(u)
    <3> DEFINE w == databases[d].owner
    <3>1. databases'[d] = databases[d]
      BY <2>1
    <3> SUFFICES ASSUME databases[d].exists
                 PROVE  /\ w \in Users
                        /\ creation'[w] # "none"
                        /\ Database(w) = d
                        /\ faults' = 0 => Busy(w)' \/ Migrated(d)'
      BY <1>1, <3>1 DEF Owned, Busy
    <3>2. /\ w \in Users
          /\ creation[w] # "none"
          /\ Database(w) = d
          /\ faults = 0 => Busy(w) \/ Migrated(d)
      BY DEF ProvisioningInv, DatabaseInv, Owned
    <3>3. handler'[w] = handler[w]
      BY <2>1, <3>2
    <3> QED
      BY <3>1, <3>2, <3>3 DEF Busy, Migrated
  <2>2. CASE d = Database(u)
    BY <1>1, <2>2 DEF Owned, Migrated
  <2> QED
    BY <2>1, <2>2
<1>6. ASSUME NEW w \in Users PROVE MarkSound(w)'
  <2>1. CASE w # u /\ NamesDistinct /\ (handler[w].step = "mark" \/ Ready(w))
    <3>1. MarkSound(w) /\ handler'[w] = handler[w]
      BY <2>1 DEF ProvisioningInv, DatabaseInv
    <3>2. creation[w] # "none"
      BY <1>1, <2>1, <3>1 DEF MarkSound
    <3>3. Database(w) # Database(u)
      BY <1>1, <2>1, <3>2, MessageNames DEF ProvisioningInv
    <3>4. databases'[Database(w)] = databases[Database(w)]
      BY <1>1, <3>2, <3>3
    <3> QED
      BY <1>1, <1>2, <3>1, <3>2, <3>4 DEF MarkSound, Busy, Migrated
  <2>2. CASE w # u /\ ~(NamesDistinct /\ (handler[w].step = "mark" \/ Ready(w)))
    BY <1>2, <2>2 DEF MarkSound
  <2> QED
    BY <2>1, <2>2
<1>7. NoDropYet'
  BY DEF ProvisioningInv, DatabaseInv, NoDropYet
<1>8. MigrationsInOrder'
  BY DEF ProvisioningInv, DatabaseInv, MigrationsInOrder
<1> QED
  BY <1>4, <1>5, <1>6, <1>7, <1>8 DEF DatabaseInv

-----------------------------------------------------------------------------
(* Signups, edits of users and the broker.                                  *)

\* The counters stay within their bounds, and failures are never forgotten.
LEMMA BoundsStep ==
    ASSUME TypeOK, Fault \/ Edit \/ UNCHANGED bounds
    PROVE  /\ faults' \in 0 .. MaxFaults /\ updates' \in 0 .. MaxUpdates
           /\ faults' = 0 => faults = 0
           /\ Fault => faults' # 0
  BY SizeAssumption DEF TypeOK, Fault, Edit, bounds

\* Steps of one signup or one message that touch neither the tables nor a handler.
LEMMA SignupOrMessageStep ==
    ASSUME ProvisioningInv, NEW u \in Users, UNCHANGED <<users, handler, databases>>,
           Fault \/ UNCHANGED bounds,
           signup' \in [Users -> SignupRequest],
           creation' \in [Users -> Creation!Places],
           \A v \in Users \ {u} : signup'[v] = signup[v] /\ creation'[v] = creation[v],
           SignupMatches(u)', HandlerMatches(u)',
           creation[u] # "none" => creation'[u] # "none" /\ signup'[u].code = signup[u].code
    PROVE  ProvisioningInv'
<1>1. /\ faults' \in 0 .. MaxFaults /\ updates' \in 0 .. MaxUpdates
      /\ faults' = 0 => faults = 0
  BY BoundsStep DEF ProvisioningInv
<1>2. TypeOK'
  BY <1>1 DEF ProvisioningInv, TypeOK, Creation!TypeOK, Creation!Places
<1>3. FlowInv'
  BY DEF ProvisioningInv, FlowInv, SignupMatches, HandlerMatches
<1>4. DatabaseInv'
  <2>1. \A w \in Users : creation[w] # "none" =>
               creation'[w] # "none" /\ signup'[w].code = signup[w].code
    OBVIOUS
  <2>2. \A w \in Users : handler'[w] = handler[w] /\ (Ready(w)' => Ready(w))
    BY DEF Ready
  <2> QED
    BY <1>1, <2>1, <2>2, SameDatabases
<1>5. UniqueIdentities'
  BY DEF ProvisioningInv, UniqueIdentities
<1> QED
  BY <1>2, <1>3, <1>4, <1>5 DEF ProvisioningInv

\* The signup actions, and what the broker does with a message.
LEMMA SignupStep ==
    ASSUME ProvisioningInv, NEW u \in Users,
           \/ \E email \in Emails, role \in Roles, code \in Codes \cup {Null} :
                 StartSignup(u, email, role, code)
           \/ CheckEmail(u) \/ CheckTenantCode(u) \/ PublishCreation(u)
           \/ PublishFails(u) \/ AbortSignup(u)
           \/ StoreMessage(u) \/ LoseMessage(u) \/ AckMessage(u)
    PROVE  ProvisioningInv'
<1>1. /\ signup \in [Users -> SignupRequest]
      /\ creation \in [Users -> Creation!Places]
      /\ SignupMatches(u) /\ HandlerMatches(u)
  BY DEF ProvisioningInv, TypeOK, FlowInv, Creation!TypeOK, Creation!Places
<1>2. ASSUME NEW email \in Emails, NEW role \in Roles, NEW code \in Codes \cup {Null},
             StartSignup(u, email, role, code)
      PROVE  ProvisioningInv'
  <2>1. /\ signup' \in [Users -> SignupRequest]
        /\ signup'[u].step = "email" /\ signup'[u].role = role /\ signup'[u].code = code
        /\ \A v \in Users \ {u} : signup'[v] = signup[v]
    BY <1>1, <1>2 DEF StartSignup, SignupRequest, SignupSteps
  <2>2. creation[u] = "none" /\ users[u].state = "none"
    BY <1>1, <1>2 DEF StartSignup, SignupMatches
  <2>3. SignupMatches(u)' /\ HandlerMatches(u)'
    BY <1>1, <1>2, <2>1, <2>2 DEF StartSignup, SignupMatches, HandlerMatches
  <2> QED
    BY <1>1, <1>2, <2>1, <2>2, <2>3, SignupOrMessageStep DEF StartSignup
<1>3. ASSUME NEW step \in SignupSteps \cup {"done", "failed"}, SignupGoto(u, step),
             signup[u].step \in SignupSteps,
             step \in SignupSteps => users[u].state = "none" /\ step # "publish",
             UNCHANGED <<users, creation, handler, databases>>,
             Fault \/ UNCHANGED bounds
      PROVE  ProvisioningInv'
  <2>1. /\ signup' \in [Users -> SignupRequest]
        /\ signup'[u].step = step
        /\ signup'[u].role = signup[u].role
        /\ signup'[u].code = signup[u].code
        /\ \A v \in Users \ {u} : signup'[v] = signup[v]
    BY <1>1, <1>3, SignupGotoType
  <2>2. creation[u] = "none"
    BY <1>1, <1>3 DEF SignupMatches, SignupSteps
  <2>3. SignupMatches(u)' /\ HandlerMatches(u)'
    BY <1>1, <1>3, <2>1, <2>2 DEF SignupMatches, HandlerMatches, SignupSteps
  <2> QED
    BY <1>1, <1>3, <2>1, <2>2, <2>3, SignupOrMessageStep
<1>4. CASE CheckEmail(u)
  <2>1. signup[u].step = "email" /\ users[u].state = "none"
    BY <1>1, <1>4 DEF CheckEmail, SignupMatches
  <2>2. \E step \in {"failed", "code", "insert"} : SignupGoto(u, step)
    BY <1>4 DEF CheckEmail
  <2> QED
    BY <1>3, <1>4, <2>1, <2>2 DEF CheckEmail, SignupSteps
<1>5. CASE CheckTenantCode(u)
  <2>1. signup[u].step = "code" /\ users[u].state = "none"
    BY <1>1, <1>5 DEF CheckTenantCode, SignupMatches
  <2>2. \E step \in {"failed", "insert"} : SignupGoto(u, step)
    BY <1>5 DEF CheckTenantCode
  <2> QED
    BY <1>3, <1>5, <2>1, <2>2 DEF CheckTenantCode, SignupSteps
<1>6. CASE PublishCreation(u)
  <2>1. /\ signup' \in [Users -> SignupRequest]
        /\ signup'[u].step = "done"
        /\ signup'[u].role = signup[u].role
        /\ signup'[u].code = signup[u].code
        /\ \A v \in Users \ {u} : signup'[v] = signup[v]
    BY <1>1, <1>6, SignupGotoType DEF PublishCreation
  <2>2. /\ creation[u] = "none" /\ creation'[u] = "sent"
        /\ creation' \in [Users -> Creation!Places]
        /\ \A v \in Users \ {u} : creation'[v] = creation[v]
    BY <1>1, <1>6 DEF PublishCreation, Creation!Publish, Creation!Move, Creation!Places
  <2>3. signup[u].step = "publish"
    BY <1>6 DEF PublishCreation
  <2>4. SignupMatches(u)' /\ HandlerMatches(u)'
    BY <1>1, <1>6, <2>1, <2>2, <2>3 DEF PublishCreation, SignupMatches, HandlerMatches
  <2> QED
    BY <1>1, <1>6, <2>1, <2>2, <2>4, SignupOrMessageStep DEF PublishCreation
<1>7. CASE PublishFails(u)
  BY <1>3, <1>7 DEF PublishFails, SignupSteps
<1>8. CASE AbortSignup(u)
  BY <1>3, <1>8 DEF AbortSignup, SignupSteps
<1>9. ASSUME NEW from \in {"sent", "handled"}, NEW to \in {"ready", "lost", "acked"},
             Creation!Move(u, {from}, to),
             UNCHANGED <<users, signup, handler, databases>>, Fault \/ UNCHANGED bounds
      PROVE  ProvisioningInv'
  <2>1. /\ creation[u] = from /\ creation'[u] = to
        /\ creation' \in [Users -> Creation!Places]
        /\ \A v \in Users \ {u} : creation'[v] = creation[v]
    BY <1>1, <1>9 DEF Creation!Move, Creation!Places
  <2>2. SignupMatches(u)' /\ HandlerMatches(u)'
    BY <1>1, <1>9, <2>1 DEF SignupMatches, HandlerMatches
  <2> QED
    BY <1>1, <1>9, <2>1, <2>2, SignupOrMessageStep
<1>10. CASE StoreMessage(u)
  BY <1>9, <1>10 DEF StoreMessage, Creation!Store
<1>11. CASE LoseMessage(u)
  BY <1>9, <1>11 DEF LoseMessage, Creation!Lose
<1>12. CASE AckMessage(u)
  BY <1>9, <1>12 DEF AckMessage, Creation!Ack
<1> QED
  BY <1>2, <1>4, <1>5, <1>6, <1>7, <1>8, <1>10, <1>11, <1>12

\* Insertions and edits of users.
LEMMA UserStep ==
    ASSUME ProvisioningInv, NEW u \in Users,
           \/ InsertUser(u)
           \/ \E email \in Emails, role \in Roles : UpdateUser(u, email, role)
           \/ RemoveUser(u)
    PROVE  ProvisioningInv'
<1>1. /\ users \in [Users -> UserRow]
      /\ signup \in [Users -> SignupRequest]
      /\ \A v \in Users : SignupMatches(v) /\ HandlerMatches(v)
      /\ UniqueIdentities
      /\ users[u] \in UserRow /\ signup[u] \in SignupRequest
  BY DEF ProvisioningInv, TypeOK, FlowInv
\* What is common: the row of one user changes, and the databases do not.
<1>2. ASSUME UNCHANGED <<creation, handler, databases>>, Edit \/ UNCHANGED bounds,
             users' \in [Users -> UserRow],
             signup' \in [Users -> SignupRequest],
             \A v \in Users \ {u} : users'[v] = users[v] /\ signup'[v] = signup[v],
             signup'[u].code = signup[u].code,
             users[u].code # Null => users'[u].code = users[u].code,
             Ready(u)' => Ready(u),
             SignupMatches(u)',
             UniqueIdentities'
      PROVE  ProvisioningInv'
  <2>1. /\ faults' \in 0 .. MaxFaults /\ updates' \in 0 .. MaxUpdates
        /\ faults' = 0 => faults = 0
    BY <1>2, BoundsStep DEF ProvisioningInv
  <2>2. TypeOK'
    BY <1>2, <2>1 DEF ProvisioningInv, TypeOK, Creation!TypeOK, Creation!Places
  <2>3. FlowInv'
    BY <1>1, <1>2 DEF FlowInv, SignupMatches, HandlerMatches
  <2>4. DatabaseInv'
    <3>1. \A w \in Users : creation[w] # "none" =>
                 creation'[w] # "none" /\ signup'[w].code = signup[w].code
      BY <1>2
    <3>2. \A w \in Users : users[w].code # Null => users'[w].code = users[w].code
      BY <1>2
    <3>3. \A w \in Users : handler'[w] = handler[w] /\ (Ready(w)' => Ready(w))
      BY <1>2 DEF Ready
    <3> QED
      BY <1>2, <2>1, <3>1, <3>2, <3>3, SameDatabases
  <2> QED
    BY <1>2, <2>2, <2>3, <2>4 DEF ProvisioningInv
<1>3. CASE InsertUser(u)
  <2> DEFINE refused == EmailTaken(signup[u].email, u) \/ CodeTaken(signup[u].code, u)
             row == [state |-> "active", email |-> signup[u].email,
                     role |-> signup[u].role, code |-> signup[u].code,
                     isDatabaseCreated |-> signup[u].role # "ADMIN"]
             step == IF refused THEN "failed"
                     ELSE IF signup[u].role = "ADMIN" THEN "publish" ELSE "done"
  <2>1. /\ signup[u].step = "insert" /\ users[u].state = "none" /\ users[u].code = Null
        /\ creation[u] = "none"
    BY <1>1, <1>3 DEF InsertUser, SignupMatches
  <2>2. /\ signup' \in [Users -> SignupRequest]
        /\ signup'[u].step = step
        /\ signup'[u].role = signup[u].role
        /\ signup'[u].code = signup[u].code
        /\ \A v \in Users \ {u} : signup'[v] = signup[v]
    <3>1. step \in SignupSteps \cup {"done", "failed"}
      BY DEF SignupSteps
    <3>2. SignupGoto(u, step)
      BY <1>3 DEF InsertUser
    <3> HIDE DEF step
    <3> QED
      BY <1>1, <3>1, <3>2, SignupGotoType
  <2>3. UNCHANGED <<creation, handler, databases, bounds>>
    BY <1>3 DEF InsertUser
  <2>4. CASE refused
    <3>1. users' = users
      BY <1>3, <2>4 DEF InsertUser
    <3>2. SignupMatches(u)'
      BY <1>1, <2>1, <2>2, <2>3, <2>4, <3>1 DEF SignupMatches
    <3>3. UniqueIdentities'
      BY <1>1, <3>1 DEF UniqueIdentities
    <3>4. Ready(u)' => Ready(u)
      BY <3>1 DEF Ready
    <3> QED
      BY <1>1, <1>2, <2>2, <2>3, <3>1, <3>2, <3>3, <3>4
  <2>5. CASE ~refused
    <3>1. users' = [users EXCEPT ![u] = row]
      BY <1>3, <2>5 DEF InsertUser
    <3>2. row \in UserRow
      BY <1>1 DEF UserRow, SignupRequest
    <3>3. /\ users' \in [Users -> UserRow]
          /\ users'[u] = row
          /\ \A v \in Users \ {u} : users'[v] = users[v]
      BY <1>1, <3>1, <3>2
    <3>4. SignupMatches(u)'
      BY <1>1, <2>1, <2>2, <2>3, <2>5, <3>3 DEF SignupMatches
    <3>5. \A v \in Users \ {u} : users[v].state = "active" =>
              /\ users[v].email # signup[u].email
              /\ signup[u].code # Null => users[v].code # signup[u].code
      BY <2>5 DEF EmailTaken, CodeTaken
    <3>6. UniqueIdentities'
      BY <1>1, <3>3, <3>5 DEF UniqueIdentities
    <3>7. ~Ready(u)'
      <4>1. (signup[u].role = "ADMIN") <=> (signup[u].code # Null)
        BY <1>1, <2>1 DEF SignupMatches
      <4>2. CASE signup[u].code = Null
        BY <3>3, <4>2 DEF Ready
      <4>3. CASE signup[u].role = "ADMIN"
        <5>1. users'[u].isDatabaseCreated = (signup[u].role # "ADMIN")
          BY <3>3
        <5>2. ~users'[u].isDatabaseCreated
          BY <4>3, <5>1
        <5> QED
          BY <5>2 DEF Ready
      <4> QED
        BY <4>1, <4>2, <4>3
    <3> QED
      BY <1>1, <1>2, <2>1, <2>2, <2>3, <3>3, <3>4, <3>6, <3>7
  <2> QED
    BY <2>4, <2>5
<1>4. ASSUME NEW email \in Emails, NEW role \in Roles, UpdateUser(u, email, role)
      PROVE  ProvisioningInv'
  <2> DEFINE row == [users[u] EXCEPT !.email = email, !.role = role]
  <2>1. /\ row \in UserRow /\ row.email = email /\ row.code = users[u].code
        /\ row.state = users[u].state /\ row.isDatabaseCreated = users[u].isDatabaseCreated
    BY <1>1 DEF UserRow
  <2>2. users' = [users EXCEPT ![u] = row]
    BY <1>4 DEF UpdateUser
  <2> HIDE DEF row
  <2>3. /\ users' \in [Users -> UserRow]
        /\ users'[u] = row
        /\ \A v \in Users \ {u} : users'[v] = users[v]
    BY <1>1, <2>1, <2>2
  <2>4. \A v \in Users \ {u} : users[v].state = "active" => users[v].email # email
    BY <1>4 DEF UpdateUser, EmailTaken
  <2>5. UniqueIdentities'
    <3> SUFFICES ASSUME NEW v \in Users, NEW w \in Users, v # w,
                        users'[v].state = "active", users'[w].state = "active"
                 PROVE  /\ users'[v].email # users'[w].email
                        /\ users'[v].code = users'[w].code => users'[v].code = Null
      BY DEF UniqueIdentities
    <3>1. /\ \A x \in Users : users'[x].state = users[x].state /\ users'[x].code = users[x].code
          /\ users'[u].email = email
      BY <2>1, <2>3
    <3>2. users'[v].code = users'[w].code => users'[v].code = Null
      BY <1>1, <3>1 DEF UniqueIdentities
    <3>3. users'[v].email # users'[w].email
      BY <1>1, <2>3, <2>4, <3>1 DEF UniqueIdentities
    <3> QED
      BY <3>2, <3>3
  <2>6. SignupMatches(u)' /\ (Ready(u)' => Ready(u))
    BY <1>1, <1>4, <2>1, <2>3 DEF SignupMatches, Ready, UpdateUser
  <2> QED
    BY <1>1, <1>2, <1>4, <2>1, <2>3, <2>5, <2>6 DEF UpdateUser
<1>5. CASE RemoveUser(u)
  <2>1. /\ users' \in [Users -> UserRow]
        /\ users'[u].state = "deleted" /\ users'[u].code = users[u].code
        /\ \A v \in Users \ {u} : users'[v] = users[v]
        /\ users[u].state = "active"
    BY <1>1, <1>5 DEF RemoveUser, UserRow
  <2>2. UniqueIdentities'
    BY <1>1, <2>1 DEF UniqueIdentities
  <2>3. SignupMatches(u)' /\ ~Ready(u)'
    BY <1>1, <1>5, <2>1 DEF SignupMatches, Ready, RemoveUser
  <2> QED
    BY <1>1, <1>2, <1>5, <2>1, <2>2, <2>3 DEF RemoveUser
<1> QED
  BY <1>3, <1>4, <1>5

-----------------------------------------------------------------------------
(* The handlers.                                                            *)

\* What a step of the handler of one message leaves of types and flow.
LEMMA HandlerFlow ==
    ASSUME ProvisioningInv, NEW u \in Users,
           users' \in [Users -> UserRow],
           \A v \in Users : users'[v].state = users[v].state /\ users'[v].code = users[v].code,
           \A v \in Users : users'[v].email = users[v].email,
           UNCHANGED signup, Fault \/ UNCHANGED bounds,
           handler' \in [Users -> Handler],
           databases' \in [Databases -> DatabaseState],
           creation' \in [Users -> Creation!Places],
           \A v \in Users \ {u} : handler'[v] = handler[v] /\ creation'[v] = creation[v],
           creation[u] # "none", creation'[u] # "none",
           HandlerMatches(u)'
    PROVE  TypeOK' /\ FlowInv' /\ UniqueIdentities' /\ (faults' = 0 => faults = 0)
<1>1. /\ faults' \in 0 .. MaxFaults /\ updates' \in 0 .. MaxUpdates
      /\ faults' = 0 => faults = 0
  BY BoundsStep DEF ProvisioningInv
<1>2. TypeOK'
  BY <1>1 DEF ProvisioningInv, TypeOK, Creation!TypeOK, Creation!Places
<1>3. FlowInv'
  BY DEF ProvisioningInv, FlowInv, SignupMatches, HandlerMatches
<1>4. UniqueIdentities'
  BY DEF ProvisioningInv, UniqueIdentities
<1> QED
  BY <1>1, <1>2, <1>3, <1>4

\* Steps of a handler that leave the databases and the tables alone.
LEMMA HandlerMoves ==
    ASSUME ProvisioningInv, NEW u \in Users,
           UNCHANGED <<users, signup, databases>>, Fault \/ UNCHANGED bounds,
           handler' \in [Users -> Handler],
           creation' \in [Users -> Creation!Places],
           \A v \in Users \ {u} : handler'[v] = handler[v] /\ creation'[v] = creation[v],
           creation[u] # "none", creation'[u] # "none",
           HandlerMatches(u)', Working(u)', MarkSound(u)',
           faults' = 0 =>
               /\ handler'[u].step # "drop"
               /\ Busy(u) => Busy(u)' \/ Migrated(Database(u))
    PROVE  ProvisioningInv'
<1>1. TypeOK' /\ FlowInv' /\ UniqueIdentities' /\ (faults' = 0 => faults = 0)
  <2>1. users' \in [Users -> UserRow] /\ databases' \in [Databases -> DatabaseState]
    BY DEF ProvisioningInv, TypeOK
  <2> QED
    BY <2>1, HandlerFlow
<1>2. DatabaseInv'
  <2>1. \A w \in Users : creation[w] # "none" =>
               creation'[w] # "none" /\ signup'[w].code = signup[w].code
    OBVIOUS
  <2>2. \A w \in Users \ {u} : handler'[w] = handler[w] /\ (Ready(w)' => Ready(w))
    BY DEF Ready
  <2> QED
    BY <1>1, <2>1, <2>2, SameDatabases
<1> QED
  BY <1>1, <1>2 DEF ProvisioningInv

\* Steps of a handler on its own database.
LEMMA HandlerWrites ==
    ASSUME ProvisioningInv, NEW u \in Users, handler[u].step # "idle",
           UNCHANGED <<users, signup>>, Fault \/ UNCHANGED bounds,
           handler' \in [Users -> Handler],
           databases' \in [Databases -> DatabaseState],
           creation' \in [Users -> Creation!Places],
           \A v \in Users \ {u} : handler'[v] = handler[v] /\ creation'[v] = creation[v],
           creation'[u] # "none",
           \A d \in Databases \ {Database(u)} : databases'[d] = databases[d],
           databases[Database(u)].exists => databases[Database(u)].owner = u,
           HandlerMatches(u)', Working(u)', Owned(Database(u))', MarkSound(u)',
           faults' = 0 => handler'[u].step # "drop",
           \A m \in databases'[Database(u)].applied :
               \A k \in 1 .. m : k \in databases'[Database(u)].applied
    PROVE  ProvisioningInv'
<1>1. creation[u] # "none"
  BY MessageNames DEF ProvisioningInv
<1>2. TypeOK' /\ FlowInv' /\ UniqueIdentities' /\ (faults' = 0 => faults = 0)
  <2>1. users' \in [Users -> UserRow]
    BY DEF ProvisioningInv, TypeOK
  <2> QED
    BY <1>1, <2>1, HandlerFlow
<1>3. DatabaseInv'
  <2>1. \A w \in Users : creation[w] # "none" => creation'[w] # "none"
    OBVIOUS
  <2> QED
    BY <1>2, <2>1, OwnDatabase
<1> QED
  BY <1>2, <1>3 DEF ProvisioningInv

\* What is known of a handler at work.
LEMMA HandlerFacts ==
    ASSUME ProvisioningInv, NEW u \in Users
    PROVE  /\ handler \in [Users -> Handler]
           /\ databases \in [Databases -> DatabaseState]
           /\ creation \in [Users -> Creation!Places]
           /\ HandlerMatches(u) /\ Working(u) /\ MarkSound(u)
           /\ faults = 0 => handler[u].step # "drop"
           /\ handler[u].step # "idle" =>
                 /\ creation[u] = "delivered"
                 /\ Database(u) \in Databases
                 /\ databases[Database(u)] \in DatabaseState
           /\ NamesDistinct /\ Busy(u) => ~Ready(u)
<1>1. /\ handler \in [Users -> Handler]
      /\ databases \in [Databases -> DatabaseState]
      /\ creation \in [Users -> Creation!Places]
      /\ HandlerMatches(u) /\ Working(u) /\ MarkSound(u)
      /\ faults = 0 => handler[u].step # "drop"
  BY DEF ProvisioningInv, TypeOK, Creation!TypeOK, Creation!Places, FlowInv, DatabaseInv,
     NoDropYet
<1>2. handler[u].step # "idle" => creation[u] = "delivered" /\ Database(u) \in Databases
  BY <1>1, MessageNames DEF ProvisioningInv, HandlerMatches
<1> QED
  BY <1>1, <1>2 DEF MarkSound

\* A handler starts, goes through the calls that write nothing, or ends unsuccessfully.
LEMMA HandlerQuietStep ==
    ASSUME ProvisioningInv, NEW u \in Users,
           \/ DeliverMessage(u) \/ ConnectTenant(u) \/ CheckMigration(u) \/ Disconnect(u)
           \/ HandlerFails(u) \/ MarkMissing(u)
    PROVE  ProvisioningInv'
<1>1. /\ handler \in [Users -> Handler]
      /\ databases \in [Databases -> DatabaseState]
      /\ creation \in [Users -> Creation!Places]
      /\ HandlerMatches(u) /\ Working(u) /\ MarkSound(u)
      /\ faults = 0 => handler[u].step # "drop"
      /\ handler[u].step # "idle" =>
            creation[u] = "delivered" /\ Database(u) \in Databases
      /\ NamesDistinct /\ Busy(u) => ~Ready(u)
  BY HandlerFacts
<1>2. Migrations \in Nat /\ handler[u].at \in 1 .. Migrations + 1
  BY <1>1, SizeAssumption DEF Handler
\* A move within the work on the database.
<1>3. ASSUME Busy(u), Busy(u)', handler[u].step # "idle", handler'[u].step \notin {"drop", "mark"},
             handler'[u].step \in {"idle", "create", "connect"} => handler'[u].at = 1,
             handler' \in [Users -> Handler],
             \A v \in Users \ {u} : handler'[v] = handler[v],
             UNCHANGED <<users, signup, creation, databases, bounds>>,
             Progress(u)'
      PROVE  ProvisioningInv'
  <2>1. HandlerMatches(u)'
    BY <1>1, <1>3 DEF HandlerMatches, Busy, MigrateSteps
  <2>2. Working(u)'
    BY <1>1, <1>3 DEF Working, Database
  <2>3. MarkSound(u)'
    BY <1>1, <1>3 DEF MarkSound, NamesDistinct, Ready
  <2> QED
    BY <1>1, <1>3, <2>1, <2>2, <2>3, HandlerMoves
<1>4. CASE DeliverMessage(u)
  <2>1. /\ creation[u] = "ready" /\ creation'[u] = "delivered"
        /\ creation' \in [Users -> Creation!Places]
        /\ \A v \in Users \ {u} : creation'[v] = creation[v]
    BY <1>1, <1>4 DEF DeliverMessage, Creation!Deliver, Creation!Move, Creation!Places
  <2>2. /\ handler' \in [Users -> Handler]
        /\ handler'[u].step = "create"
        /\ handler'[u].at = handler[u].at
        /\ \A v \in Users \ {u} : handler'[v] = handler[v]
    BY <1>1, <1>4, HandlerGotoType DEF DeliverMessage, HandlerSteps
  <2>3. handler[u].step = "idle"
    BY <1>1, <2>1 DEF HandlerMatches
  <2>4. HandlerMatches(u)'
    BY <1>1, <2>1, <2>2, <2>3 DEF HandlerMatches
  <2>5. ~Busy(u) /\ ~Busy(u)'
    BY <2>2, <2>3 DEF Busy, MigrateSteps
  <2>6. Working(u)'
    BY <2>5 DEF Working
  <2>7. MarkSound(u)'
    BY <1>1, <1>4, <2>1, <2>2, <2>5
    DEF MarkSound, DeliverMessage, NamesDistinct, Ready, Migrated, Database, bounds
  <2> QED
    BY <1>4, <2>1, <2>2, <2>4, <2>5, <2>6, <2>7, HandlerMoves DEF DeliverMessage
<1>5. CASE ConnectTenant(u)
  <2> DEFINE step == IF Migrations = 0 THEN "disconnect" ELSE "check"
  <2>1. /\ handler' \in [Users -> Handler]
        /\ handler'[u].step = step
        /\ handler'[u].at = handler[u].at
        /\ \A v \in Users \ {u} : handler'[v] = handler[v]
    <3>1. step \in HandlerSteps /\ HandlerGoto(u, step)
      BY <1>5 DEF ConnectTenant, HandlerSteps, MigrateSteps
    <3> HIDE DEF step
    <3> QED
      BY <1>1, <3>1, HandlerGotoType
  <2>2. handler[u].step = "connect" /\ handler[u].at = 1
    BY <1>1, <1>5 DEF ConnectTenant, HandlerMatches
  <2>3. Busy(u) /\ Busy(u)'
    BY <2>1, <2>2 DEF Busy, MigrateSteps
  <2>4. Progress(u) /\ UNCHANGED <<signup, databases>>
    BY <1>1, <1>5, <2>3 DEF Working, ConnectTenant
  <2>5. Progress(u)'
    <3>1. Recorded(u, "absent") /\ databases[Database(u)].applied = 1 .. 0
      BY <2>2, <2>4 DEF Progress, MigrateSteps
    <3>2. Recorded(u, "absent")' /\ databases'[Database(u)'].applied = 1 .. 0
      BY <2>1, <2>4, <3>1 DEF Recorded, Database
    <3>3. CASE Migrations = 0
      BY <1>2, <2>1, <2>2, <3>2, <3>3 DEF Progress, MigrateSteps
    <3>4. CASE Migrations # 0
      BY <1>2, <2>1, <2>2, <3>2, <3>4 DEF Progress, MigrateSteps
    <3> QED
      BY <3>3, <3>4
  <2> QED
    BY <1>3, <1>5, <2>1, <2>2, <2>3, <2>5 DEF ConnectTenant
<1>6. CASE CheckMigration(u)
  <2>1. handler[u].step = "check" /\ UNCHANGED <<users, signup, creation, databases, bounds>>
    BY <1>6 DEF CheckMigration
  <2>2. Busy(u) /\ Progress(u)
    BY <1>1, <2>1 DEF Busy, MigrateSteps, Working
  <2>3. /\ Recorded(u, "absent") /\ handler[u].at \in 1 .. Migrations
        /\ databases[Database(u)].applied = 1 .. handler[u].at - 1
    BY <2>1, <2>2 DEF Progress, MigrateSteps
  <2>4. databases[Database(u)].record[handler[u].at] = "absent"
    BY <1>2, <2>3 DEF Recorded
  <2>5. HandlerGoto(u, "record")
    BY <1>6, <2>4 DEF CheckMigration
  <2>6. /\ handler' \in [Users -> Handler]
        /\ handler'[u].step = "record"
        /\ handler'[u].at = handler[u].at
        /\ \A v \in Users \ {u} : handler'[v] = handler[v]
    BY <1>1, <2>5, HandlerGotoType DEF HandlerSteps, MigrateSteps
  <2>7. Recorded(u, "absent")' /\ Database(u)' = Database(u)
    BY <2>1, <2>3, <2>6 DEF Recorded, Database
  <2>8. Progress(u)'
    BY <2>1, <2>3, <2>6, <2>7 DEF Progress, MigrateSteps
  <2>9. Busy(u)'
    BY <2>6 DEF Busy, MigrateSteps
  <2> QED
    BY <1>3, <2>1, <2>2, <2>6, <2>8, <2>9
<1>7. CASE Disconnect(u)
  <2>1. handler[u].step = "disconnect" /\ UNCHANGED <<users, signup, creation, databases, bounds>>
    BY <1>7 DEF Disconnect
  <2>2. Busy(u) /\ Progress(u) /\ databases[Database(u)].exists /\ databases[Database(u)].owner = u
    BY <1>1, <2>1 DEF Busy, MigrateSteps, Working
  <2>3. Migrated(Database(u))
    BY <1>2, <2>1, <2>2 DEF Progress, Recorded, MigrateSteps, Migrated
  <2>4. /\ handler' \in [Users -> Handler]
        /\ handler'[u].step = "mark"
        /\ handler'[u].at = handler[u].at
        /\ \A v \in Users \ {u} : handler'[v] = handler[v]
    BY <1>1, <1>7, HandlerGotoType DEF Disconnect, HandlerSteps
  <2>5. HandlerMatches(u)'
    BY <1>1, <2>1, <2>4 DEF HandlerMatches
  <2>6. ~Busy(u)'
    BY <2>4 DEF Busy, MigrateSteps
  <2>7. Working(u)'
    BY <2>6 DEF Working
  <2>8. MarkSound(u)'
    BY <1>1, <2>1, <2>2, <2>3, <2>6 DEF MarkSound, NamesDistinct, Ready, Migrated, Database
  <2> QED
    BY <1>1, <2>1, <2>3, <2>4, <2>5, <2>7, <2>8, HandlerMoves
<1>8. ASSUME GiveBack(u), UNCHANGED <<users, signup, databases>>,
             handler[u].step \in {"create", "connect", "mark"},
             Fault \/ (UNCHANGED bounds /\ handler[u].step = "mark")
      PROVE  ProvisioningInv'
  <2>1. /\ creation[u] = "delivered" /\ creation'[u] = "ready"
        /\ creation' \in [Users -> Creation!Places]
        /\ \A v \in Users \ {u} : creation'[v] = creation[v]
    BY <1>1, <1>8 DEF GiveBack, Creation!Nack, Creation!Move, Creation!Places
  <2>2. /\ handler' \in [Users -> Handler]
        /\ handler'[u].step = "idle" /\ handler'[u].at = 1
        /\ \A v \in Users \ {u} : handler'[v] = handler[v]
    BY <1>1, <1>8, IdleType DEF GiveBack
  <2>3. HandlerMatches(u)'
    BY <2>1, <2>2 DEF HandlerMatches
  <2>4. ~Busy(u)'
    BY <2>2 DEF Busy, MigrateSteps
  <2>5. Working(u)'
    BY <2>4 DEF Working
  <2>6. /\ faults' = 0 => faults = 0
        /\ Fault => faults' # 0
    BY <1>8, BoundsStep DEF ProvisioningInv
  <2>7. MarkSound(u)'
    BY <1>1, <1>8, <2>1, <2>2, <2>4, <2>6 DEF MarkSound, NamesDistinct, Ready, Migrated, Database
  <2>8. faults' = 0 => ~Busy(u)
    BY <1>8, <2>6 DEF Busy, MigrateSteps
  <2> QED
    BY <1>8, <2>1, <2>2, <2>3, <2>5, <2>7, <2>8, HandlerMoves
<1>9. CASE HandlerFails(u)
  BY <1>8, <1>9 DEF HandlerFails
<1>10. CASE MarkMissing(u)
  BY <1>8, <1>10 DEF MarkMissing
<1> QED
  BY <1>4, <1>5, <1>6, <1>7, <1>9, <1>10

\* CREATE DATABASE decides: a database that exists sends the handler to its last
\* step, one that does not is the handler's own from now on.
LEMMA CreateStep ==
    ASSUME ProvisioningInv, NEW u \in Users, CreateDatabase(u)
    PROVE  ProvisioningInv'
<1> DEFINE d == Database(u)
<1>1. /\ handler \in [Users -> Handler]
      /\ databases \in [Databases -> DatabaseState]
      /\ creation \in [Users -> Creation!Places]
      /\ HandlerMatches(u) /\ MarkSound(u)
      /\ handler[u].step = "create" /\ handler[u].at = 1
      /\ creation[u] = "delivered" /\ d \in Databases
      /\ UNCHANGED <<users, signup, creation, bounds>>
  BY HandlerFacts DEF CreateDatabase, HandlerMatches
<1>2. /\ Database(u)' = d
      /\ NamesDistinct' <=> NamesDistinct
      /\ Ready(u)' <=> Ready(u)
      /\ ~Busy(u)
      /\ faults' = faults
  BY <1>1 DEF Database, NamesDistinct, Ready, Busy, MigrateSteps, bounds
<1>3. CASE databases[d].exists
  <2>1. HandlerGoto(u, "mark") /\ databases' = databases
    BY <1>3 DEF CreateDatabase
  <2>2. /\ handler' \in [Users -> Handler]
        /\ handler'[u].step = "mark"
        /\ handler'[u].at = handler[u].at
        /\ \A v \in Users \ {u} : handler'[v] = handler[v]
    BY <1>1, <2>1, HandlerGotoType DEF HandlerSteps
  <2>3. HandlerMatches(u)' /\ ~Busy(u)'
    BY <1>1, <2>2 DEF HandlerMatches, Busy, MigrateSteps
  <2>4. NamesDistinct /\ faults = 0 => Migrated(d) /\ databases[d].owner = u
    <3> DEFINE w == databases[d].owner
    <3> SUFFICES ASSUME NamesDistinct, faults = 0 PROVE Migrated(d) /\ w = u
      OBVIOUS
    <3>1. w \in Users /\ creation[w] # "none" /\ Database(w) = d /\ (Busy(w) \/ Migrated(d))
      BY <1>1, <1>3 DEF ProvisioningInv, DatabaseInv, Owned
    <3>2. w = u
      BY <1>1, <3>1, MessageNames DEF ProvisioningInv
    <3> QED
      BY <1>2, <3>1, <3>2
  <2>5. MarkSound(u)'
    BY <1>1, <1>2, <1>3, <2>1, <2>3, <2>4 DEF MarkSound, Migrated
  <2>6. Working(u)'
    BY <2>3 DEF Working
  <2> QED
    BY <1>1, <1>2, <2>1, <2>2, <2>3, <2>5, <2>6, HandlerMoves
<1>4. CASE ~databases[d].exists
  <2> DEFINE new == [NoDatabase EXCEPT !.exists = TRUE, !.owner = u]
  <2>1. HandlerGoto(u, "connect") /\ databases' = [databases EXCEPT ![d] = new]
    BY <1>4 DEF CreateDatabase
  <2>2. /\ handler' \in [Users -> Handler]
        /\ handler'[u].step = "connect"
        /\ handler'[u].at = 1
        /\ \A v \in Users \ {u} : handler'[v] = handler[v]
    BY <1>1, <2>1, HandlerGotoType DEF HandlerSteps, MigrateSteps
  <2>3. /\ new \in DatabaseState
        /\ new.exists = TRUE /\ new.owner = u /\ new.applied = {}
        /\ new.record = [m \in 1 .. Migrations |-> "absent"]
    BY DEF NoDatabase, DatabaseState, Record
  <2> HIDE DEF new
  <2>4. /\ databases' \in [Databases -> DatabaseState]
        /\ databases'[d] = new
        /\ \A e \in Databases \ {d} : databases'[e] = databases[e]
    BY <1>1, <2>1, <2>3
  <2>5. HandlerMatches(u)' /\ Busy(u)'
    BY <1>1, <2>2 DEF HandlerMatches, Busy, MigrateSteps
  <2>6. Progress(u)'
    BY <1>2, <2>2, <2>3, <2>4, SizeAssumption DEF Progress, Recorded, MigrateSteps
  <2>7. Working(u)'
    BY <1>2, <2>3, <2>4, <2>6 DEF Working
  <2>8. Owned(Database(u))'
    BY <1>1, <1>2, <2>3, <2>4, <2>5 DEF Owned
  <2>9. MarkSound(u)'
    <3>1. NamesDistinct => ~Ready(u)
      BY <1>1, <1>4 DEF MarkSound
    <3> QED
      BY <1>2, <2>2, <3>1 DEF MarkSound
  <2>10. \A m \in databases'[d].applied : \A k \in 1 .. m : k \in databases'[d].applied
    BY <2>3, <2>4
  <2> QED
    BY <1>1, <1>2, <1>4, <2>2, <2>4, <2>5, <2>7, <2>8, <2>9, <2>10, HandlerWrites
<1> QED
  BY <1>3, <1>4

\* A handler at work on its database, before a step.
LEMMA BusyFacts ==
    ASSUME ProvisioningInv, NEW u \in Users, Busy(u)
    PROVE  /\ databases[Database(u)].exists /\ databases[Database(u)].owner = u
           /\ Progress(u)
           /\ handler[u].step # "idle"
           /\ handler[u].step \in {"check", "record", "run", "finish"} =>
                 handler[u].at \in 1 .. Migrations
           /\ NamesDistinct => ~Ready(u)
           /\ \A m \in databases[Database(u)].applied :
                 \A k \in 1 .. m : k \in databases[Database(u)].applied
<1>1. /\ databases[Database(u)].exists /\ databases[Database(u)].owner = u
      /\ Progress(u)
      /\ NamesDistinct => ~Ready(u)
      /\ handler[u].step # "idle"
  BY HandlerFacts DEF Working, Busy, MigrateSteps
<1>2. Database(u) \in Databases
  BY <1>1, HandlerFacts
<1> QED
  BY <1>1, <1>2 DEF Progress, ProvisioningInv, DatabaseInv, MigrationsInOrder

\* A handler that stays at work on its database keeps the invariant when it keeps
\* account of its progress.
LEMMA BusyStep ==
    ASSUME ProvisioningInv, NEW u \in Users, Busy(u), Busy(u)',
           UNCHANGED <<users, signup, creation>>, Fault \/ UNCHANGED bounds,
           handler' \in [Users -> Handler],
           databases' \in [Databases -> DatabaseState],
           \A v \in Users \ {u} : handler'[v] = handler[v],
           \A d \in Databases \ {Database(u)} : databases'[d] = databases[d],
           databases'[Database(u)].exists = databases[Database(u)].exists,
           databases'[Database(u)].owner = databases[Database(u)].owner,
           handler'[u].step # "connect", Progress(u)',
           faults' = 0 => handler'[u].step # "drop",
           \A m \in databases'[Database(u)].applied :
               \A k \in 1 .. m : k \in databases'[Database(u)].applied
    PROVE  ProvisioningInv'
<1>1. /\ databases[Database(u)].exists /\ databases[Database(u)].owner = u
      /\ handler[u].step # "idle"
      /\ NamesDistinct => ~Ready(u)
  BY BusyFacts
<1>2. /\ creation \in [Users -> Creation!Places] /\ creation[u] = "delivered"
      /\ Database(u) \in Databases
  BY <1>1, HandlerFacts
<1>3. /\ Database(u)' = Database(u)
      /\ NamesDistinct' <=> NamesDistinct
      /\ Ready(u)' <=> Ready(u)
  BY DEF Database, NamesDistinct, Ready
<1>4. handler'[u].step \notin {"idle", "create", "connect", "mark"}
  BY DEF Busy, MigrateSteps
<1>5. HandlerMatches(u)'
  BY <1>2, <1>4 DEF HandlerMatches
<1>6. Working(u)'
  BY <1>1, <1>3 DEF Working
<1>7. Owned(Database(u))'
  BY <1>1, <1>2, <1>3 DEF Owned
<1>8. MarkSound(u)'
  BY <1>1, <1>3, <1>4 DEF MarkSound
<1> QED
  BY <1>1, <1>2, <1>5, <1>6, <1>7, <1>8, HandlerWrites

\* The statements that write the tenant database and the records of migrations.
LEMMA MigrateStep ==
    ASSUME ProvisioningInv, NEW u \in Users,
           RecordStart(u) \/ RunStatements(u) \/ FinishMigration(u) \/ MigrationFails(u)
    PROVE  ProvisioningInv'
<1> DEFINE d == Database(u)
           at == handler[u].at
<1>1. Busy(u)
  BY DEF RecordStart, RunStatements, FinishMigration, MigrationFails, Busy, MigrateSteps
<1>2. /\ Progress(u)
      /\ \A m \in databases[d].applied : \A k \in 1 .. m : k \in databases[d].applied
      /\ handler[u].step \in {"check", "record", "run", "finish"} => at \in 1 .. Migrations
  BY <1>1, BusyFacts
<1>3. /\ handler \in [Users -> Handler]
      /\ databases \in [Databases -> DatabaseState]
      /\ d \in Databases
      /\ Migrations \in Nat
      /\ databases[d] \in DatabaseState
  BY <1>1, BusyFacts, HandlerFacts, SizeAssumption
<1>4. UNCHANGED <<users, signup, creation>> /\ Database(u)' = d
  BY DEF RecordStart, RunStatements, FinishMigration, MigrationFails, Database
<1>5. CASE RecordStart(u)
  <2>1. /\ handler[u].step = "record" /\ at \in 1 .. Migrations
        /\ Recorded(u, "absent") /\ databases[d].applied = 1 .. at - 1
    BY <1>2, <1>5 DEF RecordStart, Progress
  <2>2. /\ handler' \in [Users -> Handler]
        /\ handler'[u].step = "run" /\ handler'[u].at = at
        /\ \A v \in Users \ {u} : handler'[v] = handler[v]
    BY <1>3, <1>5, HandlerGotoType DEF RecordStart, HandlerSteps, MigrateSteps
  <2>3. /\ databases' \in [Databases -> DatabaseState]
        /\ \A e \in Databases \ {d} : databases'[e] = databases[e]
        /\ databases'[d].exists = databases[d].exists
        /\ databases'[d].owner = databases[d].owner
        /\ databases'[d].applied = databases[d].applied
        /\ databases'[d].record = [databases[d].record EXCEPT ![at] = "started"]
    BY <1>3, <1>5, <2>1, SetRecordType DEF RecordStart, Record
  <2>4. Recorded(u, "started")'
    BY <1>3, <1>4, <2>1, <2>2, <2>3 DEF Recorded, DatabaseState
  <2>5. Progress(u)' /\ Busy(u)'
    BY <1>4, <2>1, <2>2, <2>3, <2>4 DEF Progress, Busy, MigrateSteps
  <2> QED
    BY <1>1, <1>2, <1>4, <1>5, <2>2, <2>3, <2>5, BusyStep DEF RecordStart
<1>6. CASE RunStatements(u)
  <2> DEFINE next == [databases[d] EXCEPT !.applied = @ \cup {at}]
  <2>1. /\ handler[u].step = "run" /\ at \in 1 .. Migrations
        /\ Recorded(u, "started") /\ databases[d].applied = 1 .. at - 1
    BY <1>2, <1>6 DEF RunStatements, Progress
  <2>2. /\ handler' \in [Users -> Handler]
        /\ handler'[u].step = "finish" /\ handler'[u].at = at
        /\ \A v \in Users \ {u} : handler'[v] = handler[v]
    BY <1>3, <1>6, HandlerGotoType DEF RunStatements, HandlerSteps, MigrateSteps
  <2>3. /\ next \in DatabaseState
        /\ next.exists = databases[d].exists
        /\ next.owner = databases[d].owner
        /\ next.record = databases[d].record
        /\ next.applied = databases[d].applied \cup {at}
    BY <1>3, <2>1 DEF DatabaseState
  <2>4. databases' = [databases EXCEPT ![d] = next]
    BY <1>6 DEF RunStatements
  <2> HIDE DEF next
  <2>5. /\ databases' \in [Databases -> DatabaseState]
        /\ \A e \in Databases \ {d} : databases'[e] = databases[e]
        /\ databases'[d] = next
    BY <1>3, <2>3, <2>4
  <2>6. databases'[d].applied = 1 .. at
    <3>1. at \in Nat \ {0}
      BY <1>3, <2>1
    <3>2. (1 .. at - 1) \cup {at} = 1 .. at
      BY <3>1
    <3> QED
      BY <2>1, <2>3, <2>5, <3>2
  <2>7. Recorded(u, "started")'
    BY <1>4, <2>1, <2>2, <2>3, <2>5 DEF Recorded
  <2>8. Progress(u)' /\ Busy(u)'
    BY <1>4, <2>1, <2>2, <2>6, <2>7 DEF Progress, Busy, MigrateSteps
  <2>9. \A m \in databases'[d].applied : \A k \in 1 .. m : k \in databases'[d].applied
    BY <1>3, <2>1, <2>6
  <2> QED
    BY <1>1, <1>4, <1>6, <2>2, <2>3, <2>5, <2>8, <2>9, BusyStep DEF RunStatements
<1>7. CASE FinishMigration(u)
  <2>1. /\ handler[u].step = "finish" /\ at \in 1 .. Migrations
        /\ Recorded(u, "started") /\ databases[d].applied = 1 .. at
    BY <1>2, <1>7 DEF FinishMigration, Progress
  <2>2. /\ handler' \in [Users -> Handler]
        /\ handler'[u].step = IF at < Migrations THEN "check" ELSE "disconnect"
        /\ handler'[u].at = at + 1
        /\ \A v \in Users \ {u} : handler'[v] = handler[v]
    BY <1>3, <1>7, <2>1, NextMigrationType DEF FinishMigration
  <2>3. /\ databases' \in [Databases -> DatabaseState]
        /\ \A e \in Databases \ {d} : databases'[e] = databases[e]
        /\ databases'[d].exists = databases[d].exists
        /\ databases'[d].owner = databases[d].owner
        /\ databases'[d].applied = databases[d].applied
        /\ databases'[d].record = [databases[d].record EXCEPT ![at] = "finished"]
    BY <1>3, <1>7, <2>1, SetRecordType DEF FinishMigration, Record
  <2>4. Recorded(u, "absent")'
    BY <1>3, <1>4, <2>1, <2>2, <2>3 DEF Recorded, DatabaseState
  <2>5. Progress(u)'
    BY <1>3, <1>4, <2>1, <2>2, <2>3, <2>4 DEF Progress
  <2>6. Busy(u)' /\ handler'[u].step \notin {"connect", "drop"}
    BY <2>2 DEF Busy, MigrateSteps
  <2> QED
    BY <1>1, <1>2, <1>4, <1>7, <2>2, <2>3, <2>5, <2>6, BusyStep DEF FinishMigration
<1>8. CASE MigrationFails(u)
  <2>1. /\ handler' \in [Users -> Handler]
        /\ handler'[u].step = "drop"
        /\ \A v \in Users \ {u} : handler'[v] = handler[v]
    BY <1>3, <1>8, HandlerGotoType DEF MigrationFails, HandlerSteps
  <2>2. Progress(u)' /\ Busy(u)'
    BY <2>1 DEF Progress, Busy, MigrateSteps
  <2>3. Fault /\ faults' # 0
    BY <1>8, BoundsStep DEF MigrationFails, ProvisioningInv
  <2>4. /\ databases' \in [Databases -> DatabaseState]
        /\ \A e \in Databases \ {d} : databases'[e] = databases[e]
        /\ databases'[d].exists = databases[d].exists
        /\ databases'[d].owner = databases[d].owner
        /\ databases'[d].applied = databases[d].applied
    <3>1. CASE handler[u].step \in {"run", "finish"} /\ SetRecord(u, "rolledBack")
      BY <1>2, <1>3, <3>1, SetRecordType DEF Record
    <3>2. CASE UNCHANGED databases
      BY <1>3, <3>2
    <3> QED
      BY <1>8, <3>1, <3>2 DEF MigrationFails
  <2> QED
    BY <1>1, <1>2, <1>4, <2>1, <2>2, <2>3, <2>4, BusyStep
<1> QED
  BY <1>5, <1>6, <1>7, <1>8

\* The handler gives up its database, and PostgreSQL drops it or refuses to.
LEMMA DropStep ==
    ASSUME ProvisioningInv, NEW u \in Users, NEW dropped \in BOOLEAN,
           DropDatabase(u, dropped)
    PROVE  ProvisioningInv'
<1> DEFINE d == Database(u)
<1>1. /\ handler[u].step = "drop" /\ Busy(u)
      /\ GiveBack(u)
      /\ UNCHANGED <<users, signup, bounds>>
  BY DEF DropDatabase, Busy
<1>2. /\ databases[d].exists /\ databases[d].owner = u
      /\ NamesDistinct => ~Ready(u)
  BY <1>1, BusyFacts
<1>3. /\ handler \in [Users -> Handler]
      /\ databases \in [Databases -> DatabaseState]
      /\ creation \in [Users -> Creation!Places]
      /\ d \in Databases
      /\ faults # 0
  BY <1>1, HandlerFacts
<1>4. /\ creation[u] = "delivered" /\ creation'[u] = "ready"
      /\ creation' \in [Users -> Creation!Places]
      /\ \A v \in Users \ {u} : creation'[v] = creation[v]
  BY <1>1, <1>3, HandlerFacts DEF GiveBack, Creation!Nack, Creation!Move, Creation!Places
<1>5. /\ handler' \in [Users -> Handler]
      /\ handler'[u].step = "idle" /\ handler'[u].at = 1
      /\ \A v \in Users \ {u} : handler'[v] = handler[v]
  BY <1>1, <1>3, IdleType DEF GiveBack
<1>6. HandlerMatches(u)' /\ ~Busy(u)'
  BY <1>4, <1>5 DEF HandlerMatches, Busy, MigrateSteps
<1>7. Working(u)'
  BY <1>6 DEF Working
<1>8. /\ MarkSound(u)'
      /\ Database(u)' = d
      /\ faults' # 0
  BY <1>1, <1>2, <1>3, <1>5 DEF MarkSound, NamesDistinct, Ready, Database, bounds
<1>9. CASE dropped
  <2>1. databases' = [databases EXCEPT ![d] = NoDatabase]
    BY <1>9 DEF DropDatabase
  <2>2. NoDatabase \in DatabaseState /\ NoDatabase.exists = FALSE /\ NoDatabase.applied = {}
    BY DEF NoDatabase, DatabaseState, Record
  <2>3. /\ databases' \in [Databases -> DatabaseState]
        /\ databases'[d] = NoDatabase
        /\ \A e \in Databases \ {d} : databases'[e] = databases[e]
    BY <1>3, <2>1, <2>2
  <2>4. Owned(Database(u))'
    BY <1>8, <2>2, <2>3 DEF Owned
  <2> QED
    BY <1>1, <1>2, <1>4, <1>5, <1>6, <1>7, <1>8, <2>2, <2>3, <2>4, HandlerWrites
<1>10. CASE ~dropped
  <2>1. databases' = databases
    BY <1>10 DEF DropDatabase
  <2> QED
    BY <1>1, <1>4, <1>5, <1>6, <1>7, <1>8, <2>1, HandlerMoves
<1> QED
  BY <1>9, <1>10

\* The user is marked, and the message handled.
LEMMA MarkStep ==
    ASSUME ProvisioningInv, NEW u \in Users, MarkCreated(u)
    PROVE  ProvisioningInv'
<1>1. /\ handler[u].step = "mark" /\ users[u].state = "active"
      /\ UNCHANGED <<signup, databases, bounds>>
      /\ users \in [Users -> UserRow] /\ users[u] \in UserRow
  BY DEF MarkCreated, ProvisioningInv, TypeOK
<1>2. /\ users' \in [Users -> UserRow]
      /\ users'[u].state = users[u].state /\ users'[u].code = users[u].code
      /\ users'[u].email = users[u].email
      /\ \A v \in Users \ {u} : users'[v] = users[v]
  BY <1>1 DEF MarkCreated, UserRow
<1>3. /\ handler \in [Users -> Handler]
      /\ databases \in [Databases -> DatabaseState]
      /\ creation \in [Users -> Creation!Places]
      /\ MarkSound(u)
  BY HandlerFacts
<1>4. /\ creation[u] = "delivered" /\ creation'[u] = "handled"
      /\ creation' \in [Users -> Creation!Places]
      /\ \A v \in Users \ {u} : creation'[v] = creation[v]
  BY <1>1, <1>3, HandlerFacts DEF MarkCreated, Creation!Handle, Creation!Move, Creation!Places
<1>5. /\ handler' \in [Users -> Handler]
      /\ handler'[u].step = "idle" /\ handler'[u].at = 1
      /\ \A v \in Users \ {u} : handler'[v] = handler[v]
  BY <1>3, IdleType DEF MarkCreated
<1>6. HandlerMatches(u)' /\ ~Busy(u)' /\ ~Busy(u)
  BY <1>1, <1>4, <1>5 DEF HandlerMatches, Busy, MigrateSteps
<1>7. TypeOK' /\ FlowInv' /\ UniqueIdentities' /\ (faults' = 0 => faults = 0)
  <2>1. \A v \in Users : /\ users'[v].state = users[v].state /\ users'[v].code = users[v].code
                         /\ users'[v].email = users[v].email
    BY <1>2
  <2> QED
    BY <1>1, <1>2, <1>3, <1>4, <1>5, <1>6, <2>1, HandlerFlow
<1>8. Working(u)'
  BY <1>6 DEF Working
<1>9. MarkSound(u)'
  <2>1. NamesDistinct' => NamesDistinct
    BY <1>2 DEF NamesDistinct
  <2> QED
    BY <1>1, <1>3, <1>4, <1>5, <1>6, <1>7, <2>1 DEF MarkSound, Migrated, Database
<1>10. DatabaseInv'
  <2>1. \A w \in Users : creation[w] # "none" =>
               creation'[w] # "none" /\ signup'[w].code = signup[w].code
    BY <1>1, <1>4
  <2>2. \A w \in Users : users[w].code # Null => users'[w].code = users[w].code
    BY <1>2
  <2>3. \A w \in Users \ {u} : handler'[w] = handler[w] /\ (Ready(w)' => Ready(w))
    BY <1>2, <1>5 DEF Ready
  <2> QED
    BY <1>1, <1>5, <1>6, <1>7, <1>8, <1>9, <2>1, <2>2, <2>3, SameDatabases
<1> QED
  BY <1>7, <1>10 DEF ProvisioningInv

\* The consumer process dies: every handler is gone and every message put back.
LEMMA CrashStep ==
    ASSUME ProvisioningInv, ConsumerCrash
    PROVE  ProvisioningInv'
<1>1. UNCHANGED <<users, signup, databases>> /\ Fault
  BY DEF ConsumerCrash
<1>2. /\ faults' \in 0 .. MaxFaults /\ updates' \in 0 .. MaxUpdates
      /\ faults' # 0
  BY <1>1, BoundsStep DEF ProvisioningInv
<1>3. /\ creation' \in [Users -> Creation!Places]
      /\ \A v \in Users : /\ creation[v] # "none" => creation'[v] # "none"
                          /\ creation[v] = "none" => creation'[v] = "none"
                          /\ creation'[v] # "delivered"
  BY DEF ConsumerCrash, Creation!PutBack, Creation!InProgress, Creation!Places,
     ProvisioningInv, TypeOK, Creation!TypeOK
<1>4. /\ handler' \in [Users -> Handler]
      /\ \A v \in Users : handler'[v].step = "idle" /\ handler'[v].at = 1
  BY SizeAssumption DEF ConsumerCrash, Idle, Handler
<1>5. TypeOK'
  BY <1>1, <1>2, <1>3, <1>4 DEF ProvisioningInv, TypeOK, Creation!TypeOK, Creation!Places
<1>6. FlowInv'
  BY <1>1, <1>3, <1>4 DEF ProvisioningInv, FlowInv, SignupMatches, HandlerMatches
<1>7. UniqueIdentities'
  BY <1>1 DEF ProvisioningInv, UniqueIdentities
<1>8. \A w \in Users : ~Busy(w)' /\ Working(w)'
  BY <1>4 DEF Working, Busy, MigrateSteps
<1>9. \A w \in Users : MarkSound(w)'
  BY <1>1, <1>2, <1>3, <1>4, <1>8
  DEF ProvisioningInv, DatabaseInv, MarkSound, NamesDistinct, Ready, Database
<1>10. DatabaseInv'
  BY <1>1, <1>2, <1>3, <1>8, <1>9, SameDatabases
<1> QED
  BY <1>5, <1>6, <1>7, <1>10 DEF ProvisioningInv

-----------------------------------------------------------------------------
(* The theorems.                                                            *)

\* Before the first signup there is no database, handler or message to speak of.
LEMMA InitInv == Init => ProvisioningInv
<1> SUFFICES ASSUME Init PROVE ProvisioningInv
  OBVIOUS
<1>1. TypeOK
  BY InitType
<1>2. \A u \in Users :
        /\ users[u].state = "none" /\ users[u].code = Null
        /\ signup[u].step = "idle" /\ creation[u] = "none"
        /\ handler[u].step = "idle" /\ handler[u].at = 1
  BY DEF Init, Creation!Init, Idle
<1>3. \A d \in Databases : databases[d].exists = FALSE /\ databases[d].applied = {}
  BY DEF Init, NoDatabase
<1>4. FlowInv
  BY <1>2 DEF FlowInv, SignupMatches, HandlerMatches
<1>5. DatabaseInv
  BY <1>2, <1>3 DEF DatabaseInv, Working, Busy, MigrateSteps, Owned, MarkSound, Ready,
     NoDropYet, MigrationsInOrder
<1>6. UniqueIdentities
  BY <1>2 DEF UniqueIdentities
<1> QED
  BY <1>1, <1>4, <1>5, <1>6 DEF ProvisioningInv

\* Every step of a signup, of a handler or of the broker preserves the invariant.
LEMMA StepInv == ProvisioningInv /\ [Next]_vars => ProvisioningInv'
<1> SUFFICES ASSUME ProvisioningInv, [Next]_vars PROVE ProvisioningInv'
  OBVIOUS
<1>1. CASE \E u \in Users :
             \/ \E email \in Emails, role \in Roles, code \in Codes \cup {Null} :
                   StartSignup(u, email, role, code)
             \/ CheckEmail(u) \/ CheckTenantCode(u) \/ PublishCreation(u)
             \/ PublishFails(u) \/ AbortSignup(u)
             \/ StoreMessage(u) \/ LoseMessage(u) \/ AckMessage(u)
  BY <1>1, SignupStep
<1>2. CASE \E u \in Users :
             \/ InsertUser(u)
             \/ \E email \in Emails, role \in Roles : UpdateUser(u, email, role)
             \/ RemoveUser(u)
  BY <1>2, UserStep
<1>3. CASE \E u \in Users :
             \/ DeliverMessage(u) \/ ConnectTenant(u) \/ CheckMigration(u) \/ Disconnect(u)
             \/ HandlerFails(u) \/ MarkMissing(u)
  BY <1>3, HandlerQuietStep
<1>4. CASE \E u \in Users : CreateDatabase(u)
  BY <1>4, CreateStep
<1>5. CASE \E u \in Users :
             RecordStart(u) \/ RunStatements(u) \/ FinishMigration(u) \/ MigrationFails(u)
  BY <1>5, MigrateStep
<1>6. CASE \E u \in Users, dropped \in BOOLEAN : DropDatabase(u, dropped)
  BY <1>6, DropStep
<1>7. CASE \E u \in Users : MarkCreated(u)
  BY <1>7, MarkStep
<1>8. CASE ConsumerCrash
  BY <1>8, CrashStep
<1>9. CASE UNCHANGED vars
  <2>1. UNCHANGED <<users, signup, creation, handler, databases, faults, updates>>
    BY <1>9 DEF vars, bounds
  <2>2. TypeOK' /\ FlowInv' /\ UniqueIdentities'
    BY <2>1 DEF ProvisioningInv, TypeOK, Creation!TypeOK, Creation!Places, FlowInv,
       SignupMatches, HandlerMatches, UniqueIdentities
  <2>3. \A w \in Users : handler'[w] = handler[w] /\ (Ready(w)' => Ready(w))
    BY <2>1 DEF Ready
  <2>4. DatabaseInv'
    BY <2>1, <2>3, SameDatabases
  <2> QED
    BY <2>2, <2>4 DEF ProvisioningInv
<1> QED
  BY <1>1, <1>2, <1>3, <1>4, <1>5, <1>6, <1>7, <1>8, <1>9
  DEF Next, SignupContinues, MessageContinues, HandlerContinues

\* ProvisioningInv holds throughout.
THEOREM ProvisioningInvariant == Spec => []ProvisioningInv
<1>1. Init => ProvisioningInv
  BY InitInv
<1>2. ProvisioningInv /\ [Next]_vars => ProvisioningInv'
  BY StepInv
<1> QED
  BY <1>1, <1>2, PTL DEF Spec

\* The variables keep their types; in particular the migration loop of the consumer
\* never runs past the last migration (TypeOK).
THEOREM ProvisioningTyped == Spec => []TypeOK
<1>1. ProvisioningInv => TypeOK
  BY DEF ProvisioningInv
<1> QED
  BY <1>1, ProvisioningInvariant, PTL

\* No two active users share an e-mail or a tenantCode, however signups and updates
\* interleave between the checks and the insertion (UniqueIdentities).
THEOREM IdentitiesUnique == Spec => []UniqueIdentities
<1>1. ProvisioningInv => UniqueIdentities
  BY DEF ProvisioningInv
<1> QED
  BY <1>1, ProvisioningInvariant, PTL

\* At most one handler migrates or drops a database, whatever is redelivered and
\* whichever codes name the same database (SingleMigrator).
THEOREM ProvisioningSingleMigrator == Spec => []SingleMigrator
<1>1. ProvisioningInv => SingleMigrator
  BY DEF ProvisioningInv, DatabaseInv, Working, Busy, SingleMigrator
<1> QED
  BY <1>1, ProvisioningInvariant, PTL

\* A tenant database holds a prefix of the migrations (MigrationsInOrder).
THEOREM ProvisioningInOrder == Spec => []MigrationsInOrder
<1>1. ProvisioningInv => MigrationsInOrder
  BY DEF ProvisioningInv, DatabaseInv
<1> QED
  BY <1>1, ProvisioningInvariant, PTL

\* What the mark rests on, told of the user's row.
LEMMA ReadyNames ==
    ASSUME ProvisioningInv, NEW u \in Users, Ready(u)
    PROVE  DbName[users[u].code] = Database(u) /\ MarkSound(u)
<1>1. users[u].state # "none"
  BY DEF Ready
<1>2. users[u].code = signup[u].code
  BY <1>1 DEF ProvisioningInv, FlowInv, SignupMatches
<1> QED
  BY <1>2 DEF Database, ProvisioningInv, DatabaseInv

\* While the codes name different databases, a tenant that was told its database is
\* ready keeps one, through failures, redeliveries and drops (ReadyDatabaseExists).
THEOREM ReadyKeepsDatabase == Spec => []ReadyDatabaseExists
<1>1. ProvisioningInv => ReadyDatabaseExists
  BY ReadyNames DEF MarkSound, ReadyDatabaseExists
<1> QED
  BY <1>1, ProvisioningInvariant, PTL

\* As long as nothing fails either, that database is the tenant's own and has every
\* migration, finished (CleanProvisioning).
THEOREM ProvisioningClean == Spec => []CleanProvisioning
<1>1. ProvisioningInv => CleanProvisioning
  BY ReadyNames DEF MarkSound, CleanProvisioning
<1> QED
  BY <1>1, ProvisioningInvariant, PTL

=============================================================================
