----------------------------- MODULE Migrations -----------------------------
(***************************************************************************)
(* Migrators that share one database.  Each runs sqlx's Migrator over the  *)
(* Migrate implementation of MssqlConnection: lock, list what is applied,  *)
(* apply, revert or skip migrations one at a time, unlock.                 *)
(*                                                                         *)
(* The Migrator loop and the SQL Server session are external: the loop     *)
(* returns at the first error without unlocking, and a session that ends   *)
(* rolls its transaction back and releases its application lock.           *)
(***************************************************************************)
EXTENDS Integers, FiniteSetsExt

CONSTANTS
    Migrator,   \* processes, each with its own connection
    None,       \* nobody, nothing
    LastVersion, \* bound: migrations are numbered 1 .. LastVersion
    MaxLocks,   \* bound: times a session takes the lock it already has
    Scenarios   \* which migrations, jobs and faults there may be together

JobNames ==
    {"run",     \* apply every migration not yet applied, in order
     "undo",    \* revert the latest applied migration
     "skip"}    \* record the next migration without running it

FaultNames ==
    {"sql",         \* a statement of a migration fails
     "abort",       \* and takes its transaction with it
     "commit",      \* a commit fails, or its answer is lost
     "crash",       \* a migrator or its connection dies
     "lock_status"} \* sp_getapplock reports failure by its return status

Version == 1 .. LastVersion

ASSUME MigratorAssumption == None \notin Migrator
ASSUME BoundsAssumption == LastVersion \in Nat /\ MaxLocks \in Nat
ASSUME ScenariosAssumption ==
    Scenarios \subseteq
        [no_tx : SUBSET Version, jobs : SUBSET JobNames, faults : SUBSET FaultNames]

VARIABLES
    scenario,   \* the one this behaviour is of
    holder,     \* the session that owns sqlx_migration_lock
    locks,      \* how often it took the lock
    rows,       \* versions in the migrations table
    ran,        \* how often each migration's SQL is in effect
    pc,         \* pc[m]: where migrator m is
    job,        \* job[m]: what it was asked for
    seen,       \* seen[m]: versions it believes applied
    depth,      \* depth[m]: its connection's transaction_depth
    tx          \* tx[m]: its session's transaction and the changes in it

lock == <<holder, locks>>
db == <<rows, ran>>
call == <<pc, job, seen>>
progress == <<lock, db, call, depth, tx>>
vars == <<scenario, progress>>

NoTx == scenario.no_tx      \* migrations that opted out of a transaction
Jobs == scenario.jobs       \* what migrators are asked for
Faults == scenario.faults   \* what may go wrong

\* Positions.  The first and second statement are the two of a migration pair.
Locked == {"list", "pick", "begin", "first", "second", "commit", "rollback", "unlock"}

\* A change: a migration's SQL run up or down, its row inserted or deleted.
Change == [kind : {"up", "down", "insert", "delete"}, version : Version]

Tran == [open : BOOLEAN, changes : SUBSET Change]
NoTran == [open |-> FALSE, changes |-> {}]
NewTran == [open |-> TRUE, changes |-> {}]

\* Runs are counted to 2, enough to tell once from twice.
MaxRan == 2

TypeOK ==
    /\ scenario \in Scenarios
    /\ holder \in Migrator \cup {None}
    /\ locks \in Nat
    /\ rows \subseteq Version
    /\ ran \in [Version -> 0 .. MaxRan]
    /\ pc \in [Migrator -> Locked \cup {"idle", "lock"}]
    /\ job \in [Migrator -> JobNames \cup {None}]
    /\ seen \in [Migrator -> SUBSET Version]
    /\ depth \in [Migrator -> Nat]
    /\ tx \in [Migrator -> Tran]

Init ==
    /\ scenario \in Scenarios
    /\ holder = None
    /\ locks = 0
    /\ rows = {}
    /\ ran = [v \in Version |-> 0]
    /\ pc = [m \in Migrator |-> "idle"]
    /\ job = [m \in Migrator |-> None]
    /\ seen = [m \in Migrator |-> {}]
    /\ depth = [m \in Migrator |-> 0]
    /\ tx = [m \in Migrator |-> NoTran]

-----------------------------------------------------------------------------
(* The database. *)

\* The versions that changes of a kind are of.
Versions(kind, changes) == {c.version : c \in {d \in changes : d.kind = kind}}

\* No two changes of a transaction undo one another, so their order is left out.
Persist(changes) ==
    /\ rows' = (rows \cup Versions("insert", changes)) \ Versions("delete", changes)
    /\ ran' = [v \in Version |->
                  IF v \in Versions("up", changes) /\ ran[v] < MaxRan THEN ran[v] + 1
                  ELSE IF v \in Versions("down", changes) /\ ran[v] > 0 THEN ran[v] - 1
                  ELSE ran[v]]

\* A change outside a transaction is durable at once.
Do(m, c) ==
    IF tx[m].open
    THEN /\ tx' = [tx EXCEPT ![m].changes = @ \cup {c}]
         /\ UNCHANGED <<rows, ran>>
    ELSE Persist({c}) /\ UNCHANGED tx

Inserting(m, v) == [kind |-> "insert", version |-> v] \in tx[m].changes

Goto(m, p) == pc' = [pc EXCEPT ![m] = p]

\* The call is over, and what it knew goes with it.
Return(m) ==
    /\ Goto(m, "idle")
    /\ job' = [job EXCEPT ![m] = None]
    /\ seen' = [seen EXCEPT ![m] = {}]

-----------------------------------------------------------------------------
(* Lock, list, unlock. *)

Start(m) ==
    /\ pc[m] = "idle"
    /\ holder = m => locks < MaxLocks
    /\ Goto(m, "lock")
    /\ \E j \in Jobs : job' = [job EXCEPT ![m] = j]
    /\ UNCHANGED <<lock, db, seen, depth, tx>>

\* A slip: the lock is taken in shared mode.
SlipLockShared(m) ==
    /\ pc[m] = "lock"
    /\ holder' = m
    /\ locks' = IF holder = m THEN locks + 1 ELSE 1
    /\ Goto(m, "list")
    /\ UNCHANGED <<db, job, seen, depth, tx>>

\* sp_getapplock waits for another owner; its own session gets the lock again.
Lock(m) ==
    /\ pc[m] = "lock"
    /\ holder \in {m, None}
    /\ holder' = m
    /\ locks' = locks + 1
    /\ Goto(m, "list")
    /\ UNCHANGED <<db, job, seen, depth, tx>>

\* The return status is not looked at: lock() is Ok without the lock.
LockStatusIgnored(m) ==
    /\ "lock_status" \in Faults
    /\ pc[m] = "lock"
    /\ Goto(m, "list")
    /\ UNCHANGED <<lock, db, job, seen, depth, tx>>

\* dirty_version never reports one; list_applied_migrations reads the table.
List(m) ==
    /\ pc[m] = "list"
    /\ seen' = [seen EXCEPT ![m] = rows]
    /\ Goto(m, "pick")
    /\ UNCHANGED <<lock, db, job, depth, tx>>

\* A slip: a lock of nobody, or of somebody else, is given back.
SlipUnlockNotHeld(m) ==
    /\ pc[m] = "unlock"
    /\ locks' = locks - 1
    /\ holder' = None
    /\ Return(m)
    /\ UNCHANGED <<db, depth, tx>>

\* sp_releaseapplock undoes one sp_getapplock, and fails without the lock.
Unlock(m) ==
    /\ pc[m] = "unlock"
    /\ IF holder = m
       THEN /\ locks' = locks - 1
            /\ holder' = IF locks = 1 THEN None ELSE m
       ELSE UNCHANGED lock
    /\ Return(m)
    /\ UNCHANGED <<db, depth, tx>>

-----------------------------------------------------------------------------
(* One migration. *)

Candidates(m) == IF job[m] = "undo" THEN seen[m] ELSE Version \ seen[m]
Target(m) == IF job[m] = "undo" THEN Max(Candidates(m)) ELSE Min(Candidates(m))

FirstOf(m) == [kind |-> IF job[m] = "undo" THEN "down" ELSE "up", version |-> Target(m)]
SecondOf(m) == [kind |-> IF job[m] = "undo" THEN "delete" ELSE "insert", version |-> Target(m)]

\* The branch of run_migration_pair on no_tx; skip goes to its only statement.
Pick(m) ==
    /\ pc[m] = "pick"
    /\ Goto(m, IF Candidates(m) = {} THEN "unlock"
               ELSE IF job[m] = "skip" THEN "second"
               ELSE IF Target(m) \in NoTx THEN "first" ELSE "begin")
    /\ UNCHANGED <<lock, db, job, seen, depth, tx>>

\* A slip: the depth is counted and nothing is sent.
SlipBeginNotSent(m) ==
    /\ pc[m] = "begin"
    /\ depth' = [depth EXCEPT ![m] = @ + 1]
    /\ Goto(m, "first")
    /\ UNCHANGED <<lock, db, job, seen, tx>>

\* begin_transaction.  At depth 1 it asks for a savepoint, which needs an open
\* transaction: none is left when a migration failed with a failed rollback or
\* a failed commit.
Begin(m) ==
    /\ pc[m] = "begin"
    /\ IF depth[m] = 0
       THEN /\ tx' = [tx EXCEPT ![m] = NewTran]
            /\ depth' = [depth EXCEPT ![m] = 1]
            /\ Goto(m, "first")
            /\ UNCHANGED <<job, seen>>
       ELSE Return(m) /\ UNCHANGED <<tx, depth>>
    /\ UNCHANGED <<lock, db>>

First(m) ==
    /\ pc[m] = "first"
    /\ Do(m, FirstOf(m))
    /\ Goto(m, "second")
    /\ UNCHANGED <<lock, job, seen, depth>>

\* The pair is in the database: run goes on to the next, the others are done.
PairDone(m) ==
    /\ seen' = [seen EXCEPT ![m] = IF job[m] = "undo" THEN @ \ {Target(m)} ELSE @ \cup {Target(m)}]
    /\ Goto(m, IF job[m] = "run" THEN "pick" ELSE "unlock")

\* A slip: the version column is no primary key.
SlipNoPrimaryKey(m) == FALSE

\* The primary key refuses a version that is there, and makes an insert wait
\* for another transaction that is inserting the same one.
Refused(m) == job[m] # "undo" /\ Target(m) \in rows
Blocked(m) == job[m] # "undo" /\ \E o \in Migrator \ {m} : Inserting(o, Target(m))

Second(m) ==
    /\ pc[m] = "second"
    /\ ~Refused(m) /\ ~Blocked(m)
    /\ Do(m, SecondOf(m))
    /\ IF tx[m].open
       THEN Goto(m, "commit") /\ UNCHANGED seen
       ELSE PairDone(m)
    /\ UNCHANGED <<lock, job, depth>>

Commit(m) ==
    /\ pc[m] = "commit"
    /\ tx[m].open
    /\ Persist(tx[m].changes)
    /\ tx' = [tx EXCEPT ![m] = NoTran]
    /\ depth' = [depth EXCEPT ![m] = 0]
    /\ PairDone(m)
    /\ UNCHANGED <<lock, job>>

\* A slip: the pair rolls back and its error is dropped too.
SlipErrorDropped(m) ==
    /\ pc[m] \in {"first", "second"}
    /\ "sql" \in Faults
    /\ tx' = [tx EXCEPT ![m] = NoTran]
    /\ depth' = [depth EXCEPT ![m] = 0]
    /\ PairDone(m)
    /\ UNCHANGED <<lock, db, job>>

\* The migration failed, with its transaction gone or committed after all.  The
\* error leaves before transaction_depth is counted down.
CommitFails(m) ==
    /\ "commit" \in Faults
    /\ pc[m] = "commit"
    /\ Persist(tx[m].changes) \/ UNCHANGED db
    /\ tx' = [tx EXCEPT ![m] = NoTran]
    /\ Return(m)
    /\ UNCHANGED <<lock, depth>>

\* A statement fails.  In a transaction the pair rolls back, unless the server
\* already did; without one a failing migration may have run in part.
Fails(m) ==
    /\ \/ pc[m] \in {"first", "second"} /\ "sql" \in Faults
       \/ pc[m] = "second" /\ Refused(m) /\ ~Blocked(m)
    /\ IF depth[m] > 0
       THEN Goto(m, "rollback") /\ UNCHANGED <<job, seen>>
       ELSE Return(m)
    /\ \/ UNCHANGED <<db, tx>>
       \/ /\ pc[m] = "first"
          /\ ~tx[m].open
          /\ Do(m, FirstOf(m))
       \/ /\ "abort" \in Faults
          /\ tx[m].open
          /\ tx' = [tx EXCEPT ![m] = NoTran]
          /\ UNCHANGED db
    /\ UNCHANGED <<lock, depth>>

\* A slip: the rollback is repeated until it succeeds.
SlipRollbackInsists(m) ==
    /\ pc[m] = "rollback"
    /\ IF tx[m].open
       THEN /\ tx' = [tx EXCEPT ![m] = NoTran]
            /\ depth' = [depth EXCEPT ![m] = 0]
            /\ Return(m)
       ELSE UNCHANGED <<call, tx, depth>>
    /\ UNCHANGED <<lock, db>>

\* The result of the rollback is dropped.  It fails when the transaction is
\* gone, and then transaction_depth stays where it was.
Rollback(m) ==
    /\ pc[m] = "rollback"
    /\ tx' = [tx EXCEPT ![m] = NoTran]
    /\ depth' = IF tx[m].open THEN [depth EXCEPT ![m] = 0] ELSE depth
    /\ Return(m)
    /\ UNCHANGED <<lock, db>>

\* The session ends, with its transaction and its lock.
End(m) ==
    /\ Return(m)
    /\ depth' = [depth EXCEPT ![m] = 0]
    /\ tx' = [tx EXCEPT ![m] = NoTran]
    /\ IF holder = m THEN holder' = None /\ locks' = 0 ELSE UNCHANGED lock
    /\ UNCHANGED db

Leave(m) == pc[m] = "idle" /\ End(m)

Crash(m) == "crash" \in Faults /\ pc[m] # "idle" /\ End(m)

-----------------------------------------------------------------------------
Step(m) ==
    \/ List(m) \/ Unlock(m)
    \/ Pick(m) \/ Begin(m) \/ First(m) \/ Second(m) \/ Commit(m)
    \/ CommitFails(m) \/ Fails(m) \/ Rollback(m)

Next ==
    /\ \E m \in Migrator :
           \/ Start(m) \/ Lock(m) \/ LockStatusIgnored(m)
           \/ Step(m)
           \/ Leave(m) \/ Crash(m)
    /\ UNCHANGED scenario

\* Servers answer, waiting sessions get the lock in turn, and a process that
\* rests ends its session sooner or later.
Fairness == \A m \in Migrator :
    /\ WF_progress(Step(m))
    /\ SF_progress(Lock(m))
    /\ SF_progress(Leave(m))

Spec == Init /\ [][Next]_vars

FairSpec == Spec /\ Fairness

-----------------------------------------------------------------------------
(* Properties. *)

Lockable == "lock_status" \notin Faults

\* Migrations are recorded in order and without gaps, whatever crashes, fails
\* or runs next to it (the lock, and the row in the migration's transaction).
RecordedInOrder == Lockable => rows = 1 .. Cardinality(rows)

\* What a migrator at work believes applied is what the table says, so it never
\* decides on a stale list (list_applied_migrations under lock).
SeenIsCurrent ==
    \A m \in Migrator :
        (Lockable /\ pc[m] \in {"pick", "begin", "first", "commit"}) => seen[m] = rows

\* The effect of a migration that runs in a transaction is in the schema exactly
\* when its row is in the table, whatever fails or crashes between the two
\* (run_migration_pair; not where migrations are skipped).
AppliedIffRecorded ==
    "skip" \notin Jobs => \A v \in Version \ NoTx : v \in rows <=> ran[v] > 0

\* No migration's SQL takes effect twice, not even when the lock fails unnoticed
\* and migrators race: the primary key of the table is the second line.
RanAtMostOnce == \A v \in Version \ NoTx : ran[v] <= 1

\* A migrator that asked for the lock gets an answer to its job.
EveryJobEnds == \A m \in Migrator : (Lockable /\ pc[m] = "lock") ~> pc[m] = "idle"

\* "A failed rollback just leaves the connection for drain_pending to recover":
\* the next migration on it can begin its transaction.
NextMigrationBegins == \A m \in Migrator : pc[m] = "begin" => depth[m] = 0

=============================================================================
