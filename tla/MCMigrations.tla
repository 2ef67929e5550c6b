---------------------------- MODULE MCMigrations ----------------------------
(* Instances of Migrations for TLC. *)
EXTENDS Migrations, TLC

\* Every fault under the lock, with one migration outside a transaction, and
\* the lock failing unnoticed.
Locking ==
    [no_tx |-> {2}, jobs |-> {"run", "undo"}, faults |-> {"sql", "abort", "commit", "crash"}]
Lockless ==
    [no_tx |-> {}, jobs |-> {"run", "skip"}, faults |-> {"sql", "crash", "lock_status"}]

EveryScenario == {Locking, Lockless}
FailedRollback == {[no_tx |-> {}, jobs |-> {"run"}, faults |-> {"sql", "abort"}]}

=============================================================================
