--------------------------- MODULE MigrationsProofs ---------------------------
(***************************************************************************)
(* Proofs about Migrations, for any number of migrators and versions and   *)
(* any choice of scenarios.                                                *)
(***************************************************************************)
EXTENDS Migrations, Extremes, FiniteSetTheorems

-----------------------------------------------------------------------------
(* The inductive invariant. *)

\* Whoever is between lock and unlock owns the lock, if it can be trusted.
LockShape ==
    /\ holder # None => locks > 0
    /\ Lockable => \A m \in Migrator : pc[m] \in Locked => holder = m

\* A migrator that has chosen the migration it works on.
HasTarget(m) == pc[m] \in {"begin", "first", "second", "commit"}

\* A migrator at work has a job, and one with a target has candidates for it;
\* skip has one statement only.
JobShape ==
    \A m \in Migrator :
        /\ pc[m] # "idle" => job[m] \in Jobs
        /\ HasTarget(m) => Candidates(m) # {}
        /\ pc[m] \in {"begin", "first", "commit"} => job[m] # "skip"

\* The changes a transaction holds are those of the statements that ran, and a
\* pair runs outside a transaction only where the migration asks for it.
Pair(m) ==
    /\ ~tx[m].open => tx[m].changes = {}
    /\ tx[m].open => /\ depth[m] > 0
                     /\ pc[m] \in {"first", "second", "commit", "rollback"}
    /\ pc[m] = "commit" => tx[m].open
    /\ pc[m] = "begin" => Target(m) \notin NoTx
    /\ pc[m] = "first" => tx[m].open = (Target(m) \notin NoTx)
    /\ pc[m] = "first" => tx[m].changes = {}
    /\ pc[m] = "second" =>
           IF tx[m].open
           THEN /\ job[m] # "skip"
                /\ Target(m) \notin NoTx
                /\ tx[m].changes = {FirstOf(m)}
           ELSE job[m] = "skip" \/ Target(m) \in NoTx
    /\ pc[m] = "commit" => /\ Target(m) \notin NoTx
                           /\ tx[m].changes = {FirstOf(m), SecondOf(m)}

PairShape == \A m \in Migrator : Pair(m)

\* A version that is being inserted is not there, and nobody else inserts it.
InsertShape ==
    \A m \in Migrator, v \in Version :
        Inserting(m, v) => /\ v \notin rows
                           /\ \A o \in Migrator \ {m} : ~Inserting(o, v)

\* What is not recorded is not in effect.
RanShape ==
    \A v \in Version \ NoTx : ran[v] <= 1 /\ (v \notin rows => ran[v] = 0)

\* Where nothing is skipped, what is recorded is in effect.
RecordedRan == "skip" \notin Jobs => \A v \in rows \ NoTx : ran[v] > 0

\* Whoever may change the record knows it.
SeenShape ==
    Lockable => \A m \in Migrator : (pc[m] = "pick" \/ HasTarget(m)) => seen[m] = rows

\* The record has no gaps.
OrderShape == Lockable => \E n \in 0 .. LastVersion : rows = 1 .. n

IInv ==
    /\ TypeOK
    /\ LockShape
    /\ JobShape
    /\ PairShape
    /\ InsertShape
    /\ RanShape
    /\ RecordedRan
    /\ SeenShape
    /\ OrderShape

-----------------------------------------------------------------------------
(* What the definitions of the module give. *)

\* A migrator with candidates has one of them as its target: the greatest one
\* when it reverts, the least one otherwise.
LEMMA TargetIsCandidate ==
    ASSUME TypeOK, NEW m \in Migrator, Candidates(m) # {}
    PROVE  /\ Target(m) \in Candidates(m)
           /\ Target(m) \in Version
           /\ job[m] = "undo" => \A v \in Candidates(m) : Target(m) >= v
           /\ job[m] # "undo" => \A v \in Candidates(m) : Target(m) <= v
<1>1. Candidates(m) \in SUBSET (1 .. LastVersion)
  BY DEF TypeOK, Candidates, Version
<1>2. LastVersion \in Nat
  BY BoundsAssumption
<1>3. /\ Max(Candidates(m)) \in Candidates(m)
      /\ \A v \in Candidates(m) : Max(Candidates(m)) >= v
  BY <1>1, <1>2, MaxIsGreatest
<1>4. /\ Min(Candidates(m)) \in Candidates(m)
      /\ \A v \in Candidates(m) : Min(Candidates(m)) <= v
  BY <1>1, <1>2, MinIsLeast
<1> QED
  BY <1>1, <1>3, <1>4 DEF Target, Version

\* A target depends on the job and the list only.
LEMMA TargetFrame ==
    ASSUME NEW m \in Migrator, job'[m] = job[m], seen'[m] = seen[m]
    PROVE  /\ Candidates(m)' = Candidates(m)
           /\ Target(m)' = Target(m)
           /\ FirstOf(m)' = FirstOf(m)
           /\ SecondOf(m)' = SecondOf(m)
BY DEF Candidates, Target, FirstOf, SecondOf

LEMMA VersionsOfOne ==
    ASSUME NEW kind, NEW c
    PROVE  Versions(kind, {c}) = IF c.kind = kind THEN {c.version} ELSE {}
<1>1. CASE c.kind = kind
  <2>1. {d \in {c} : d.kind = kind} = {c}
    BY <1>1
  <2> QED
    BY <1>1, <2>1 DEF Versions
<1>2. CASE c.kind # kind
  <2>1. {d \in {c} : d.kind = kind} = {}
    BY <1>2
  <2> QED
    BY <1>2, <2>1 DEF Versions
<1> QED
  BY <1>1, <1>2

LEMMA VersionsOfTwo ==
    ASSUME NEW kind, NEW c, NEW d
    PROVE  Versions(kind, {c, d}) = Versions(kind, {c}) \cup Versions(kind, {d})
<1>1. {e \in {c, d} : e.kind = kind} =
          {e \in {c} : e.kind = kind} \cup {e \in {d} : e.kind = kind}
  OBVIOUS
<1> QED
  BY <1>1 DEF Versions

\* The versions of the two statements of a pair, by kind.
LEMMA VersionsOfPair ==
    ASSUME NEW m \in Migrator, NEW kind \in {"up", "down", "insert", "delete"}
    PROVE  /\ Versions(kind, {FirstOf(m)}) =
                  IF kind = (IF job[m] = "undo" THEN "down" ELSE "up") THEN {Target(m)} ELSE {}
           /\ Versions(kind, {SecondOf(m)}) =
                  IF kind = (IF job[m] = "undo" THEN "delete" ELSE "insert")
                  THEN {Target(m)} ELSE {}
<1>1. /\ FirstOf(m).kind = (IF job[m] = "undo" THEN "down" ELSE "up")
      /\ FirstOf(m).version = Target(m)
  BY DEF FirstOf
<1>2. /\ SecondOf(m).kind = (IF job[m] = "undo" THEN "delete" ELSE "insert")
      /\ SecondOf(m).version = Target(m)
  BY DEF SecondOf
<1> QED
  BY <1>1, <1>2, VersionsOfOne

\* What the statements of a pair, together or alone, do to the database.
LEMMA PersistFirst ==
    ASSUME TypeOK, NEW m \in Migrator, Persist({FirstOf(m)})
    PROVE  /\ rows' = rows
           /\ ran' \in [Version -> 0 .. MaxRan]
           /\ \A v \in Version \ {Target(m)} : ran'[v] = ran[v]
<1>1. /\ Versions("insert", {FirstOf(m)}) = {}
      /\ Versions("delete", {FirstOf(m)}) = {}
  BY VersionsOfPair
<1>2. /\ Versions("up", {FirstOf(m)}) \subseteq {Target(m)}
      /\ Versions("down", {FirstOf(m)}) \subseteq {Target(m)}
  BY VersionsOfPair
<1>3. ran' \in [Version -> 0 .. MaxRan]
  BY DEF Persist, TypeOK, MaxRan
<1>4. \A v \in Version \ {Target(m)} : ran'[v] = ran[v]
  BY <1>2 DEF Persist
<1> QED
  BY <1>1, <1>3, <1>4 DEF Persist

LEMMA PersistSecond ==
    ASSUME TypeOK, NEW m \in Migrator, Persist({SecondOf(m)})
    PROVE  /\ rows' = IF job[m] = "undo" THEN rows \ {Target(m)} ELSE rows \cup {Target(m)}
           /\ ran' = ran
<1>1. /\ Versions("insert", {SecondOf(m)}) = IF job[m] = "undo" THEN {} ELSE {Target(m)}
      /\ Versions("delete", {SecondOf(m)}) = IF job[m] = "undo" THEN {Target(m)} ELSE {}
  BY VersionsOfPair
<1>2. /\ Versions("up", {SecondOf(m)}) = {}
      /\ Versions("down", {SecondOf(m)}) = {}
  BY VersionsOfPair
<1>3. ran' = ran
  BY <1>2 DEF Persist, TypeOK
<1> QED
  BY <1>1, <1>3 DEF Persist

LEMMA PersistPair ==
    ASSUME TypeOK, NEW m \in Migrator, Persist({FirstOf(m), SecondOf(m)}),
           Target(m) \in Version
    PROVE  /\ rows' = IF job[m] = "undo" THEN rows \ {Target(m)} ELSE rows \cup {Target(m)}
           /\ ran' \in [Version -> 0 .. MaxRan]
           /\ \A v \in Version \ {Target(m)} : ran'[v] = ran[v]
           /\ job[m] # "undo" /\ ran[Target(m)] = 0 => ran'[Target(m)] = 1
           /\ job[m] = "undo" /\ ran[Target(m)] <= 1 => ran'[Target(m)] = 0
<1> DEFINE both == {FirstOf(m), SecondOf(m)}
           t == Target(m)
<1>0. \A kind \in {"up", "down", "insert", "delete"} :
          Versions(kind, both) = Versions(kind, {FirstOf(m)}) \cup Versions(kind, {SecondOf(m)})
  BY VersionsOfTwo
<1>1. CASE job[m] = "undo"
  <2>1. /\ Versions("insert", both) = {} /\ Versions("delete", both) = {t}
        /\ Versions("up", both) = {} /\ Versions("down", both) = {t}
    BY <1>0, <1>1, VersionsOfPair
  <2>2. rows' = rows \ {t}
    BY <2>1 DEF Persist
  <2>3. ran' = [v \in Version |-> IF v = t /\ ran[v] > 0 THEN ran[v] - 1 ELSE ran[v]]
    BY <2>1 DEF Persist
  <2> HIDE DEF t, both
  <2>4. ran' \in [Version -> 0 .. MaxRan]
    BY <2>3 DEF TypeOK, MaxRan
  <2>5. ran[t] <= 1 => ran'[t] = 0
    BY <2>3 DEF TypeOK, MaxRan, t
  <2> QED
    BY <1>1, <2>2, <2>3, <2>4, <2>5 DEF t
<1>2. CASE job[m] # "undo"
  <2>1. /\ Versions("insert", both) = {t} /\ Versions("delete", both) = {}
        /\ Versions("up", both) = {t} /\ Versions("down", both) = {}
    BY <1>0, <1>2, VersionsOfPair
  <2>2. rows' = rows \cup {t}
    BY <2>1 DEF Persist
  <2>3. ran' = [v \in Version |-> IF v = t /\ ran[v] < MaxRan THEN ran[v] + 1 ELSE ran[v]]
    BY <2>1 DEF Persist
  <2> HIDE DEF t, both
  <2>4. ran' \in [Version -> 0 .. MaxRan]
    BY <2>3 DEF TypeOK, MaxRan
  <2>5. ran[t] = 0 => ran'[t] = 1
    BY <2>3 DEF MaxRan, t
  <2> QED
    BY <1>2, <2>2, <2>3, <2>4, <2>5 DEF t
<1> QED
  BY <1>1, <1>2

-----------------------------------------------------------------------------
(* What a step of a migrator changes. *)

\* One disjunct of Next.
Act(m) ==
    /\ Start(m) \/ Lock(m) \/ LockStatusIgnored(m) \/ Step(m) \/ Leave(m) \/ Crash(m)
    /\ UNCHANGED scenario

LEMMA NextIsAct == Next => \E m \in Migrator : Act(m)
BY DEF Next, Act

LEMMA ScenarioFrame ==
    ASSUME scenario' = scenario
    PROVE  NoTx' = NoTx /\ Jobs' = Jobs /\ Faults' = Faults /\ Lockable' = Lockable
BY DEF NoTx, Jobs, Faults, Lockable

\* A migrator's step leaves the calls and the sessions of the others alone.
LEMMA OthersFrame ==
    ASSUME TypeOK, NEW m \in Migrator, Act(m), NEW o \in Migrator \ {m}
    PROVE  /\ pc'[o] = pc[o] /\ job'[o] = job[o] /\ seen'[o] = seen[o]
           /\ depth'[o] = depth[o] /\ tx'[o] = tx[o]
<1> USE DEF TypeOK, call, lock, db, Return, Goto
<1>1. CASE Start(m)
  BY <1>1 DEF Start
<1>2. CASE Lock(m)
  BY <1>2 DEF Lock
<1>3. CASE LockStatusIgnored(m)
  BY <1>3 DEF LockStatusIgnored
<1>4. CASE List(m)
  BY <1>4 DEF List
<1>5. CASE Unlock(m)
  BY <1>5 DEF Unlock
<1>6. CASE Pick(m)
  BY <1>6 DEF Pick
<1>7. CASE Begin(m)
  BY <1>7 DEF Begin
<1>8. CASE First(m)
  BY <1>8 DEF First, Do
<1>9. CASE Second(m)
  BY <1>9 DEF Second, Do, PairDone
<1>10. CASE Commit(m)
  BY <1>10 DEF Commit, PairDone
<1>11. CASE CommitFails(m)
  BY <1>11 DEF CommitFails
<1>12. CASE Fails(m)
  BY <1>12 DEF Fails, Do
<1>13. CASE Rollback(m)
  BY <1>13 DEF Rollback
<1>14. CASE Leave(m) \/ Crash(m)
  BY <1>14 DEF Leave, Crash, End
<1> QED
  BY <1>1, <1>2, <1>3, <1>4, <1>5, <1>6, <1>7, <1>8, <1>9, <1>10, <1>11, <1>12, <1>13, <1>14
     DEF Act, Step

\* A migrator that is about to run a statement has a version to run it for.
LEMMA TargetIsVersion ==
    ASSUME TypeOK, JobShape, NEW m \in Migrator, HasTarget(m)
    PROVE  Target(m) \in Version /\ FirstOf(m) \in Change /\ SecondOf(m) \in Change
<1>1. Target(m) \in Version
  BY TargetIsCandidate DEF JobShape
<1> QED
  BY <1>1 DEF FirstOf, SecondOf, Change

\* The record after the pair of a migrator.
Recorded(m) == IF job[m] = "undo" THEN rows \ {Target(m)} ELSE rows \cup {Target(m)}

\* A step changes what is recorded in two places only: with the second statement
\* outside a transaction, and with a commit, which brings both statements.
LEMMA DbStep ==
    ASSUME IInv, NEW m \in Migrator, Act(m)
    PROVE  /\ ran' \in [Version -> 0 .. MaxRan]
           /\ \/ rows' = rows /\ \A v \in Version \ NoTx : ran'[v] = ran[v]
              \/ /\ pc[m] = "second" /\ ~tx[m].open /\ ~Refused(m) /\ ~Blocked(m)
                 /\ rows' = Recorded(m) /\ ran' = ran
              \/ /\ pc[m] = "commit" /\ tx'[m] = NoTran
                 /\ rows' = Recorded(m)
                 /\ \A v \in Version \ {Target(m)} : ran'[v] = ran[v]
                 /\ job[m] # "undo" /\ ran[Target(m)] = 0 => ran'[Target(m)] = 1
                 /\ job[m] = "undo" /\ ran[Target(m)] <= 1 => ran'[Target(m)] = 0
<1> USE DEF IInv
<1>0. ASSUME UNCHANGED db
      PROVE  /\ ran' \in [Version -> 0 .. MaxRan]
             /\ rows' = rows /\ \A v \in Version \ NoTx : ran'[v] = ran[v]
  BY <1>0 DEF db, TypeOK
<1>1. ASSUME pc[m] = "first", Do(m, FirstOf(m))
      PROVE  /\ ran' \in [Version -> 0 .. MaxRan]
             /\ rows' = rows /\ \A v \in Version \ NoTx : ran'[v] = ran[v]
  <2>1. CASE tx[m].open
    BY <1>0, <1>1, <2>1 DEF Do, db
  <2>2. CASE ~tx[m].open
    <3>1. Target(m) \in NoTx
      BY <1>1, <2>2 DEF PairShape, Pair
    <3>2. Persist({FirstOf(m)})
      BY <1>1, <2>2 DEF Do
    <3> QED
      BY <3>1, <3>2, PersistFirst
  <2> QED
    BY <2>1, <2>2
<1>2. CASE First(m)
  BY <1>1, <1>2 DEF First
<1>3. CASE Second(m)
  <2>1. CASE tx[m].open
    BY <1>0, <1>3, <2>1 DEF Second, Do, db
  <2>2. CASE ~tx[m].open
    <3>1. Persist({SecondOf(m)})
      BY <1>3, <2>2 DEF Second, Do
    <3>2. rows' = Recorded(m) /\ ran' = ran
      BY <3>1, PersistSecond DEF Recorded
    <3> QED
      BY <1>3, <2>2, <3>2 DEF Second, TypeOK
  <2> QED
    BY <2>1, <2>2
<1>4. ASSUME pc[m] = "commit", Persist(tx[m].changes), tx' = [tx EXCEPT ![m] = NoTran]
      PROVE  /\ ran' \in [Version -> 0 .. MaxRan]
             /\ pc[m] = "commit" /\ tx'[m] = NoTran
             /\ rows' = Recorded(m)
             /\ \A v \in Version \ {Target(m)} : ran'[v] = ran[v]
             /\ job[m] # "undo" /\ ran[Target(m)] = 0 => ran'[Target(m)] = 1
             /\ job[m] = "undo" /\ ran[Target(m)] <= 1 => ran'[Target(m)] = 0
  <2>1. Persist({FirstOf(m), SecondOf(m)})
    BY <1>4 DEF PairShape, Pair
  <2>2. Target(m) \in Version
    BY <1>4, TargetIsVersion DEF HasTarget
  <2>3. tx'[m] = NoTran
    BY <1>4 DEF TypeOK
  <2> QED
    BY <1>4, <2>1, <2>2, <2>3, PersistPair DEF Recorded
<1>5. CASE Commit(m)
  BY <1>4, <1>5 DEF Commit
<1>6. CASE CommitFails(m)
  BY <1>0, <1>4, <1>6 DEF CommitFails
<1>7. CASE Fails(m)
  <2>1. UNCHANGED db \/ (pc[m] = "first" /\ Do(m, FirstOf(m)))
    BY <1>7 DEF Fails, db
  <2> QED
    BY <1>0, <1>1, <2>1
<1>8. CASE ~(First(m) \/ Second(m) \/ Commit(m) \/ CommitFails(m) \/ Fails(m))
  <2>1. UNCHANGED db
    BY <1>8 DEF Act, Step, Start, Lock, LockStatusIgnored, List, Unlock, Pick, Begin,
                Rollback, Leave, Crash, End, db
  <2> QED
    BY <1>0, <2>1
<1> QED
  BY <1>2, <1>3, <1>5, <1>6, <1>7, <1>8

-----------------------------------------------------------------------------
(* Every step preserves the invariant. *)

LEMMA TypeNext ==
    ASSUME IInv, NEW m \in Migrator, Act(m)
    PROVE  TypeOK'
<1> USE DEF IInv, TypeOK, call, lock, db, Return, Goto, Locked, Lockable
<1>1. scenario' \in Scenarios /\ Jobs \subseteq JobNames
  BY ScenariosAssumption DEF Act, Jobs
<1>2. ran' \in [Version -> 0 .. MaxRan]
  BY DbStep
<1>3. HasTarget(m) => Target(m) \in Version /\ FirstOf(m) \in Change /\ SecondOf(m) \in Change
  BY TargetIsVersion
<1>4. rows' \subseteq Version
  BY <1>3, DbStep DEF Recorded, HasTarget
<1>5. NoTran \in Tran /\ NewTran \in Tran
  BY DEF NoTran, NewTran, Tran
<1> USE <1>1, <1>2, <1>4, <1>5
<1>6. CASE Start(m)
  BY <1>6 DEF Start
<1>7. CASE Lock(m)
  BY <1>7 DEF Lock
<1>8. CASE LockStatusIgnored(m)
  BY <1>8 DEF LockStatusIgnored
<1>9. CASE List(m)
  BY <1>9 DEF List
<1>10. CASE Unlock(m)
  <2>1. holder = m => locks > 0
    BY MigratorAssumption DEF LockShape
  <2> QED
    BY <1>10, <2>1 DEF Unlock
<1>11. CASE Pick(m)
  BY <1>11 DEF Pick
<1>12. CASE Begin(m)
  BY <1>12 DEF Begin
<1>13. ASSUME NEW c \in Change, Do(m, c)
       PROVE  tx' \in [Migrator -> Tran]
  <2>1. tx[m] \in Tran
    OBVIOUS
  <2>2. [tx[m] EXCEPT !.changes = @ \cup {c}] \in Tran
    BY <1>13, <2>1 DEF Tran
  <2>3. CASE tx[m].open
    <3>1. tx' = [tx EXCEPT ![m] = [tx[m] EXCEPT !.changes = @ \cup {c}]]
      BY <1>13, <2>3 DEF Do
    <3> QED
      BY <2>2, <3>1
  <2>4. CASE ~tx[m].open
    BY <1>13, <2>4 DEF Do
  <2> QED
    BY <2>3, <2>4
<1>14. CASE First(m)
  BY <1>3, <1>13, <1>14 DEF First, HasTarget
<1>15. CASE Second(m)
  BY <1>3, <1>13, <1>15 DEF Second, HasTarget, PairDone
<1>16. CASE Commit(m)
  BY <1>3, <1>16 DEF Commit, HasTarget, PairDone
<1>17. CASE CommitFails(m)
  BY <1>17 DEF CommitFails
<1>18. CASE Fails(m)
  <2>1. pc[m] = "first" => FirstOf(m) \in Change
    BY <1>3 DEF HasTarget
  <2>2. \/ tx' = tx \/ tx' = [tx EXCEPT ![m] = NoTran]
        \/ pc[m] = "first" /\ Do(m, FirstOf(m))
    BY <1>18 DEF Fails
  <2>3. tx' \in [Migrator -> Tran]
    BY <1>13, <2>1, <2>2
  <2> QED
    BY <1>18, <2>3 DEF Fails
<1>19. CASE Rollback(m)
  BY <1>19 DEF Rollback
<1>20. CASE Leave(m) \/ Crash(m)
  BY <1>20 DEF Leave, Crash, End
<1> QED
  BY <1>6, <1>7, <1>8, <1>9, <1>10, <1>11, <1>12, <1>14, <1>15, <1>16, <1>17, <1>18, <1>19, <1>20
     DEF Act, Step

\* What a step does to the lock, and where it leaves the migrator.
LEMMA LockStep ==
    ASSUME IInv, NEW m \in Migrator, Act(m)
    PROVE  \/ /\ UNCHANGED lock
              /\ pc'[m] \in Locked => pc[m] \in Locked \/ ~Lockable
           \/ holder \in {m, None} /\ holder' = m /\ locks' = locks + 1
           \/ /\ holder = m /\ pc'[m] \notin Locked
              /\ (holder' = None \/ (holder' = m /\ locks' > 0))
<1> USE DEF IInv, TypeOK, call, lock, db, Return, Goto, Locked
<1>1. CASE Unlock(m)
  BY <1>1, MigratorAssumption DEF Unlock, LockShape
<1>2. CASE Leave(m) \/ Crash(m)
  BY <1>2 DEF Leave, Crash, End
<1>3. CASE Lock(m)
  BY <1>3 DEF Lock
<1>4. CASE LockStatusIgnored(m)
  BY <1>4 DEF LockStatusIgnored, Lockable
<1>5. CASE Start(m)
  BY <1>5 DEF Start
<1>6. CASE List(m) \/ Pick(m) \/ Begin(m) \/ Rollback(m)
  BY <1>6 DEF List, Pick, Begin, Rollback
<1>7. CASE First(m) \/ Second(m) \/ Commit(m) \/ CommitFails(m) \/ Fails(m)
  BY <1>7 DEF First, Second, Commit, CommitFails, Fails
<1> QED
  BY <1>1, <1>2, <1>3, <1>4, <1>5, <1>6, <1>7 DEF Act, Step

LEMMA LockNext ==
    ASSUME IInv, NEW m \in Migrator, Act(m)
    PROVE  LockShape'
<1> USE DEF IInv, LockShape, lock
<1>0. Lockable' = Lockable
  BY ScenarioFrame DEF Act
<1>1. holder' # None => locks' > 0
  BY LockStep DEF TypeOK
<1>2. ASSUME Lockable, NEW o \in Migrator, pc'[o] \in Locked
      PROVE  holder' = o
  <2>1. CASE o = m
    BY <1>2, <2>1, LockStep
  <2>2. CASE o # m
    <3>1. holder = o
      BY <1>2, <2>2, OthersFrame
    <3> QED
      BY <2>2, <3>1, LockStep, MigratorAssumption
  <2> QED
    BY <2>1, <2>2
<1> QED
  BY <1>0, <1>1, <1>2

LEMMA JobNext ==
    ASSUME IInv, NEW m \in Migrator, Act(m)
    PROVE  JobShape'
<1> USE DEF IInv
<1>0. Jobs' = Jobs
  BY ScenarioFrame DEF Act
<1>1. /\ pc'[m] # "idle" => job'[m] \in Jobs
      /\ HasTarget(m)' => Candidates(m)' # {}
      /\ pc'[m] \in {"begin", "first", "commit"} => job'[m] # "skip"
  <2> USE DEF JobShape, TypeOK, call, lock, db, Return, Goto, HasTarget
  <2>1. CASE Start(m)
    BY <2>1 DEF Start
  <2>2. CASE Lock(m) \/ LockStatusIgnored(m)
    BY <2>2 DEF Lock, LockStatusIgnored
  <2>3. CASE List(m)
    BY <2>3 DEF List
  <2>4. CASE Unlock(m) \/ Leave(m) \/ Crash(m)
    BY <2>4 DEF Unlock, Leave, Crash, End
  <2>5. CASE Pick(m)
    <3>1. Candidates(m)' = Candidates(m)
      BY <2>5, TargetFrame DEF Pick
    <3> QED
      BY <2>5, <3>1 DEF Pick
  <2>6. CASE Begin(m) \/ First(m)
    <3>1. job'[m] = job[m] /\ seen'[m] = seen[m] => Candidates(m)' = Candidates(m)
      BY TargetFrame
    <3> QED
      BY <2>6, <3>1 DEF Begin, First
  <2>7. CASE Second(m)
    <3>1. job'[m] = job[m] /\ seen'[m] = seen[m] => Candidates(m)' = Candidates(m)
      BY TargetFrame
    <3>2. tx[m].open => job[m] # "skip"
      BY <2>7 DEF Second, PairShape, Pair
    <3> QED
      BY <2>7, <3>1, <3>2 DEF Second, PairDone
  <2>8. CASE Commit(m)
    BY <2>8 DEF Commit, PairDone
  <2>9. CASE CommitFails(m) \/ Fails(m) \/ Rollback(m)
    BY <2>9 DEF CommitFails, Fails, Rollback
  <2> QED
    BY <2>1, <2>2, <2>3, <2>4, <2>5, <2>6, <2>7, <2>8, <2>9 DEF Act, Step
<1>2. ASSUME NEW o \in Migrator \ {m}
      PROVE  /\ pc'[o] # "idle" => job'[o] \in Jobs
             /\ HasTarget(o)' => Candidates(o)' # {}
             /\ pc'[o] \in {"begin", "first", "commit"} => job'[o] # "skip"
  <2>1. pc'[o] = pc[o] /\ job'[o] = job[o] /\ seen'[o] = seen[o]
    BY OthersFrame
  <2>2. Candidates(o)' = Candidates(o)
    BY <2>1, TargetFrame
  <2> QED
    BY <2>1, <2>2 DEF JobShape, HasTarget
<1> QED
  BY <1>0, <1>1, <1>2 DEF JobShape

LEMMA PairNext ==
    ASSUME IInv, NEW m \in Migrator, Act(m)
    PROVE  PairShape'
<1> USE DEF IInv
<1>0. NoTx' = NoTx
  BY ScenarioFrame DEF Act
<1>1. Pair(m)
  BY DEF PairShape
<1>2. job'[m] = job[m] /\ seen'[m] = seen[m] =>
          Target(m)' = Target(m) /\ FirstOf(m)' = FirstOf(m) /\ SecondOf(m)' = SecondOf(m)
  BY TargetFrame
<1>3. /\ NoTran.open = FALSE /\ NoTran.changes = {}
      /\ NewTran.open = TRUE /\ NewTran.changes = {}
  BY DEF NoTran, NewTran
<1>4. tx[m] \in Tran
  BY DEF TypeOK
<1>5. ASSUME NEW c, Do(m, c)
      PROVE  /\ tx'[m].open = tx[m].open
             /\ tx'[m].changes = IF tx[m].open THEN tx[m].changes \cup {c} ELSE tx[m].changes
  <2>1. CASE tx[m].open
    <3>1. tx'[m] = [tx[m] EXCEPT !.changes = @ \cup {c}]
      BY <1>5, <2>1 DEF Do, TypeOK
    <3> QED
      BY <1>4, <2>1, <3>1 DEF Tran
  <2>2. CASE ~tx[m].open
    BY <1>5, <2>2 DEF Do
  <2> QED
    BY <2>1, <2>2
<1>6. Pair(m)'
  <2> USE DEF TypeOK, call, lock, db, Return, Goto
  <2>1. CASE Start(m) \/ Lock(m) \/ LockStatusIgnored(m) \/ List(m) \/ Unlock(m)
    BY <1>1, <2>1 DEF Start, Lock, LockStatusIgnored, List, Unlock, Pair
  <2>2. CASE Pick(m)
    <3>1. tx[m].open = FALSE /\ tx'[m] = tx[m] /\ tx[m].changes = {}
      <4>1. tx[m].open \in BOOLEAN
        BY <1>4 DEF Tran
      <4> QED
        BY <1>1, <2>2, <4>1 DEF Pick, Pair
    <3>2. job'[m] = job[m] /\ Target(m)' = Target(m)
      BY <1>2, <2>2 DEF Pick
    <3>3. pc'[m] = IF Candidates(m) = {} THEN "unlock"
                   ELSE IF job[m] = "skip" THEN "second"
                   ELSE IF Target(m) \in NoTx THEN "first" ELSE "begin"
      BY <2>2 DEF Pick
    <3> QED
      BY <1>0, <3>1, <3>2, <3>3 DEF Pair
  <2>3. CASE Begin(m)
    <3>1. CASE depth[m] = 0
      <4>1. /\ tx'[m] = NewTran /\ depth'[m] = 1 /\ pc'[m] = "first"
            /\ job'[m] = job[m] /\ seen'[m] = seen[m]
        BY <2>3, <3>1 DEF Begin
      <4>2. Target(m)' \notin NoTx'
        BY <1>0, <1>1, <1>2, <2>3, <4>1 DEF Begin, Pair
      <4>3. tx'[m].open = TRUE /\ tx'[m].changes = {} /\ depth'[m] > 0
        BY <1>3, <4>1
      <4>4. tx'[m].open = (Target(m)' \notin NoTx')
        BY <4>2, <4>3
      <4>5. pc'[m] = "first"
        BY <4>1
      <4> QED
        BY <4>3, <4>4, <4>5 DEF Pair
    <3>2. CASE depth[m] # 0
      BY <1>1, <2>3, <3>2 DEF Begin, Pair
    <3> QED
      BY <3>1, <3>2
  <2>4. CASE First(m)
    <3>1. /\ tx'[m].open = tx[m].open
          /\ tx'[m].changes = IF tx[m].open THEN tx[m].changes \cup {FirstOf(m)}
                                            ELSE tx[m].changes
      BY <1>5, <2>4 DEF First
    <3>2. pc'[m] = "second" /\ depth'[m] = depth[m] /\ job'[m] = job[m] /\ seen'[m] = seen[m]
      BY <2>4 DEF First
    <3>3. job[m] # "skip"
      BY <2>4 DEF First, JobShape
    <3> QED
      BY <1>0, <1>1, <1>2, <2>4, <3>1, <3>2, <3>3 DEF First, Pair
  <2>5. CASE Second(m)
    <3>1. /\ tx'[m].open = tx[m].open
          /\ tx'[m].changes = IF tx[m].open THEN tx[m].changes \cup {SecondOf(m)}
                                            ELSE tx[m].changes
      BY <1>5, <2>5 DEF Second
    <3>2. depth'[m] = depth[m] /\ job'[m] = job[m]
      BY <2>5 DEF Second
    <3>3. CASE tx[m].open
      BY <1>0, <1>1, <1>2, <2>5, <3>1, <3>2, <3>3 DEF Second, Pair
    <3>4. CASE ~tx[m].open
      BY <1>1, <2>5, <3>1, <3>2, <3>4 DEF Second, PairDone, Pair
    <3> QED
      BY <3>3, <3>4
  <2>6. CASE Commit(m)
    BY <1>3, <2>6 DEF Commit, PairDone, Pair
  <2>7. CASE CommitFails(m) \/ Rollback(m) \/ Leave(m) \/ Crash(m)
    BY <1>3, <2>7 DEF CommitFails, Rollback, Leave, Crash, End, Pair
  <2>8. CASE Fails(m)
    <3>1. \/ tx' = tx
          \/ tx'[m] = NoTran
          \/ ~tx[m].open /\ Do(m, FirstOf(m))
      BY <2>8 DEF Fails
    <3>2. tx'[m] = tx[m] \/ tx'[m] = NoTran
      BY <3>1 DEF Do
    <3>3. depth'[m] = depth[m] /\ pc'[m] = IF depth[m] > 0 THEN "rollback" ELSE "idle"
      BY <2>8 DEF Fails
    <3> QED
      BY <1>1, <1>3, <3>2, <3>3 DEF Pair
  <2> QED
    BY <2>1, <2>2, <2>3, <2>4, <2>5, <2>6, <2>7, <2>8 DEF Act, Step
<1>7. ASSUME NEW o \in Migrator \ {m}
      PROVE  Pair(o)'
  <2>1. /\ pc'[o] = pc[o] /\ job'[o] = job[o] /\ seen'[o] = seen[o]
        /\ depth'[o] = depth[o] /\ tx'[o] = tx[o]
    BY OthersFrame
  <2>2. Target(o)' = Target(o) /\ FirstOf(o)' = FirstOf(o) /\ SecondOf(o)' = SecondOf(o)
    BY <2>1, TargetFrame
  <2>3. Pair(o)
    BY DEF PairShape
  <2> QED
    BY <1>0, <2>1, <2>2, <2>3 DEF Pair
<1> QED
  BY <1>6, <1>7 DEF PairShape

\* A step adds an insert only for a version that is not there and that nobody
\* else inserts.
LEMMA InsertStep ==
    ASSUME IInv, NEW m \in Migrator, Act(m), NEW v \in Version,
           Inserting(m, v)', ~Inserting(m, v)
    PROVE  /\ v \notin rows /\ rows' = rows
           /\ \A o \in Migrator \ {m} : ~Inserting(o, v)
<1> USE DEF IInv, TypeOK
<1> DEFINE insert == [kind |-> "insert", version |-> v]
<1>1. insert \in tx'[m].changes /\ insert \notin tx[m].changes
  BY DEF Inserting
<1>2. ASSUME NEW c, Do(m, c)
      PROVE  tx[m].open /\ insert = c /\ rows' = rows
  <2>1. tx[m] \in Tran
    OBVIOUS
  <2>2. CASE tx[m].open
    <3>1. tx'[m].changes = tx[m].changes \cup {c}
      BY <1>2, <2>1, <2>2 DEF Do, Tran
    <3> QED
      BY <1>1, <1>2, <2>2, <3>1 DEF Do
  <2>3. CASE ~tx[m].open
    BY <1>1, <1>2, <2>3 DEF Do
  <2> QED
    BY <2>2, <2>3
<1>3. NoTran.changes = {} /\ NewTran.changes = {}
  BY DEF NoTran, NewTran
<1>4. ~Do(m, FirstOf(m))
  <2>1. FirstOf(m).kind # "insert" /\ insert.kind = "insert"
    BY DEF FirstOf
  <2> QED
    BY <1>2, <2>1
<1>5. Second(m)
  <2>1. tx'[m] # tx[m] /\ tx'[m] # NoTran /\ tx'[m] # NewTran
    BY <1>1, <1>3
  <2>2. ~Fails(m)
    BY <1>4, <2>1 DEF Fails
  <2>3. ~Begin(m) /\ ~First(m) /\ ~Commit(m) /\ ~CommitFails(m) /\ ~Rollback(m)
    BY <1>4, <2>1 DEF Begin, First, Commit, CommitFails, Rollback
  <2>4. ~Leave(m) /\ ~Crash(m)
    BY <2>1 DEF Leave, Crash, End
  <2> QED
    BY <2>1, <2>2, <2>3, <2>4
       DEF Act, Step, Start, Lock, LockStatusIgnored, List, Unlock, Pick
<1>6. insert = SecondOf(m) /\ rows' = rows
  BY <1>2, <1>5 DEF Second
<1>7. job[m] # "undo" /\ Target(m) = v
  <2>1. insert.kind = "insert" /\ insert.version = v
    OBVIOUS
  <2> QED
    BY <1>6, <2>1 DEF SecondOf
<1> QED
  BY <1>5, <1>6, <1>7 DEF Second, Refused, Blocked

LEMMA InsertNext ==
    ASSUME IInv, NEW m \in Migrator, Act(m)
    PROVE  InsertShape'
<1> USE DEF IInv
<1>1. \A o \in Migrator \ {m}, v \in Version : Inserting(o, v)' <=> Inserting(o, v)
  BY OthersFrame DEF Inserting
<1>2. ASSUME NEW o \in Migrator, NEW v \in Version, Inserting(o, v)'
      PROVE  v \notin rows'
  <2>1. CASE o = m /\ ~Inserting(m, v)
    BY <1>2, <2>1, InsertStep
  <2>2. CASE Inserting(o, v)
    <3>1. v \notin rows
      BY <2>2 DEF InsertShape
    <3>2. CASE pc[m] = "second" /\ ~tx[m].open /\ ~Blocked(m) /\ rows' = Recorded(m)
      <4>1. o # m
        BY <2>2, <3>2 DEF PairShape, Pair, Inserting
      <4> QED
        BY <2>2, <3>1, <3>2, <4>1 DEF Recorded, Blocked
    <3>3. CASE pc[m] = "commit" /\ tx'[m] = NoTran /\ rows' = Recorded(m)
      <4>1. o # m
        BY <1>2, <3>3 DEF Inserting, NoTran
      <4>2. job[m] # "undo" => Inserting(m, Target(m)) /\ Target(m) \in Version
        <5>1. SecondOf(m) \in tx[m].changes
          BY <3>3 DEF PairShape, Pair
        <5> QED
          BY <3>3, <5>1, TargetIsVersion DEF Inserting, SecondOf, HasTarget
      <4> QED
        BY <2>2, <3>1, <3>3, <4>1, <4>2 DEF Recorded, InsertShape
    <3> QED
      BY <3>1, <3>2, <3>3, DbStep
  <2> QED
    BY <1>1, <1>2, <2>1, <2>2
<1>3. ASSUME NEW o \in Migrator, NEW p \in Migrator \ {o}, NEW v \in Version,
             Inserting(o, v)', Inserting(p, v)'
      PROVE  FALSE
  <2>1. ~(Inserting(o, v) /\ Inserting(p, v))
    BY DEF InsertShape
  <2>2. CASE o = m /\ ~Inserting(m, v)
    BY <1>1, <1>3, <2>2, InsertStep
  <2>3. CASE p = m /\ ~Inserting(m, v)
    BY <1>1, <1>3, <2>3, InsertStep
  <2> QED
    BY <1>1, <1>3, <2>1, <2>2, <2>3
<1> QED
  BY <1>2, <1>3 DEF InsertShape

LEMMA RanNext ==
    ASSUME IInv, NEW m \in Migrator, Act(m)
    PROVE  RanShape'
<1> USE DEF IInv
<1>0. NoTx' = NoTx
  BY ScenarioFrame DEF Act
<1> SUFFICES ASSUME NEW v \in Version \ NoTx
             PROVE  ran'[v] <= 1 /\ (v \notin rows' => ran'[v] = 0)
  BY <1>0 DEF RanShape
<1>1. ran[v] <= 1 /\ (v \notin rows => ran[v] = 0) /\ ran[v] \in 0 .. MaxRan
  BY DEF RanShape, TypeOK
<1>2. CASE rows' = rows /\ ran'[v] = ran[v]
  BY <1>1, <1>2
<1>3. CASE pc[m] = "second" /\ ~tx[m].open /\ rows' = Recorded(m) /\ ran' = ran
  <2>1. job[m] = "undo" => Target(m) \in NoTx
    BY <1>3 DEF PairShape, Pair
  <2> QED
    BY <1>1, <1>3, <2>1 DEF Recorded
<1>4. CASE /\ pc[m] = "commit" /\ rows' = Recorded(m)
           /\ \A w \in Version \ {Target(m)} : ran'[w] = ran[w]
           /\ job[m] # "undo" /\ ran[Target(m)] = 0 => ran'[Target(m)] = 1
           /\ job[m] = "undo" /\ ran[Target(m)] <= 1 => ran'[Target(m)] = 0
  <2>1. CASE v # Target(m)
    BY <1>1, <1>4, <2>1 DEF Recorded
  <2>2. CASE v = Target(m) /\ job[m] = "undo"
    BY <1>1, <1>4, <2>2 DEF Recorded
  <2>3. CASE v = Target(m) /\ job[m] # "undo"
    <3>1. Inserting(m, v)
      BY <1>4, <2>3 DEF PairShape, Pair, SecondOf, Inserting
    <3>2. ran[v] = 0
      BY <1>1, <3>1 DEF InsertShape
    <3> QED
      BY <1>4, <2>3, <3>2 DEF Recorded
  <2> QED
    BY <2>1, <2>2, <2>3
<1> QED
  BY <1>2, <1>3, <1>4, DbStep

LEMMA RecordedNext ==
    ASSUME IInv, NEW m \in Migrator, Act(m)
    PROVE  RecordedRan'
<1> USE DEF IInv
<1>0. NoTx' = NoTx /\ Jobs' = Jobs
  BY ScenarioFrame DEF Act
<1> SUFFICES ASSUME "skip" \notin Jobs, NEW v \in rows' \ NoTx
             PROVE  ran'[v] > 0
  BY <1>0 DEF RecordedRan
<1>1. v \in rows => ran[v] > 0 /\ v \in Version
  BY DEF RecordedRan, TypeOK
<1>2. CASE rows' = rows /\ \A w \in Version \ NoTx : ran'[w] = ran[w]
  BY <1>1, <1>2
<1>3. CASE pc[m] = "second" /\ ~tx[m].open /\ rows' = Recorded(m) /\ ran' = ran
  <2>1. job[m] \in Jobs
    BY <1>3 DEF JobShape
  <2>2. Target(m) \in NoTx
    BY <1>3, <2>1 DEF PairShape, Pair
  <2> QED
    BY <1>1, <1>3, <2>2 DEF Recorded
<1>4. CASE /\ pc[m] = "commit" /\ rows' = Recorded(m)
           /\ \A w \in Version \ {Target(m)} : ran'[w] = ran[w]
           /\ job[m] # "undo" /\ ran[Target(m)] = 0 => ran'[Target(m)] = 1
  <2>1. CASE v # Target(m)
    BY <1>1, <1>4, <2>1 DEF Recorded
  <2>2. CASE v = Target(m)
    <3>1. job[m] # "undo"
      BY <1>4, <2>2 DEF Recorded
    <3>2. Inserting(m, v) /\ v \in Version
      BY <1>4, <2>2, <3>1, TargetIsVersion DEF PairShape, Pair, SecondOf, Inserting, HasTarget
    <3>3. ran[v] = 0
      BY <3>2 DEF InsertShape, RanShape
    <3> QED
      BY <1>4, <2>2, <3>1, <3>3
  <2> QED
    BY <2>1, <2>2
<1> QED
  BY <1>2, <1>3, <1>4, DbStep

\* What the holder of the lock believes stays true through its own changes, and
\* nobody else has the lock to change anything.
LEMMA SeenNext ==
    ASSUME IInv, NEW m \in Migrator, Act(m)
    PROVE  SeenShape'
<1> USE DEF IInv, HasTarget
<1>0. Lockable' = Lockable
  BY ScenarioFrame DEF Act
<1> SUFFICES ASSUME Lockable, NEW o \in Migrator, pc'[o] = "pick" \/ HasTarget(o)'
             PROVE  seen'[o] = rows'
  BY <1>0 DEF SeenShape
<1>1. CASE o # m
  <2>1. pc[o] = "pick" \/ HasTarget(o)
    BY <1>1, OthersFrame
  <2>2. holder = o
    BY <2>1 DEF LockShape, Locked
  <2>3. pc[m] \notin Locked
    BY <1>1, <2>2 DEF LockShape
  <2>4. rows' = rows
    BY <2>3, DbStep DEF Locked
  <2> QED
    BY <1>1, <2>1, <2>4, OthersFrame DEF SeenShape
<1>2. CASE o = m
  <2> USE DEF TypeOK, call, lock, db, Return, Goto
  <2>1. pc[m] = "pick" \/ HasTarget(m) => seen[m] = rows
    BY DEF SeenShape
  <2>2. CASE List(m)
    BY <1>2, <2>2 DEF List
  <2>3. CASE Pick(m) \/ Begin(m)
    BY <1>2, <2>1, <2>3 DEF Pick, Begin
  <2>4. CASE First(m)
    BY <1>2, <2>1, <2>4, DbStep DEF First
  <2>5. CASE Second(m)
    <3>1. CASE tx[m].open
      BY <1>2, <2>1, <2>5, <3>1 DEF Second, Do
    <3>2. CASE ~tx[m].open
      <4>1. rows' = Recorded(m)
        BY <2>5, <3>2, PersistSecond DEF Second, Do, Recorded
      <4> QED
        BY <1>2, <2>1, <2>5, <3>2, <4>1 DEF Second, PairDone, Recorded
    <3> QED
      BY <3>1, <3>2
  <2>6. CASE Commit(m)
    <3>1. Persist({FirstOf(m), SecondOf(m)}) /\ Target(m) \in Version
      BY <2>6, TargetIsVersion DEF Commit, PairShape, Pair
    <3>2. rows' = Recorded(m)
      BY <3>1, PersistPair DEF Recorded
    <3> QED
      BY <1>2, <2>1, <2>6, <3>2 DEF Commit, PairDone, Recorded
  <2>7. CASE ~(List(m) \/ Pick(m) \/ Begin(m) \/ First(m) \/ Second(m) \/ Commit(m))
    <3>1. pc'[m] \in {"idle", "lock", "rollback"} \/ Lock(m) \/ LockStatusIgnored(m)
      BY <2>7 DEF Act, Step, Start, Unlock, CommitFails, Fails, Rollback, Leave, Crash, End
    <3> QED
      BY <1>2, <3>1 DEF Lock, LockStatusIgnored
  <2> QED
    BY <2>2, <2>3, <2>4, <2>5, <2>6, <2>7
<1> QED
  BY <1>1, <1>2

\* The next version in order is the one above the record, the latest one is its
\* greatest.
LEMMA RecordKeepsOrder ==
    ASSUME IInv, Lockable, NEW m \in Migrator, HasTarget(m)
    PROVE  \E n \in 0 .. LastVersion : Recorded(m) = 1 .. n
<1> USE BoundsAssumption DEF IInv
<1>1. PICK n \in 0 .. LastVersion : rows = 1 .. n
  BY DEF OrderShape
<1>2. seen[m] = 1 .. n
  BY <1>1 DEF SeenShape
<1>3. /\ Candidates(m) # {}
      /\ Target(m) \in Candidates(m)
      /\ Target(m) \in Version
      /\ job[m] = "undo" => \A v \in Candidates(m) : Target(m) >= v
      /\ job[m] # "undo" => \A v \in Candidates(m) : Target(m) <= v
  BY TargetIsCandidate DEF JobShape
<1>4. CASE job[m] = "undo"
  <2>1. Candidates(m) = 1 .. n
    BY <1>2, <1>4 DEF Candidates
  <2>2. n \in 1 .. n
    BY <1>3, <2>1
  <2>3. Target(m) = n
    BY <1>3, <1>4, <2>1, <2>2
  <2>4. Recorded(m) = 1 .. (n - 1)
    BY <1>1, <1>4, <2>2, <2>3 DEF Recorded
  <2>5. n - 1 \in 0 .. LastVersion
    BY <2>2
  <2> QED
    BY <2>4, <2>5
<1>5. CASE job[m] # "undo"
  <2>1. Candidates(m) = (1 .. LastVersion) \ (1 .. n)
    BY <1>2, <1>5 DEF Candidates, Version
  <2>2. n + 1 \in Candidates(m)
    BY <1>3, <2>1
  <2>3. Target(m) = n + 1
    BY <1>3, <1>5, <2>1, <2>2
  <2>4. Recorded(m) = 1 .. (n + 1)
    BY <1>1, <1>5, <2>3 DEF Recorded
  <2>5. n + 1 \in 0 .. LastVersion
    BY <2>1, <2>2
  <2> QED
    BY <2>4, <2>5
<1> QED
  BY <1>4, <1>5

LEMMA OrderNext ==
    ASSUME IInv, NEW m \in Migrator, Act(m)
    PROVE  OrderShape'
<1>0. Lockable' = Lockable
  BY ScenarioFrame DEF Act
<1> SUFFICES ASSUME Lockable
             PROVE  \E n \in 0 .. LastVersion : rows' = 1 .. n
  BY <1>0 DEF OrderShape
<1>1. rows' = rows \/ (HasTarget(m) /\ rows' = Recorded(m))
  BY DbStep DEF HasTarget
<1> QED
  BY <1>1, RecordKeepsOrder DEF IInv, OrderShape

-----------------------------------------------------------------------------
(* The theorems. *)

LEMMA Inductive == Spec => []IInv
<1>1. Init => IInv
  <2> SUFFICES ASSUME Init
               PROVE  IInv
    OBVIOUS
  <2> USE DEF Init
  <2>1. TypeOK
    BY DEF TypeOK, MaxRan, NoTran, Tran
  <2>2. LockShape /\ JobShape
    BY DEF LockShape, JobShape, HasTarget, Locked
  <2>3. PairShape /\ InsertShape
    BY DEF PairShape, Pair, InsertShape, Inserting, NoTran
  <2>4. RanShape /\ RecordedRan /\ SeenShape
    BY DEF RanShape, RecordedRan, SeenShape, HasTarget
  <2>5. OrderShape
    <3>1. 0 \in 0 .. LastVersion /\ rows = 1 .. 0
      BY BoundsAssumption
    <3> QED
      BY <3>1 DEF OrderShape
  <2> QED
    BY <2>1, <2>2, <2>3, <2>4, <2>5 DEF IInv
<1>2. IInv /\ [Next]_vars => IInv'
  <2> SUFFICES ASSUME IInv, [Next]_vars
               PROVE  IInv'
    OBVIOUS
  <2>1. CASE UNCHANGED vars
    <3>1. /\ TypeOK' /\ LockShape' /\ JobShape' /\ InsertShape' /\ RanShape'
          /\ RecordedRan' /\ SeenShape' /\ OrderShape'
      BY <2>1 DEF vars, progress, lock, db, call, IInv, TypeOK, LockShape, JobShape,
                  InsertShape, Inserting, RanShape, RecordedRan, SeenShape, OrderShape,
                  HasTarget, Candidates, Lockable, Faults, Jobs, NoTx
    <3>2. PairShape'
      BY <2>1 DEF vars, progress, lock, db, call, IInv, PairShape, Pair, Candidates, Target,
                  FirstOf, SecondOf, NoTx
    <3> QED
      BY <3>1, <3>2 DEF IInv
  <2>2. ASSUME NEW m \in Migrator, Act(m)
        PROVE  IInv'
    BY <2>2, TypeNext, LockNext, JobNext, PairNext, InsertNext, RanNext, RecordedNext,
       SeenNext, OrderNext DEF IInv
  <2> QED
    BY <2>1, <2>2, NextIsAct
<1> QED
  BY <1>1, <1>2, PTL DEF Spec

\* Nothing leaves its type, whatever fails, crashes or races; the lock is never
\* given back more often than it was taken.
THEOREM TypeCorrect == Spec => []TypeOK
<1>1. IInv => TypeOK
  BY DEF IInv
<1> QED
  BY <1>1, Inductive, PTL

\* What a migrator at work believes applied is what the migrations table says
\* (lock, list_applied_migrations), under every fault but an ignored lock status.
THEOREM SeenIsCurrentHolds == Spec => []SeenIsCurrent
<1>1. IInv => SeenIsCurrent
  BY DEF IInv, SeenShape, SeenIsCurrent, HasTarget
<1> QED
  BY <1>1, Inductive, PTL

\* A migration in a transaction is in effect exactly when it is recorded, under
\* every fault, ignored locks included (run_migration_pair).
THEOREM AppliedIffRecordedHolds == Spec => []AppliedIffRecorded
<1>1. ASSUME IInv
      PROVE  AppliedIffRecorded
  <2> SUFFICES ASSUME "skip" \notin Jobs, NEW v \in Version \ NoTx
               PROVE  v \in rows <=> ran[v] > 0
    BY DEF AppliedIffRecorded
  <2>1. v \in rows => ran[v] > 0
    BY <1>1 DEF IInv, RecordedRan
  <2>2. v \notin rows => ran[v] = 0
    BY <1>1 DEF IInv, RanShape
  <2> QED
    BY <2>1, <2>2
<1> QED
  BY <1>1, Inductive, PTL

\* No migration in a transaction takes effect twice, under every fault, ignored
\* locks included: the primary key of the migrations table suffices.
THEOREM RanAtMostOnceHolds == Spec => []RanAtMostOnce
<1>1. IInv => RanAtMostOnce
  BY DEF IInv, RanShape, RanAtMostOnce
<1> QED
  BY <1>1, Inductive, PTL

\* The migrations table has no gaps, under every fault but an ignored lock status.
THEOREM RecordedInOrderHolds == Spec => []RecordedInOrder
<1>1. ASSUME IInv
      PROVE  RecordedInOrder
  <2> SUFFICES ASSUME Lockable
               PROVE  rows = 1 .. Cardinality(rows)
    BY DEF RecordedInOrder
  <2>1. PICK n \in 0 .. LastVersion : rows = 1 .. n
    BY <1>1 DEF IInv, OrderShape
  <2>2. n \in Nat
    BY BoundsAssumption
  <2>3. Cardinality(1 .. n) = n
    BY <2>2, FS_Interval
  <2> QED
    BY <2>1, <2>3
<1> QED
  BY <1>1, Inductive, PTL

=============================================================================
