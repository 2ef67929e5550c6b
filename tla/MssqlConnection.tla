--------------------------- MODULE MssqlConnection ---------------------------
(***************************************************************************)
(* One MssqlConnection, the stack of sqlx Transaction handles on it, and   *)
(* the SQL Server session behind it.                                       *)
(*                                                                         *)
(* The borrow checker lets one call use the connection at a time, so the   *)
(* interleavings are those of a call with its own interruptions: at every  *)
(* await the request may be answered, may be refused, or the caller may    *)
(* drop the future and never learn which.  A step of this module runs a    *)
(* call from one await to the next.                                        *)
(*                                                                         *)
(* The server session is external: `tran` is what the driver's use of      *)
(* BEGIN, SAVE, COMMIT and ROLLBACK relies on, `wire` is whether an answer *)
(* is still to be read before the next request.                            *)
(***************************************************************************)
EXTENDS Integers, Sequences, FiniteSetsExt, SequencesExt

CONSTANTS
    Write,          \* the changes statements can make, each at most once
    MaxHandles,     \* bound: open Transaction handles
    MaxMarks,       \* bound: transaction start and savepoints on the server
    Faults,         \* what may go wrong, a subset of FaultNames
    ClientDrains    \* the TDS client discards a half-read answer by itself

FaultNames ==
    {"begin",       \* the server refuses to open a transaction
     "save",        \* the server refuses a savepoint
     "abort",       \* a failing statement rolls the whole transaction back
     "read",        \* an answer breaks off while it is being read
     "cancel",      \* the caller drops a future at an await
     "drop_inner"}  \* the caller drops a handle while another is below it

ASSUME BoundsAssumption == MaxHandles \in Nat /\ MaxMarks \in Nat
ASSUME FaultsAssumption == Faults \subseteq FaultNames
ASSUME ClientAssumption == ClientDrains \in BOOLEAN

VARIABLES
    transaction_depth,  \* MssqlConnection.transaction_depth
    needs_reset,        \* MssqlConnection.needs_reset
    pending_rollback,   \* MssqlConnection.pending_rollback
    call,               \* the call whose future is running
    at,                 \* the await it is suspended in
    wire,               \* "unread" while an answer is left on the wire
    tran,               \* the server's open transaction, <<>> in autocommit
    durable,            \* writes the server has committed
    work,               \* work[i]: writes made through the i-th open handle
    broken              \* history: a read broke off, or a future was dropped

conn == <<transaction_depth, needs_reset, pending_rollback>>
session == <<wire, tran, durable>>
vars == <<conn, call, at, session, work, broken>>

\* What the handles promise their owner.
Promise == INSTANCE NestedTransactions WITH stack <- work

Calls == {"begin", "commit", "rollback", "fetch", "collect"}
Statements == {"fetch", "collect"}

\* A transaction is the sequence of points it can be rolled back to, each
\* with the writes made after it.  Point 0 is its start, point n is the
\* savepoint "sqlx_sp_<n>"; a name may be used again and then stands for the
\* latest point that has it.
Mark(n) == [name |-> n, writes |-> {}]
MarkType == [name : Nat, writes : SUBSET Write]
MarksNamed(n) == {i \in DOMAIN tran : tran[i].name = n}
Written == UNION {tran[i].writes : i \in DOMAIN tran}

TypeOK ==
    /\ transaction_depth \in Nat
    /\ needs_reset \in BOOLEAN
    /\ pending_rollback \in BOOLEAN
    /\ call \in Calls \cup {"none"}
    /\ at \in {"idle", "close", "undo", "send", "rows", "closed"}
    /\ wire \in {"clear", "unread"}
    /\ tran \in Seq(MarkType)
    /\ durable \subseteq Write
    /\ work \in Seq(SUBSET Write)
    /\ broken \in BOOLEAN

Init ==
    /\ transaction_depth = 0
    /\ needs_reset = FALSE
    /\ pending_rollback = FALSE
    /\ call = "none"
    /\ at = "idle"
    /\ wire = "clear"
    /\ tran = <<>>
    /\ durable = {}
    /\ work = <<>>
    /\ broken = FALSE

-----------------------------------------------------------------------------
(* Pieces the calls share. *)

\* Operators named Slip... are plausible bugs; no action uses them, the mutants
\* of PROJECT.json do.  This one queues the rollback and keeps the depth.
SlipQueueKeepsDepth ==
    /\ pending_rollback' = TRUE
    /\ UNCHANGED transaction_depth

\* queue_rollback: remembers the rollback and forgets every level at once.
QueueRollback ==
    /\ pending_rollback' = TRUE
    /\ transaction_depth' = 0

\* Clears the flag and never sends the rollback.
SlipUndoForgotten(c) ==
    /\ call' = c
    /\ at' = "send"
    /\ pending_rollback' = FALSE

\* The half-read answer is out of the way: next comes a queued rollback, whose
\* flag is cleared before its await, or else the request of call c itself.
UndoThenSend(c) ==
    /\ call' = c
    /\ at' = IF pending_rollback THEN "undo" ELSE "send"
    /\ pending_rollback' = FALSE

\* Takes the flag for the work.
SlipNoCloseQuery(c) ==
    /\ needs_reset' = FALSE
    /\ UndoThenSend(c)

\* drain_pending up to its first await.
DrainPending(c) ==
    /\ needs_reset' = FALSE
    /\ IF needs_reset
       THEN call' = c /\ at' = "close" /\ UNCHANGED pending_rollback
       ELSE UndoThenSend(c)

Return ==
    /\ call' = "none"
    /\ at' = "idle"

\* The handle of a failed call counts as closed.
SlipHandleForgotten ==
    /\ Return
    /\ UNCHANGED <<transaction_depth, pending_rollback>>

\* A call ends without Ok.  begin already holds the new handle and commit and
\* rollback own theirs, still open: the handle's Drop queues a rollback.
GiveUp ==
    /\ Return
    /\ IF call \in Statements
       THEN UNCHANGED <<transaction_depth, pending_rollback>>
       ELSE QueueRollback

\* The handles left when the running call gives up.
Forsaken == IF call \in {"commit", "rollback"} THEN Front(work) ELSE work

-----------------------------------------------------------------------------
(* The server's side of a request. *)

\* An off-by-one in the savepoint's name.
SlipSavepointAbove == transaction_depth

\* The savepoint an inner rollback names, "sqlx_sp_<transaction_depth - 1>".
SavepointBelow == transaction_depth - 1

Request ==
    IF at = "undo"
    THEN "rollback"
    ELSE CASE call = "begin"    -> IF transaction_depth = 0 THEN "begin" ELSE "save"
           [] call = "commit"   -> "commit"
           [] call = "rollback" -> IF transaction_depth = 1 THEN "rollback" ELSE "rollback_to"
           [] OTHER             -> "execute"

\* A request is served when nothing is left to read before its answer and the
\* session is in a state that allows it.
Able ==
    /\ wire = "clear" \/ ClientDrains
    /\ CASE Request = "begin"       -> tran = <<>>
         [] Request = "execute"     -> TRUE
         [] Request = "rollback_to" -> MarksNamed(SavepointBelow) # {}
         [] OTHER                   -> tran # <<>>

\* The latest point named n stays; what was done after it is undone.
RolledBackTo(n) ==
    LET i == Max(MarksNamed(n)) IN Append(SubSeq(tran, 1, i - 1), Mark(n))

Serve ==
    /\ tran' = CASE Request = "begin"       -> <<Mark(0)>>
                 [] Request = "save"        -> Append(tran, Mark(transaction_depth))
                 [] Request = "rollback_to" -> RolledBackTo(SavepointBelow)
                 [] OTHER                   -> <<>>
    /\ durable' = IF Request = "commit" THEN durable \cup Written ELSE durable

\* A statement that makes change w, in the open transaction or durably.
MakeChange(w) ==
    /\ w \notin durable \cup Written \cup UNION Range(work)
    /\ IF tran = <<>>
       THEN durable' = durable \cup {w} /\ UNCHANGED tran
       ELSE /\ tran' = [tran EXCEPT ![Len(tran)].writes = @ \cup {w}]
            /\ UNCHANGED durable
    /\ work' = Promise!Charged(work, w)

MakeNoChange == UNCHANGED <<tran, durable, work>>

Execute == MakeNoChange \/ \E w \in Write : MakeChange(w)

-----------------------------------------------------------------------------
(* Calls, from their start to their first await. *)

Start(c) ==
    /\ at = "idle"
    /\ DrainPending(c)
    /\ UNCHANGED <<transaction_depth, session, work, broken>>

\* Connection::begin and Transaction::begin.
BeginTransaction ==
    /\ Len(work) < MaxHandles
    /\ Len(tran) < MaxMarks
    /\ Start("begin")

\* fetch_many and what streams through it.
FetchMany == Start("fetch")

\* execute_simple, exec_sql, query_rows and collect_rows: the answer is read to
\* its end before the call returns.  ping is one of them.
Collect == Start("collect")

\* Counts down without looking at zero.
SlipNoDepthCheck ==
    /\ at = "idle"
    /\ work # <<>>
    /\ IF transaction_depth = 1
       THEN call' = "commit" /\ at' = "send" /\ UNCHANGED <<transaction_depth, work>>
       ELSE /\ transaction_depth' = transaction_depth - 1
            /\ work' = Promise!Merged(work)
            /\ UNCHANGED <<call, at>>
    /\ UNCHANGED <<needs_reset, pending_rollback, session, broken>>

\* Sends every commit, the inner ones too.
SlipInnerCommitSent ==
    /\ at = "idle"
    /\ work # <<>>
    /\ transaction_depth > 0
    /\ call' = "commit"
    /\ at' = "send"
    /\ UNCHANGED <<conn, session, work, broken>>

\* Only the outermost commit is sent: deeper ones count down and return Ok, and
\* at depth 0 there is nothing to do.
CommitTransaction ==
    /\ at = "idle"
    /\ work # <<>>
    /\ IF transaction_depth = 1
       THEN /\ call' = "commit"
            /\ at' = "send"
            /\ UNCHANGED <<transaction_depth, work>>
       ELSE /\ transaction_depth' = IF transaction_depth = 0 THEN 0 ELSE transaction_depth - 1
            /\ work' = Promise!Merged(work)
            /\ UNCHANGED <<call, at>>
    /\ UNCHANGED <<needs_reset, pending_rollback, session, broken>>

RollbackTransaction ==
    /\ at = "idle"
    /\ work # <<>>
    /\ IF transaction_depth = 0
       THEN work' = Front(work) /\ UNCHANGED <<call, at>>
       ELSE call' = "rollback" /\ at' = "send" /\ UNCHANGED work
    /\ UNCHANGED <<conn, session, broken>>

\* A handle goes out of scope without commit or rollback.
DropTransaction ==
    /\ at = "idle"
    /\ work # <<>>
    /\ Len(work) > 1 => "drop_inner" \in Faults
    /\ QueueRollback
    /\ work' = Front(work)
    /\ UNCHANGED <<needs_reset, call, at, session, broken>>

\* close and close_hard: the server ends the session, and its transaction.
Close ==
    /\ at = "idle"
    /\ work = <<>>
    /\ at' = "closed"
    /\ wire' = "clear"
    /\ tran' = <<>>
    /\ UNCHANGED <<conn, call, durable, work, broken>>

-----------------------------------------------------------------------------
(* Answers. *)

ResetDone ==
    /\ at = "close"
    /\ wire' = "clear"
    /\ UndoThenSend(call)
    /\ UNCHANGED <<transaction_depth, needs_reset, tran, durable, work, broken>>

UndoDone ==
    /\ at = "undo"
    /\ Able
    /\ Serve
    /\ wire' = "clear"
    /\ at' = "send"
    /\ UNCHANGED <<conn, call, work, broken>>

Answered(c) ==
    /\ at = "send"
    /\ call = c
    /\ Able
    /\ Serve
    /\ wire' = "clear"
    /\ Return
    /\ UNCHANGED <<needs_reset, pending_rollback, broken>>

Begun ==
    /\ Answered("begin")
    /\ transaction_depth' = transaction_depth + 1
    /\ work' = Append(work, {})

Committed ==
    /\ Answered("commit")
    /\ transaction_depth' = transaction_depth - 1
    /\ work' = Promise!Merged(work)

RolledBack ==
    /\ Answered("rollback")
    /\ transaction_depth' = transaction_depth - 1
    /\ work' = Front(work)

\* execute or execute_sp_executesql returns at the first result of the answer.
Executed ==
    /\ at = "send"
    /\ call \in Statements
    /\ Able
    /\ Execute
    /\ wire' = "unread"
    /\ at' = "rows"
    /\ UNCHANGED <<conn, call, broken>>

\* The answer is read to StatementResult::End and the guard disarmed.
ReadToEnd ==
    /\ at = "rows"
    /\ wire' = "clear"
    /\ Return
    /\ UNCHANGED <<conn, tran, durable, work, broken>>

\* The guard is disarmed before the stream is read to its end.
SlipGuardDisarmed ==
    /\ at = "rows"
    /\ call = "fetch"
    /\ wire' \in {"unread", "clear"}
    /\ Return
    /\ UNCHANGED <<conn, tran, durable, work, broken>>

\* The caller has seen enough rows (fetch_optional: the first), or reading
\* failed: the stream is dropped with its guard armed.
FetchDropped ==
    /\ at = "rows"
    /\ call = "fetch"
    /\ needs_reset' = TRUE
    /\ wire' \in {"unread", "clear"}
    /\ Return
    /\ UNCHANGED <<transaction_depth, pending_rollback, tran, durable, work, broken>>

-----------------------------------------------------------------------------
(* Refusals and interruptions. *)

\* The request comes back as an error and did nothing: the session is in no
\* state to serve it, or (a statement: at any time) the server refuses it.
\* fetch_many also ends here, before sending, when build_request fails.
Refused ==
    /\ at \in {"undo", "send"}
    /\ ~Able \/ Request = "execute" \/ Request \in Faults
    /\ GiveUp
    /\ work' = Forsaken
    /\ UNCHANGED <<needs_reset, session, broken>>

\* A deadlock victim, or a failure under XACT_ABORT.
Aborted ==
    /\ "abort" \in Faults
    /\ at = "send"
    /\ call \in Statements
    /\ Able
    /\ GiveUp
    /\ wire' = "clear"
    /\ tran' = <<>>
    /\ UNCHANGED <<needs_reset, durable, work, broken>>

Collecting == at = "rows" /\ call = "collect"

\* close_query, next_row or advance fails, outside the guard of a stream.
ReadFails ==
    /\ "read" \in Faults
    /\ at = "close" \/ Collecting
    /\ wire' \in {"unread", "clear"}
    /\ GiveUp
    /\ broken' = TRUE
    /\ work' = Forsaken
    /\ UNCHANGED <<needs_reset, tran, durable>>

\* The future is dropped while its request is not sent, or was answered but the
\* answer not read.  From "rows" on a stream's guard does its work instead.
Cancelled ==
    /\ "cancel" \in Faults
    /\ at \in {"close", "undo", "send"} \/ Collecting
    /\ GiveUp
    /\ broken' = TRUE
    /\ UNCHANGED needs_reset
    /\ \/ work' = Forsaken /\ UNCHANGED session
       \/ /\ at \in {"undo", "send"}
          /\ Able
          /\ wire' = "unread"
          /\ IF Request = "execute" THEN Execute ELSE (Serve /\ work' = Forsaken)

Answer ==
    \/ ResetDone \/ UndoDone
    \/ Begun \/ Committed \/ RolledBack \/ Executed
    \/ ReadToEnd
    \/ Refused

Next ==
    \/ BeginTransaction \/ FetchMany \/ Collect
    \/ CommitTransaction \/ RollbackTransaction \/ DropTransaction
    \/ Close
    \/ Answer
    \/ FetchDropped
    \/ Aborted \/ ReadFails \/ Cancelled

\* The server answers every request and the caller reads on; a pooled
\* connection is pinged at every checkout, so an idle one is used again.
Fairness ==
    /\ WF_vars(Answer)
    /\ WF_vars(Collect)

Spec == Init /\ [][Next]_vars

FairSpec == Spec /\ Fairness

-----------------------------------------------------------------------------
(* Safety. *)

\* A rollback is only ever queued for a connection that counts no open level:
\* transaction_depth never numbers levels of a transaction the driver has
\* already decided to abandon (queue_rollback, begin_transaction).
QueuedMeansOutside == pending_rollback => transaction_depth = 0

\* The next four hold until an answer breaks off while it is read or a caller
\* drops a future at an await, which the code does not recover from.

\* A request that goes through drain_pending is sent on a connection with
\* nothing left to recover: no unread answer, no flag still set.
StatementsStartClear ==
    (~broken /\ at = "send" /\ call \notin {"commit", "rollback"}) =>
        wire = "clear" /\ ~needs_reset /\ ~pending_rollback

\* Between calls an unread answer is always known to the connection
\* (ResetGuard, and the close_query that ends every other call).
HalfReadIsFlagged ==
    (~broken /\ at = "idle" /\ wire = "unread") => needs_reset

\* "Set when a transaction was dropped without being committed": while the
\* server has one open whose handles are all gone, the flag is set.
FlagRemembersDropped ==
    (at = "idle" /\ work = <<>> /\ tran # <<>>) => pending_rollback

\* A transaction whose handles are all gone is never forgotten (start_rollback).
AbandonedIsQueued == ~broken => FlagRemembersDropped

\* A statement or BEGIN sent at depth 0 meets a server in autocommit: it never
\* joins the remains of an abandoned transaction.
NothingJoinsAbandoned ==
    (~broken /\ at = "send" /\ transaction_depth = 0) => tran = <<>>

\* The latest mark named n, where level n + 1 begins.
LevelStart(n) == Max(MarksNamed(n))

\* Between calls, every open handle has its mark on the server, the marks are
\* in the order of the handles however often a name was used before, and the
\* writes between a handle's mark and the next are exactly the handle's own.
SavepointsHoldWork ==
    (at = "idle" /\ ~pending_rollback) =>
        /\ transaction_depth = Len(work)
        /\ \A n \in 0 .. transaction_depth - 1 : MarksNamed(n) # {}
        /\ \A n \in 1 .. transaction_depth - 1 : LevelStart(n - 1) < LevelStart(n)
        /\ \A n \in 1 .. transaction_depth :
               LET last == IF n = transaction_depth THEN Len(tran) ELSE LevelStart(n) - 1
               IN  work[n] = UNION {tran[i].writes : i \in LevelStart(n - 1) .. last}

\* Every call does to the writes what NestedTransactions lets it do.
KeepsPromise == Promise!Spec

-----------------------------------------------------------------------------
(* Liveness. *)

\* The lazy rollback of a dropped transaction does happen on a connection that
\* is used again (drain_pending on every ping), unless the recovery is disturbed.
AbandonedIsUndone == pending_rollback ~> (tran = <<>> \/ broken)

-----------------------------------------------------------------------------
(* Stated by the repository and not kept by the code. *)

\* "The result set is then half-read, and the connection has to drain it before
\* anything else can be sent": said of needs_reset, and so of every request.
DrainedBeforeSend == at = "send" => wire = "clear"

\* "An inner rollback only undoes the inner work": when the last handle's
\* commit returns Ok, what was written through it is durable.
CommitReturnsOk == Committed \/ (CommitTransaction /\ work' # work)
OuterWorkSurvives ==
    [][(CommitReturnsOk /\ Len(work) = 1) => work[1] \subseteq durable']_vars

=============================================================================
