------------------------ MODULE MssqlConnectionProofs ------------------------
(***************************************************************************)
(* Proofs about MssqlConnection, for any number of handles, savepoints and *)
(* writes: what is known of the connection under every fault, then that    *)
(* the savepoints hold what the handles wrote and that the connection      *)
(* implements NestedTransactions.                                          *)
(***************************************************************************)
EXTENDS MssqlConnection, Extremes, SequenceTheorems

-----------------------------------------------------------------------------
(* Lemmas about the operators the module is built from. *)

\* Front drops exactly one element.
LEMMA FrontType ==
    ASSUME NEW S, NEW s \in Seq(S), s # <<>>
    PROVE  /\ Front(s) \in Seq(S)
           /\ Len(Front(s)) = Len(s) - 1
           /\ Len(s) >= 1
<1>1. Len(s) \in Nat /\ Len(s) >= 1
  BY EmptySeq
<1>2. \A i \in 1 .. Len(s) - 1 : s[i] \in S
  BY <1>1, ElementOfSeq
<1>3. Len(s) - 1 \in Int /\ 1 \in Int
  BY <1>1
<1>4. /\ SubSeq(s, 1, Len(s) - 1) \in Seq(S)
      /\ Len(SubSeq(s, 1, Len(s) - 1)) = IF 1 <= Len(s) - 1 THEN (Len(s) - 1) - 1 + 1 ELSE 0
  BY <1>2, <1>3, SubSeqProperties
<1>5. Front(s) = SubSeq(s, 1, Len(s) - 1)
  BY DEF Front
<1>6. Len(Front(s)) = Len(s) - 1
  <2>1. CASE Len(s) = 1
    BY <1>4, <1>5, <2>1
  <2>2. CASE Len(s) > 1
    BY <1>1, <1>4, <1>5, <2>2
  <2> QED
    BY <1>1, <2>1, <2>2
<1> QED
  BY <1>1, <1>4, <1>5, <1>6

\* Merging two handles leaves one handle less.
LEMMA MergedType ==
    ASSUME NEW s \in Seq(SUBSET Write), s # <<>>
    PROVE  /\ Promise!Merged(s) \in Seq(SUBSET Write)
           /\ Len(Promise!Merged(s)) = Len(s) - 1
<1>1. Len(s) \in Nat /\ Len(s) >= 1
  BY EmptySeq
<1>2. CASE Len(s) < 2
  <2>1. Promise!Merged(s) = <<>>
    BY <1>2 DEF Promise!Merged
  <2>2. Len(s) = 1
    <3>1. \A n \in Nat : (n >= 1 /\ n < 2) => n = 1
      OBVIOUS
    <3> QED
      BY <1>1, <1>2, <3>1
  <2>3. <<>> \in Seq(SUBSET Write) /\ Len(<<>>) = 0
    BY EmptySeq
  <2> QED
    BY <2>1, <2>2, <2>3
<1>3. CASE Len(s) >= 2
  <2>1. /\ Front(s) \in Seq(SUBSET Write)
        /\ Len(Front(s)) = Len(s) - 1
    BY FrontType
  <2>2. Front(s) # <<>>
    BY <2>1, <1>3
  <2>3. /\ Front(Front(s)) \in Seq(SUBSET Write)
        /\ Len(Front(Front(s))) = Len(s) - 2
    BY <2>1, <2>2, <1>1, FrontType
  <2>4. s[Len(s) - 1] \cup s[Len(s)] \in SUBSET Write
    BY <1>1, <1>3, ElementOfSeq
  <2> DEFINE below == Front(Front(s))
             both == s[Len(s) - 1] \cup s[Len(s)]
  <2>5. Promise!Merged(s) = Append(below, both)
    BY <1>1, <1>3 DEF Promise!Merged, Promise!Front, Front
  <2> HIDE DEF below, both
  <2>6. /\ Append(below, both) \in Seq(SUBSET Write)
        /\ Len(Append(below, both)) = Len(below) + 1
    BY <2>3, <2>4, AppendProperties DEF below, both
  <2> QED
    BY <1>1, <2>3, <2>5, <2>6 DEF below
<1> QED
  BY <1>1, <1>2, <1>3

\* Charging a write opens and closes no handle.
LEMMA ChargedType ==
    ASSUME NEW s \in Seq(SUBSET Write), NEW w \in Write
    PROVE  /\ Promise!Charged(s, w) \in Seq(SUBSET Write)
           /\ Len(Promise!Charged(s, w)) = Len(s)
<1>1. CASE s = <<>>
  BY <1>1 DEF Promise!Charged
<1>2. CASE s # <<>>
  <2>1. Len(s) \in 1 .. Len(s)
    BY <1>2, EmptySeq
  <2>2. s[Len(s)] \cup {w} \in SUBSET Write
    BY <2>1, ElementOfSeq
  <2> QED
    BY <1>2, <2>1, <2>2, ExceptSeq DEF Promise!Charged
<1> QED
  BY <1>1, <1>2

\* A statement leaves the session in or out of a transaction, as it was.
LEMMA ExecuteType ==
    ASSUME TypeOK, Execute
    PROVE  /\ tran' \in Seq(MarkType)
           /\ durable' \subseteq Write
           /\ work' \in Seq(SUBSET Write)
           /\ Len(work') = Len(work)
           /\ tran' = <<>> <=> tran = <<>>
<1>1. CASE MakeNoChange
  BY <1>1 DEF MakeNoChange, TypeOK
<1>2. ASSUME NEW w \in Write, MakeChange(w)
      PROVE  /\ tran' \in Seq(MarkType)
             /\ durable' \subseteq Write
             /\ work' \in Seq(SUBSET Write)
             /\ Len(work') = Len(work)
             /\ tran' = <<>> <=> tran = <<>>
  <2>1. work' \in Seq(SUBSET Write) /\ Len(work') = Len(work)
    BY <1>2, ChargedType DEF MakeChange, TypeOK
  <2>2. CASE tran = <<>>
    BY <1>2, <2>1, <2>2 DEF MakeChange, TypeOK
  <2>3. CASE tran # <<>>
    <3>1. Len(tran) \in 1 .. Len(tran)
      BY <2>3, EmptySeq DEF TypeOK
    <3>2. tran[Len(tran)] \in MarkType
      BY <3>1, ElementOfSeq DEF TypeOK
    <3> DEFINE m == [tran[Len(tran)] EXCEPT !.writes = @ \cup {w}]
    <3>3. m \in MarkType
      BY <3>2 DEF MarkType
    <3>4. tran' = [tran EXCEPT ![Len(tran)] = m]
      BY <1>2, <2>3 DEF MakeChange
    <3>5. tran' \in Seq(MarkType) /\ Len(tran') = Len(tran)
      BY <3>1, <3>3, <3>4, ExceptSeq DEF TypeOK
    <3>6. tran' # <<>>
      BY <3>1, <3>5, EmptySeq
    <3> QED
      BY <1>2, <2>1, <2>3, <3>5, <3>6 DEF MakeChange, TypeOK
  <2> QED
    BY <2>2, <2>3
<1> QED
  BY <1>1, <1>2 DEF Execute

\* Rolling back to a savepoint keeps a transaction open.
LEMMA RolledBackToType ==
    ASSUME tran \in Seq(MarkType), NEW n \in Nat, MarksNamed(n) # {}
    PROVE  RolledBackTo(n) \in Seq(MarkType) /\ RolledBackTo(n) # <<>>
<1> DEFINE i == Max(MarksNamed(n))
<1>1. Len(tran) \in Nat /\ MarksNamed(n) \in SUBSET (1 .. Len(tran))
  BY LenProperties DEF MarksNamed
<1>2. i \in 1 .. Len(tran)
  BY <1>1, MaxIsGreatest
<1>3. SubSeq(tran, 1, i - 1) \in Seq(MarkType)
  BY <1>1, <1>2, ElementOfSeq, SubSeqProperties
<1>4. Mark(n) \in MarkType
  BY DEF Mark, MarkType
<1>5. RolledBackTo(n) = Append(SubSeq(tran, 1, i - 1), Mark(n))
  BY DEF RolledBackTo
<1> DEFINE below == SubSeq(tran, 1, i - 1)
<1> HIDE DEF below
<1>6. Append(below, Mark(n)) \in Seq(MarkType) /\ Append(below, Mark(n)) # <<>>
  BY <1>3, <1>4, AppendProperties DEF below
<1> QED
  BY <1>5, <1>6 DEF below

\* What Serve does to an open or absent transaction, request by request.
LEMMA ServeType ==
    ASSUME TypeOK, Able, Serve, Request # "execute",
           Request = "rollback_to" => transaction_depth > 0
    PROVE  /\ tran' \in Seq(MarkType)
           /\ durable' \subseteq Write
           /\ Request \in {"begin", "save", "rollback_to"} => tran' # <<>>
           /\ Request \in {"commit", "rollback"} => tran' = <<>>
<1>1. Written \subseteq Write
  <2>1. DOMAIN tran = 1 .. Len(tran)
    BY LenProperties DEF TypeOK
  <2>2. \A j \in DOMAIN tran : tran[j] \in MarkType
    BY <2>1, ElementOfSeq DEF TypeOK
  <2>3. \A j \in DOMAIN tran : tran[j].writes \subseteq Write
    BY <2>2 DEF MarkType
  <2> QED
    BY <2>3 DEF Written
<1>2. durable' \subseteq Write
  BY <1>1 DEF Serve, TypeOK
<1>3. CASE Request = "begin"
  <2>1. Mark(0) \in MarkType
    BY DEF Mark, MarkType
  <2> QED
    BY <1>2, <1>3, <2>1 DEF Serve
<1>4. CASE Request = "save"
  <2>1. Mark(transaction_depth) \in MarkType
    BY DEF Mark, MarkType, TypeOK
  <2>2. tran' = Append(tran, Mark(transaction_depth))
    BY <1>4 DEF Serve
  <2> QED
    BY <1>2, <1>4, <2>1, <2>2, AppendProperties DEF TypeOK
<1>5. CASE Request = "rollback_to"
  <2>1. SavepointBelow \in Nat
    BY <1>5 DEF SavepointBelow, TypeOK
  <2>2. MarksNamed(SavepointBelow) # {}
    BY <1>5 DEF Able
  <2>3. tran' = RolledBackTo(SavepointBelow)
    BY <1>5 DEF Serve
  <2> QED
    BY <1>2, <1>5, <2>1, <2>2, <2>3, RolledBackToType DEF TypeOK
<1>6. CASE Request \in {"commit", "rollback"}
  <2>1. tran' = <<>>
    BY <1>6 DEF Serve
  <2> QED
    BY <1>2, <1>6, <2>1
<1>7. Request \in {"begin", "save", "rollback_to", "commit", "rollback"}
  BY DEF Request
<1> QED
  BY <1>3, <1>4, <1>5, <1>6, <1>7

-----------------------------------------------------------------------------
(* Types, and the shape of a call in progress: which flags can still be set *)
(* at which await.                                                          *)

CallShape ==
    /\ at \in {"idle", "closed"} <=> call = "none"
    /\ at \in {"close", "undo"} => call \in Statements \cup {"begin"}
    /\ at = "rows" => call \in Statements
    /\ call = "commit" => transaction_depth = 1
    /\ call = "rollback" => transaction_depth > 0
    /\ call \in {"commit", "rollback"} => work # <<>>
    /\ pending_rollback => transaction_depth = 0
    /\ at \in {"undo", "send", "rows"} => ~pending_rollback
    /\ at = "undo" => transaction_depth = 0

\* What a call that uses drain_pending can count on, until a read breaks off or
\* a future is dropped: an unread answer is flagged or belongs to the running
\* call, and a transaction no level stands for is queued or being rolled back.
Recovery ==
    /\ (call \in {"none", "commit", "rollback"} /\ wire = "unread") => needs_reset
    /\ call \in Statements \cup {"begin"} => ~needs_reset
    /\ (at \in {"undo", "send"} /\ call \in Statements \cup {"begin"}) => wire = "clear"
    /\ (transaction_depth = 0 /\ tran # <<>>) => (pending_rollback \/ at = "undo")
    /\ transaction_depth <= Len(work)

LEMMA InitShape == Init => TypeOK /\ CallShape
<1> SUFFICES ASSUME Init PROVE TypeOK /\ CallShape
  OBVIOUS
<1>1. <<>> \in Seq(MarkType) /\ <<>> \in Seq(SUBSET Write)
  BY EmptySeq
<1> QED
  BY <1>1 DEF Init, TypeOK, CallShape, Calls, Statements

\* The part of a step that starts a call.
LEMMA StartShape ==
    ASSUME TypeOK, CallShape, NEW c \in Statements \cup {"begin"}, Start(c)
    PROVE  TypeOK' /\ CallShape'
<1>1. c \in Calls /\ c \notin {"none", "commit", "rollback"}
  BY DEF Calls, Statements
<1>2. CASE needs_reset
  BY <1>1, <1>2 DEF Start, DrainPending, TypeOK, CallShape, session, Statements
<1>3. CASE ~needs_reset
  BY <1>1, <1>3 DEF Start, DrainPending, UndoThenSend, TypeOK, CallShape, session, Statements
<1> QED
  BY <1>2, <1>3

\* The part of a step that ends a call without Ok.
LEMMA GiveUpShape ==
    ASSUME TypeOK, CallShape, call # "none", GiveUp,
           needs_reset' \in BOOLEAN, broken' \in BOOLEAN, wire' \in {"clear", "unread"},
           tran' \in Seq(MarkType), durable' \subseteq Write, work' \in Seq(SUBSET Write)
    PROVE  TypeOK' /\ CallShape'
<1>1. CASE call \in Statements
  BY <1>1 DEF GiveUp, Return, TypeOK, CallShape, Statements
<1>2. CASE call \notin Statements
  BY <1>2 DEF GiveUp, Return, QueueRollback, TypeOK, CallShape, Statements
<1> QED
  BY <1>1, <1>2

LEMMA ForsakenType ==
    ASSUME TypeOK, CallShape
    PROVE  /\ Forsaken \in Seq(SUBSET Write)
           /\ Len(Forsaken) >= Len(work) - 1
BY FrontType, LenProperties DEF Forsaken, TypeOK, CallShape

\* Every step keeps the types and the shape, whatever goes wrong in it.
LEMMA NextShape ==
    ASSUME TypeOK, CallShape, [Next]_vars
    PROVE  TypeOK' /\ CallShape'
<1>1. CASE BeginTransaction
  BY <1>1, StartShape DEF BeginTransaction
<1>2. CASE FetchMany
  BY <1>2, StartShape DEF FetchMany, Statements
<1>3. CASE Collect
  BY <1>3, StartShape DEF Collect, Statements
<1>4. CASE CommitTransaction
  <2>1. CASE transaction_depth = 1
    BY <1>4, <2>1 DEF CommitTransaction, TypeOK, CallShape, Calls, Statements, session
  <2>2. CASE transaction_depth # 1
    <3>1. Promise!Merged(work) \in Seq(SUBSET Write)
      BY <1>4, MergedType DEF CommitTransaction, TypeOK
    <3>2. transaction_depth' \in Nat /\ (transaction_depth = 0 => transaction_depth' = 0)
      BY <1>4, <2>2 DEF CommitTransaction, TypeOK
    <3> QED
      BY <1>4, <2>2, <3>1, <3>2
      DEF CommitTransaction, TypeOK, CallShape, Calls, Statements, session
  <2> QED
    BY <2>1, <2>2
<1>5. CASE RollbackTransaction
  <2>1. Front(work) \in Seq(SUBSET Write)
    BY <1>5, FrontType DEF RollbackTransaction, TypeOK
  <2> QED
    BY <1>5, <2>1
    DEF RollbackTransaction, TypeOK, CallShape, Calls, Statements, conn, session
<1>6. CASE DropTransaction
  <2>1. Front(work) \in Seq(SUBSET Write)
    BY <1>6, FrontType DEF DropTransaction, TypeOK
  <2> QED
    BY <1>6, <2>1
    DEF DropTransaction, QueueRollback, TypeOK, CallShape, Calls, Statements, session
<1>7. CASE Close
  <2>1. <<>> \in Seq(MarkType)
    BY EmptySeq
  <2> QED
    BY <1>7, <2>1 DEF Close, TypeOK, CallShape, Statements, conn
<1>8. CASE ResetDone
  BY <1>8 DEF ResetDone, UndoThenSend, TypeOK, CallShape, Calls, Statements
<1>9. CASE UndoDone
  <2>1. Request = "rollback"
    BY <1>9 DEF UndoDone, Request
  <2>2. tran' \in Seq(MarkType) /\ durable' \subseteq Write
    BY <1>9, <2>1, ServeType DEF UndoDone
  <2> QED
    BY <1>9, <2>2 DEF UndoDone, TypeOK, CallShape, Calls, Statements, conn
<1>10. CASE Begun
  <2>1. Request \in {"begin", "save"}
    BY <1>10 DEF Begun, Answered, Request
  <2>2. tran' \in Seq(MarkType) /\ durable' \subseteq Write
    BY <1>10, <2>1, ServeType DEF Begun, Answered
  <2>3. Append(work, {}) \in Seq(SUBSET Write)
    BY AppendProperties DEF TypeOK
  <2> QED
    BY <1>10, <2>2, <2>3 DEF Begun, Answered, Return, TypeOK, CallShape, Statements
<1>11. CASE Committed
  <2>1. Request = "commit"
    BY <1>11 DEF Committed, Answered, Request
  <2>2. tran' \in Seq(MarkType) /\ durable' \subseteq Write
    BY <1>11, <2>1, ServeType DEF Committed, Answered
  <2>3. Promise!Merged(work) \in Seq(SUBSET Write)
    BY <1>11, MergedType DEF Committed, Answered, TypeOK, CallShape
  <2> QED
    BY <1>11, <2>2, <2>3 DEF Committed, Answered, Return, TypeOK, CallShape, Statements
<1>12. CASE RolledBack
  <2>1. Request \in {"rollback", "rollback_to"} /\ transaction_depth > 0
    BY <1>12 DEF RolledBack, Answered, Request, CallShape
  <2>2. tran' \in Seq(MarkType) /\ durable' \subseteq Write
    BY <1>12, <2>1, ServeType DEF RolledBack, Answered
  <2>3. Front(work) \in Seq(SUBSET Write)
    BY <1>12, FrontType DEF RolledBack, Answered, TypeOK, CallShape
  <2> QED
    BY <1>12, <2>1, <2>2, <2>3
    DEF RolledBack, Answered, Return, TypeOK, CallShape, Statements
<1>13. CASE Executed
  BY <1>13, ExecuteType DEF Executed, TypeOK, CallShape, Calls, Statements, conn
<1>14. CASE ReadToEnd
  BY <1>14 DEF ReadToEnd, Return, TypeOK, CallShape, Calls, Statements, conn
<1>15. CASE FetchDropped
  BY <1>15 DEF FetchDropped, Return, TypeOK, CallShape, Calls, Statements
<1>16. CASE Refused
  <2>1. call # "none"
    BY <1>16 DEF Refused, CallShape
  <2> QED
    BY <1>16, <2>1, GiveUpShape, ForsakenType DEF Refused, session, TypeOK
<1>17. CASE Aborted
  <2>1. call # "none" /\ <<>> \in Seq(MarkType)
    BY <1>17, EmptySeq DEF Aborted, Statements
  <2> QED
    BY <1>17, <2>1, GiveUpShape DEF Aborted, TypeOK
<1>18. CASE ReadFails
  <2>1. call # "none"
    BY <1>18 DEF ReadFails, Collecting, CallShape
  <2> QED
    BY <1>18, <2>1, GiveUpShape, ForsakenType DEF ReadFails, TypeOK
<1>19. CASE Cancelled
  <2>1. call # "none"
    BY <1>19 DEF Cancelled, Collecting, CallShape
  <2>2. CASE work' = Forsaken /\ UNCHANGED session
    BY <1>19, <2>1, <2>2, GiveUpShape, ForsakenType DEF Cancelled, session, TypeOK
  <2>3. CASE /\ Able
             /\ wire' = "unread"
             /\ Request = "execute"
             /\ Execute
    BY <1>19, <2>1, <2>3, GiveUpShape, ExecuteType DEF Cancelled, TypeOK
  <2>4. CASE /\ at \in {"undo", "send"}
             /\ Able
             /\ wire' = "unread"
             /\ Request # "execute"
             /\ Serve
             /\ work' = Forsaken
    <3>1. Request = "rollback_to" => transaction_depth > 0
      BY <2>4 DEF Request, CallShape
    <3>2. tran' \in Seq(MarkType) /\ durable' \subseteq Write
      BY <2>4, <3>1, ServeType
    <3> QED
      BY <1>19, <2>1, <2>4, <3>2, GiveUpShape, ForsakenType DEF Cancelled, TypeOK
  <2> QED
    BY <1>19, <2>2, <2>3, <2>4 DEF Cancelled
<1>20. CASE UNCHANGED vars
  BY <1>20 DEF vars, conn, session, TypeOK, CallShape
<1> QED
  BY <1>1, <1>2, <1>3, <1>4, <1>5, <1>6, <1>7, <1>8, <1>9, <1>10, <1>11, <1>12, <1>13,
     <1>14, <1>15, <1>16, <1>17, <1>18, <1>19, <1>20
  DEF Next, Answer

\* Types hold in every behaviour, for every choice of Faults.
THEOREM TypeCorrect == Spec => []TypeOK
<1>1. TypeOK /\ CallShape /\ [Next]_vars => (TypeOK /\ CallShape)'
  BY NextShape
<1> QED
  BY <1>1, InitShape, PTL DEF Spec

\* However calls fail or are cancelled, a rollback is only ever queued at
\* depth 0 (queue_rollback, begin_transaction).
THEOREM QueuedMeansOutsideHolds == Spec => []QueuedMeansOutside
<1>1. TypeOK /\ CallShape /\ [Next]_vars => (TypeOK /\ CallShape)'
  BY NextShape
<1>2. CallShape => QueuedMeansOutside
  BY DEF CallShape, QueuedMeansOutside
<1> QED
  BY <1>1, <1>2, InitShape, PTL DEF Spec

-----------------------------------------------------------------------------
(* Recovery: what drain_pending finds and leaves, until an answer breaks    *)
(* off or a future is dropped at an await.                                  *)

IInv == TypeOK /\ CallShape /\ (~broken => Recovery)

\* What is broken stays broken.
LEMMA BrokenStays ==
    ASSUME [Next]_vars, ~broken'
    PROVE  ~broken
BY DEF Next, Answer, vars, Start, BeginTransaction, FetchMany, Collect, CommitTransaction,
       RollbackTransaction, DropTransaction, Close, ResetDone, UndoDone, Answered, Begun,
       Committed, RolledBack, Executed, ReadToEnd, FetchDropped, Refused, Aborted,
       ReadFails, Cancelled

LEMMA InitRecovery == Init => Recovery
<1> SUFFICES ASSUME Init PROVE Recovery
  OBVIOUS
<1>1. Len(<<>>) = 0
  BY EmptySeq
<1>2. work = <<>> /\ transaction_depth = 0
  BY DEF Init
<1> QED
  BY <1>1, <1>2 DEF Init, Recovery, Statements

LEMMA StartRecovery ==
    ASSUME TypeOK, CallShape, Recovery, NEW c \in Statements \cup {"begin"}, Start(c)
    PROVE  Recovery'
<1>1. call = "none" /\ c \notin {"none", "commit", "rollback"}
  BY DEF Start, CallShape, Statements
<1>2. CASE needs_reset
  BY <1>1, <1>2 DEF Start, DrainPending, TypeOK, CallShape, Recovery, session, Statements
<1>3. CASE ~needs_reset
  BY <1>1, <1>3
  DEF Start, DrainPending, UndoThenSend, TypeOK, CallShape, Recovery, session, Statements
<1> QED
  BY <1>2, <1>3

LEMMA NextRecovery ==
    ASSUME TypeOK, CallShape, Recovery, [Next]_vars, ~broken'
    PROVE  Recovery'
<1>l. Len(work) \in Nat /\ transaction_depth \in Nat
  BY LenProperties DEF TypeOK
<1>e. Len(<<>>) = 0
  BY EmptySeq
<1>1. CASE BeginTransaction
  BY <1>1, StartRecovery DEF BeginTransaction
<1>2. CASE FetchMany
  BY <1>2, StartRecovery DEF FetchMany, Statements
<1>3. CASE Collect
  BY <1>3, StartRecovery DEF Collect, Statements
<1>4. CASE CommitTransaction
  <2>1. CASE transaction_depth = 1
    BY <1>4, <2>1 DEF CommitTransaction, CallShape, Recovery, Statements, session
  <2>2. CASE transaction_depth # 1
    <3>1. Len(Promise!Merged(work)) = Len(work) - 1 /\ Len(work) >= 1
      BY <1>4, <1>l, MergedType, EmptySeq DEF CommitTransaction, TypeOK
    <3>2. transaction_depth' = 0 <=> transaction_depth = 0
      BY <1>4, <1>l, <2>2 DEF CommitTransaction
    <3>3. transaction_depth' <= Len(work')
      BY <1>4, <1>l, <2>2, <3>1 DEF CommitTransaction, Recovery
    <3> QED
      BY <1>4, <2>2, <3>2, <3>3
      DEF CommitTransaction, CallShape, Recovery, Statements, session
  <2> QED
    BY <2>1, <2>2
<1>5. CASE RollbackTransaction
  <2>1. CASE transaction_depth = 0
    <3>1. Len(Front(work)) = Len(work) - 1 /\ Len(work) >= 1
      BY <1>5, FrontType DEF RollbackTransaction, TypeOK
    <3>2. transaction_depth' = 0 /\ transaction_depth' <= Len(work')
      BY <1>5, <1>l, <2>1, <3>1 DEF RollbackTransaction, conn
    <3> QED
      BY <1>5, <2>1, <3>2 DEF RollbackTransaction, CallShape, Recovery, conn, session
  <2>2. CASE transaction_depth # 0
    BY <1>5, <2>2 DEF RollbackTransaction, CallShape, Recovery, Statements, conn, session
  <2> QED
    BY <2>1, <2>2
<1>6. CASE DropTransaction
  <2>1. Len(Front(work)) = Len(work) - 1 /\ Len(work) >= 1
    BY <1>6, FrontType DEF DropTransaction, TypeOK
  <2>2. transaction_depth' <= Len(work')
    BY <1>6, <1>l, <2>1 DEF DropTransaction, QueueRollback
  <2> QED
    BY <1>6, <2>2 DEF DropTransaction, QueueRollback, CallShape, Recovery, session
<1>7. CASE Close
  BY <1>7 DEF Close, CallShape, Recovery, Statements, conn
<1>8. CASE ResetDone
  BY <1>8 DEF ResetDone, UndoThenSend, CallShape, Recovery, Statements
<1>9. CASE UndoDone
  <2>1. tran' = <<>>
    BY <1>9, ServeType DEF UndoDone, Request
  <2> QED
    BY <1>9, <2>1 DEF UndoDone, CallShape, Recovery, conn
<1>10. CASE Begun
  <2>1. transaction_depth' > 0 /\ transaction_depth' <= Len(work')
    BY <1>10, <1>l, AppendProperties DEF Begun, TypeOK, Recovery
  <2> QED
    BY <1>10, <1>l, <2>1 DEF Begun, Answered, Return, CallShape, Recovery, Statements
<1>11. CASE Committed
  <2>1. tran' = <<>>
    BY <1>11, ServeType DEF Committed, Answered, Request
  <2>2. Len(work') >= 0
    BY <1>11, <1>l, MergedType, EmptySeq DEF Committed, Answered, TypeOK, CallShape
  <2>3. transaction_depth' = 0
    BY <1>11 DEF Committed, Answered, CallShape
  <2> QED
    BY <1>11, <2>1, <2>2, <2>3 DEF Committed, Answered, Return, CallShape, Recovery, Statements
<1>12. CASE RolledBack
  <2>1. Len(work') = Len(work) - 1
    BY <1>12, FrontType DEF RolledBack, Answered, TypeOK, CallShape
  <2>2. transaction_depth' = transaction_depth - 1 /\ transaction_depth > 0
    BY <1>12 DEF RolledBack, Answered, CallShape
  <2>3. transaction_depth' <= Len(work')
    BY <1>l, <2>1, <2>2 DEF Recovery
  <2>4. transaction_depth = 1 => tran' = <<>>
    BY <1>12, ServeType DEF RolledBack, Answered, Request
  <2>5. transaction_depth' = 0 => tran' = <<>>
    BY <1>l, <2>2, <2>4
  <2> QED
    BY <1>12, <2>3, <2>5 DEF RolledBack, Answered, Return, CallShape, Recovery, Statements
<1>13. CASE Executed
  <2>1. Len(work') = Len(work) /\ (tran' = <<>> <=> tran = <<>>)
    BY <1>13, ExecuteType DEF Executed
  <2> QED
    BY <1>13, <2>1 DEF Executed, CallShape, Recovery, Statements, conn
<1>14. CASE ReadToEnd
  BY <1>14 DEF ReadToEnd, Return, CallShape, Recovery, Statements, conn
<1>15. CASE FetchDropped
  BY <1>15 DEF FetchDropped, Return, CallShape, Recovery, Statements
<1>16. CASE Refused
  <2>1. CASE call \in Statements
    BY <1>16, <2>1, <1>l, FaultsAssumption
    DEF Refused, GiveUp, Return, Forsaken, Able, Request, FaultNames, TypeOK, CallShape,
        Recovery, Statements, session
  <2>2. CASE call \notin Statements
    <3>1. transaction_depth' <= Len(work')
      BY <1>16, <2>2, <1>l, ForsakenType, FrontType, EmptySeq
      DEF Refused, GiveUp, QueueRollback, Forsaken, TypeOK, CallShape
    <3>2. call \in {"begin", "commit", "rollback"}
      BY <1>16, <2>2 DEF Refused, TypeOK, CallShape, Calls, Statements
    <3>3. wire = "unread" => needs_reset
      BY <1>16, <3>2 DEF Refused, Recovery
    <3>4. call' = "none" /\ at' = "idle" /\ pending_rollback' = TRUE /\ UNCHANGED <<needs_reset, wire>>
      BY <1>16, <2>2 DEF Refused, GiveUp, Return, QueueRollback, session
    <3> QED
      BY <3>1, <3>3, <3>4 DEF Recovery, Statements
  <2> QED
    BY <2>1, <2>2
<1>17. CASE Aborted
  BY <1>17 DEF Aborted, GiveUp, Return, CallShape, Recovery, Statements
<1>18. CASE ReadFails \/ Cancelled
  BY <1>18 DEF ReadFails, Cancelled
<1>19. CASE UNCHANGED vars
  BY <1>19 DEF vars, conn, session, Recovery
<1> QED
  BY <1>1, <1>2, <1>3, <1>4, <1>5, <1>6, <1>7, <1>8, <1>9, <1>10, <1>11, <1>12, <1>13,
     <1>14, <1>15, <1>16, <1>17, <1>18, <1>19
  DEF Next, Answer

\* The four promises of drain_pending and ResetGuard, for connections of any
\* nesting depth and under every fault: until an answer breaks off while it is
\* read or a future is dropped at an await, requests start clear, unread answers
\* are flagged, abandoned transactions are queued, and nothing sent at depth 0
\* joins one.
THEOREM RecoveryHolds ==
    Spec => [](/\ StatementsStartClear
               /\ HalfReadIsFlagged
               /\ AbandonedIsQueued
               /\ NothingJoinsAbandoned)
<1>1. Init => IInv
  BY InitShape, InitRecovery DEF IInv
<1>2. IInv /\ [Next]_vars => IInv'
  <2> SUFFICES ASSUME IInv, [Next]_vars PROVE IInv'
    OBVIOUS
  <2>1. TypeOK' /\ CallShape'
    BY NextShape DEF IInv
  <2>2. ~broken' => Recovery'
    BY BrokenStays, NextRecovery DEF IInv
  <2> QED
    BY <2>1, <2>2 DEF IInv
<1>3. IInv => /\ StatementsStartClear
              /\ HalfReadIsFlagged
              /\ AbandonedIsQueued
              /\ NothingJoinsAbandoned
  <2> SUFFICES ASSUME IInv
               PROVE  /\ StatementsStartClear
                      /\ HalfReadIsFlagged
                      /\ AbandonedIsQueued
                      /\ NothingJoinsAbandoned
    OBVIOUS
  <2>1. StatementsStartClear
    BY DEF IInv, TypeOK, CallShape, Recovery, StatementsStartClear, Calls, Statements
  <2>2. HalfReadIsFlagged
    BY DEF IInv, CallShape, Recovery, HalfReadIsFlagged
  <2>3. AbandonedIsQueued
    <3> SUFFICES ASSUME ~broken, at = "idle", work = <<>>, tran # <<>>
                 PROVE  pending_rollback
      BY DEF AbandonedIsQueued, FlagRemembersDropped
    <3>1. Len(work) = 0
      BY EmptySeq
    <3>2. transaction_depth = 0
      BY <3>1 DEF IInv, TypeOK, Recovery
    <3> QED
      BY <3>2 DEF IInv, Recovery
  <2>4. NothingJoinsAbandoned
    BY DEF IInv, CallShape, Recovery, NothingJoinsAbandoned
  <2> QED
    BY <2>1, <2>2, <2>3, <2>4
<1> QED
  BY <1>1, <1>2, <1>3, PTL DEF Spec

-----------------------------------------------------------------------------
(* The savepoints hold what the handles wrote, and the connection implements *)
(* NestedTransactions.  The structure of a transaction, as an operator on    *)
(* its marks t and the handles' writes w.                                    *)

Named(t, n) == {i \in DOMAIN t : t[i].name = n}

\* Where level n + 1 begins: at the latest mark of its name.
Begins(t, n) == Max(Named(t, n))

\* Where level n ends: before the next level of k, or with the transaction.
Ends(t, n, k) == IF n = k THEN Len(t) ELSE Begins(t, n) - 1

\* What was written from mark i to mark j.
Between(t, i, j) == UNION {t[k].writes : k \in i .. j}

\* SavepointsHoldWork, and that a transaction has nothing before its first level.
Levels(t, w) ==
    /\ \A n \in 0 .. Len(w) - 1 : Named(t, n) # {}
    /\ Len(w) > 0 => Begins(t, 0) = 1
    /\ \A n \in 1 .. Len(w) - 1 : Begins(t, n - 1) < Begins(t, n)
    /\ \A n \in 1 .. Len(w) : w[n] = Between(t, Begins(t, n - 1), Ends(t, n, Len(w)))

-----------------------------------------------------------------------------
(* Where levels begin. *)

\* A level begins at the last mark of its name,
LEMMA BeginsIsLast ==
    ASSUME NEW t \in Seq(MarkType), NEW n, Named(t, n) # {}
    PROVE  /\ Begins(t, n) \in 1 .. Len(t)
           /\ t[Begins(t, n)].name = n
           /\ \A i \in 1 .. Len(t) : t[i].name = n => i <= Begins(t, n)
<1>1. Len(t) \in Nat /\ DOMAIN t = 1 .. Len(t)
  BY LenProperties
<1>2. Named(t, n) \in SUBSET (1 .. Len(t))
  BY <1>1 DEF Named
<1>3. /\ Max(Named(t, n)) \in Named(t, n)
      /\ \A i \in Named(t, n) : Max(Named(t, n)) >= i
  BY <1>1, <1>2, MaxIsGreatest
<1> QED
  BY <1>1, <1>3 DEF Begins, Named

\* and a mark that none of its name follows is where its level begins.
LEMMA LastIsBegins ==
    ASSUME NEW t \in Seq(MarkType), NEW n, NEW j \in 1 .. Len(t), t[j].name = n,
           \A i \in j + 1 .. Len(t) : t[i].name # n
    PROVE  Named(t, n) # {} /\ Begins(t, n) = j
<1>1. Len(t) \in Nat /\ DOMAIN t = 1 .. Len(t)
  BY LenProperties
<1>2. j \in Named(t, n)
  BY <1>1 DEF Named
<1>3. /\ Begins(t, n) \in 1 .. Len(t)
      /\ t[Begins(t, n)].name = n
      /\ \A i \in 1 .. Len(t) : t[i].name = n => i <= Begins(t, n)
  BY <1>2, BeginsIsLast
<1>4. j <= Begins(t, n)
  BY <1>3
<1>5. ~(j < Begins(t, n))
  BY <1>3
<1> QED
  BY <1>2, <1>3, <1>4, <1>5

\* Levels begin in order.
LEMMA LevelsInOrder ==
    ASSUME NEW t \in Seq(MarkType), NEW w \in Seq(SUBSET Write), Levels(t, w),
           NEW m \in 0 .. Len(w) - 1, NEW n \in 0 .. Len(w) - 1, m < n
    PROVE  Begins(t, m) < Begins(t, n)
<1>1. Len(w) \in Nat
  BY LenProperties
<1>2. \A k \in 0 .. Len(w) - 1 : Begins(t, k) \in 1 .. Len(t)
  BY BeginsIsLast DEF Levels
<1> DEFINE Wrong == {k \in Nat : m < k /\ k < Len(w) /\ ~(Begins(t, m) < Begins(t, k))}
<1>3. CASE Wrong # {}
  <2>1. PICK k \in Wrong : \A y \in Wrong : ~(<<y, k>> \in OpToRel(<, Nat))
    BY <1>3, NatLessThanWellFounded, WFMin
  <2>2. k \in Nat /\ m < k /\ k < Len(w) /\ ~(Begins(t, m) < Begins(t, k))
    OBVIOUS
  <2>3. Begins(t, k - 1) < Begins(t, k)
    BY <1>1, <2>2 DEF Levels
  <2>4. k - 1 \in Nat /\ k \in Nat /\ k - 1 < k
    BY <2>2
  <2>5. k - 1 \notin Wrong
    BY <2>1, <2>4 DEF OpToRel
  <2>6. k - 1 = m \/ Begins(t, m) < Begins(t, k - 1)
    BY <1>1, <2>2, <2>5
  <2>7. /\ Begins(t, m) \in Int /\ Begins(t, k) \in Int /\ Begins(t, k - 1) \in Int
    BY <1>1, <1>2, <2>2
  <2> HIDE DEF Wrong
  <2> QED
    BY <2>2, <2>3, <2>6, <2>7
<1>4. CASE Wrong = {}
  BY <1>1, <1>4
<1> QED
  BY <1>3, <1>4

-----------------------------------------------------------------------------
(* What a request does to the levels. *)

\* BEGIN opens the first one.
LEMMA LevelsOfBegin ==
    ASSUME NEW w \in Seq(SUBSET Write), Len(w) = 0
    PROVE  Levels(<<Mark(0)>>, Append(w, {}))
<1> DEFINE u == <<Mark(0)>>
           x == Append(w, {})
<1>1. Mark(0) \in MarkType /\ Mark(0).name = 0 /\ Mark(0).writes = {}
  BY DEF Mark, MarkType
<1>2. u \in Seq(MarkType) /\ Len(u) = 1 /\ u[1] = Mark(0)
  BY <1>1
<1>3. Len(x) = 1 /\ x[1] = {}
  BY AppendProperties
<1> HIDE DEF u, x
<1>4. Named(u, 0) # {} /\ Begins(u, 0) = 1
  BY <1>1, <1>2, LastIsBegins
<1>5. Between(u, 1, 1) = {}
  BY <1>1, <1>2 DEF Between
<1>6. \A n \in 0 .. 0 : Named(u, n) # {}
  BY <1>4
<1>7. \A n \in 1 .. 1 : x[n] = Between(u, Begins(u, n - 1), Ends(u, n, 1))
  <2> TAKE n \in 1 .. 1
  <2>1. n = 1 /\ n - 1 = 0
    OBVIOUS
  <2>2. Begins(u, n - 1) = 1 /\ Ends(u, n, 1) = 1
    BY <1>2, <1>4, <2>1 DEF Ends
  <2> QED
    BY <1>3, <1>5, <2>1, <2>2
<1>8. 0 .. Len(x) - 1 = 0 .. 0 /\ 1 .. Len(x) - 1 = {} /\ 1 .. Len(x) = 1 .. 1
  BY <1>3
<1>9. Levels(u, x)
  BY <1>3, <1>4, <1>6, <1>7, <1>8 DEF Levels
<1> QED
  BY <1>9 DEF u, x

\* SAVE opens one above the others, and takes nothing from them.
LEMMA LevelsOfSave ==
    ASSUME NEW t \in Seq(MarkType), NEW w \in Seq(SUBSET Write), Levels(t, w), Len(w) > 0
    PROVE  Levels(Append(t, Mark(Len(w))), Append(w, {}))
<1> DEFINE k == Len(w)
           l == Len(t)
           u == Append(t, Mark(k))
           x == Append(w, {})
<1>1. k \in Nat /\ l \in Nat
  BY LenProperties
<1>2. Mark(k) \in MarkType /\ Mark(k).name = k /\ Mark(k).writes = {}
  BY <1>1 DEF Mark, MarkType
<1>3. /\ u \in Seq(MarkType) /\ Len(u) = l + 1 /\ u[l + 1] = Mark(k)
      /\ \A i \in 1 .. l : u[i] = t[i]
  BY <1>2, AppendProperties
<1>4. Len(x) = k + 1 /\ x[k + 1] = {} /\ \A n \in 1 .. k : x[n] = w[n]
  BY AppendProperties
<1>5. \A n \in 0 .. k - 1 : Named(t, n) # {}
  BY DEF Levels
<1>6. k > 0
  OBVIOUS
<1>7. /\ Begins(t, 0) = 1
      /\ \A n \in 1 .. k - 1 : Begins(t, n - 1) < Begins(t, n)
      /\ \A n \in 1 .. k : w[n] = Between(t, Begins(t, n - 1), Ends(t, n, k))
  BY DEF Levels
<1> HIDE DEF k, l, u, x
<1>8. ASSUME NEW n \in 0 .. k - 1
      PROVE  /\ Named(u, n) # {} /\ Begins(u, n) = Begins(t, n)
             /\ Begins(t, n) \in 1 .. l
  <2>1. /\ Begins(t, n) \in 1 .. l
        /\ t[Begins(t, n)].name = n
        /\ \A i \in 1 .. l : t[i].name = n => i <= Begins(t, n)
    BY <1>5, BeginsIsLast DEF l
  <2>2. Begins(t, n) \in 1 .. Len(u) /\ u[Begins(t, n)].name = n
    BY <1>1, <1>3, <2>1
  <2>3. \A i \in Begins(t, n) + 1 .. Len(u) : u[i].name # n
    <3> TAKE i \in Begins(t, n) + 1 .. Len(u)
    <3>1. CASE i = l + 1
      BY <1>1, <1>2, <1>3, <3>1
    <3>2. CASE i # l + 1
      <4>1. i \in 1 .. l /\ i > Begins(t, n)
        BY <1>1, <1>3, <2>1, <3>2
      <4> QED
        BY <1>3, <2>1, <4>1
    <3> QED
      BY <3>1, <3>2
  <2> QED
    BY <1>3, <2>1, <2>2, <2>3, LastIsBegins
<1>9. Named(u, k) # {} /\ Begins(u, k) = l + 1
  <2>1. l + 1 \in 1 .. Len(u) /\ l + 1 + 1 .. Len(u) = {}
    BY <1>1, <1>3
  <2>2. u[l + 1].name = k
    BY <1>2, <1>3
  <2> QED
    BY <1>3, <2>1, <2>2, LastIsBegins
<1>10. \A i \in 1 .. l + 1 : \A j \in 0 .. l : Between(u, i, j) = Between(t, i, j)
  <2> TAKE i \in 1 .. l + 1
  <2> TAKE j \in 0 .. l
  <2>1. \A m \in i .. j : u[m] = t[m]
    BY <1>1, <1>3
  <2> QED
    BY <2>1 DEF Between
<1>11. Between(u, l + 1, l + 1) = {}
  BY <1>1, <1>2, <1>3 DEF Between
<1>12. \A n \in 0 .. k : Named(u, n) # {}
  <2> TAKE n \in 0 .. k
  <2>1. CASE n = k
    BY <1>9, <2>1
  <2>2. CASE n # k
    <3>1. n \in 0 .. k - 1
      BY <1>1, <2>2
    <3> QED
      BY <1>8, <3>1
  <2> QED
    BY <2>1, <2>2
<1>13. Begins(u, 0) = 1
  BY <1>1, <1>6, <1>7, <1>8
<1>14. \A n \in 1 .. k : Begins(u, n - 1) < Begins(u, n)
  <2> TAKE n \in 1 .. k
  <2>1. n - 1 \in 0 .. k - 1
    BY <1>1
  <2>2. CASE n = k
    BY <1>1, <1>8, <1>9, <2>1, <2>2
  <2>3. CASE n # k
    <3>1. n \in 0 .. k - 1 /\ n \in 1 .. k - 1
      BY <1>1, <2>3
    <3> QED
      BY <1>7, <1>8, <2>1, <3>1
  <2> QED
    BY <2>2, <2>3
<1>15. \A n \in 1 .. k + 1 : x[n] = Between(u, Begins(u, n - 1), Ends(u, n, k + 1))
  <2> TAKE n \in 1 .. k + 1
  <2>1. CASE n = k + 1
    <3>1. n - 1 = k
      BY <1>1, <2>1
    <3>2. Begins(u, n - 1) = l + 1 /\ Ends(u, n, k + 1) = l + 1
      BY <1>3, <1>9, <2>1, <3>1 DEF Ends
    <3> QED
      BY <1>4, <1>11, <2>1, <3>2
  <2>2. CASE n # k + 1
    <3>1. n \in 1 .. k /\ n - 1 \in 0 .. k - 1
      BY <1>1, <2>2
    <3>2. Ends(u, n, k + 1) = Ends(t, n, k) /\ Ends(t, n, k) \in 0 .. l
      <4>1. CASE n = k
        BY <1>1, <1>9, <4>1 DEF Ends, l
      <4>2. CASE n # k
        <5>1. n \in 0 .. k - 1
          BY <1>1, <3>1, <4>2
        <5> QED
          BY <1>1, <1>8, <2>2, <4>2, <5>1 DEF Ends
      <4> QED
        BY <4>1, <4>2
    <3>3. Begins(u, n - 1) = Begins(t, n - 1) /\ Begins(t, n - 1) \in 1 .. l + 1
      BY <1>1, <1>8, <3>1
    <3> QED
      BY <1>4, <1>7, <1>10, <3>1, <3>2, <3>3
  <2> QED
    BY <2>1, <2>2
<1>16. Len(x) = k + 1 /\ Len(x) - 1 = k
  BY <1>1, <1>4
<1>17. Levels(u, x)
  BY <1>12, <1>13, <1>14, <1>15, <1>16 DEF Levels
<1> QED
  BY <1>17 DEF u, x, k

\* What lies between two marks is what lies before a third one, and after it.
LEMMA BetweenSplit ==
    ASSUME NEW t, NEW i \in Int, NEW j \in Int, NEW m \in Int, i <= m, m <= j + 1
    PROVE  Between(t, i, j) = Between(t, i, m - 1) \cup Between(t, m, j)
<1>1. i .. j = (i .. m - 1) \cup (m .. j)
  OBVIOUS
<1> QED
  BY <1>1 DEF Between

\* The handles but the innermost.
LEMMA FrontElements ==
    ASSUME NEW S, NEW s \in Seq(S), s # <<>>
    PROVE  /\ Front(s) \in Seq(S)
           /\ Len(Front(s)) = Len(s) - 1
           /\ \A n \in 1 .. Len(s) - 1 : Front(s)[n] = s[n]
<1>1. Len(s) \in Nat /\ Len(s) >= 1
  BY EmptySeq
<1>2. \A i \in 1 .. Len(s) - 1 : s[i] \in S
  BY <1>1, ElementOfSeq
<1> DEFINE l == Len(s) - 1
<1>3. l \in Int /\ 1 \in Int /\ l - 1 + 1 = l
  BY <1>1
<1> HIDE DEF l
<1>4. \A i \in 1 .. l - 1 + 1 : SubSeq(s, 1, l)[i] = s[1 + i - 1]
  BY <1>2, <1>3, SubSeqProperties DEF l
<1>5. \A i \in 1 .. l : 1 + i - 1 = i
  BY <1>3
<1>6. Front(s) = SubSeq(s, 1, l)
  BY DEF Front, l
<1>7. \A i \in 1 .. l : Front(s)[i] = s[i]
  BY <1>3, <1>4, <1>5, <1>6
<1> QED
  BY <1>7, FrontType DEF l

\* The handles with the innermost two merged.
LEMMA MergedElements ==
    ASSUME NEW s \in Seq(SUBSET Write), Len(s) >= 2
    PROVE  /\ Promise!Merged(s) \in Seq(SUBSET Write)
           /\ Len(Promise!Merged(s)) = Len(s) - 1
           /\ \A n \in 1 .. Len(s) - 2 : Promise!Merged(s)[n] = s[n]
           /\ Promise!Merged(s)[Len(s) - 1] = s[Len(s) - 1] \cup s[Len(s)]
<1>1. Len(s) \in Nat /\ s # <<>>
  BY EmptySeq, LenProperties
<1>2. /\ Front(s) \in Seq(SUBSET Write)
      /\ Len(Front(s)) = Len(s) - 1
      /\ \A n \in 1 .. Len(s) - 1 : Front(s)[n] = s[n]
  BY <1>1, FrontElements
<1> DEFINE f == Front(s)
           b == Front(Front(s))
           both == s[Len(s) - 1] \cup s[Len(s)]
<1>3. f # <<>>
  BY <1>1, <1>2, EmptySeq
<1>4. /\ b \in Seq(SUBSET Write)
      /\ Len(b) = Len(f) - 1
      /\ \A n \in 1 .. Len(f) - 1 : b[n] = f[n]
  BY <1>2, <1>3, FrontElements
<1>5. both \in SUBSET Write
  BY <1>1, ElementOfSeq
<1>6. Promise!Merged(s) = Append(b, both)
  BY <1>1 DEF Promise!Merged, Promise!Front, Front
<1>7. Len(f) = Len(s) - 1 /\ \A n \in 1 .. Len(s) - 1 : f[n] = s[n]
  BY <1>2
<1> HIDE DEF f, b, both
<1>8. /\ Append(b, both) \in Seq(SUBSET Write)
      /\ Len(Append(b, both)) = Len(b) + 1
      /\ \A n \in 1 .. Len(b) : Append(b, both)[n] = b[n]
      /\ Append(b, both)[Len(b) + 1] = both
  BY <1>4, <1>5, AppendProperties
<1>9. Len(b) = Len(s) - 2 /\ Len(b) + 1 = Len(s) - 1
  BY <1>1, <1>4, <1>7
<1>10. \A n \in 1 .. Len(s) - 2 : n \in 1 .. Len(s) - 1 /\ n \in 1 .. Len(f) - 1
  BY <1>1, <1>7
<1> QED
  BY <1>4, <1>6, <1>7, <1>8, <1>9, <1>10 DEF both

\* An inner commit sends nothing: its level becomes part of the one below.
LEMMA LevelsOfMerge ==
    ASSUME NEW t \in Seq(MarkType), NEW w \in Seq(SUBSET Write), Levels(t, w), Len(w) >= 2
    PROVE  Levels(t, Promise!Merged(w))
<1> DEFINE k == Len(w)
           l == Len(t)
           x == Promise!Merged(w)
<1>1. k \in Nat /\ l \in Nat /\ k >= 2
  BY LenProperties
<1>2. /\ Len(x) = k - 1 /\ \A n \in 1 .. k - 2 : x[n] = w[n]
      /\ x[k - 1] = w[k - 1] \cup w[k]
  BY MergedElements
<1>3. /\ \A n \in 0 .. k - 1 : Named(t, n) # {}
      /\ Begins(t, 0) = 1
      /\ \A n \in 1 .. k - 1 : Begins(t, n - 1) < Begins(t, n)
      /\ \A n \in 1 .. k : w[n] = Between(t, Begins(t, n - 1), Ends(t, n, k))
  BY DEF Levels
<1> HIDE DEF k, l, x
<1>4. \A n \in 0 .. k - 1 : Begins(t, n) \in 1 .. l
  BY <1>3, BeginsIsLast DEF l
<1>5. \A n \in 1 .. k - 1 : x[n] = Between(t, Begins(t, n - 1), Ends(t, n, k - 1))
  <2> TAKE n \in 1 .. k - 1
  <2>1. CASE n # k - 1
    <3>1. n \in 1 .. k - 2 /\ n \in 1 .. k /\ n # k
      BY <1>1, <2>1
    <3>2. Ends(t, n, k - 1) = Ends(t, n, k)
      BY <2>1, <3>1 DEF Ends
    <3> QED
      BY <1>2, <1>3, <3>1, <3>2
  <2>2. CASE n = k - 1
    <3>1. k - 1 \in 1 .. k /\ k \in 1 .. k /\ k - 1 # k /\ k - 2 \in 0 .. k - 1
          /\ k - 1 \in 0 .. k - 1 /\ k - 1 \in 1 .. k - 1 /\ k - 1 - 1 = k - 2
      BY <1>1
    <3> DEFINE i == Begins(t, k - 2)
               m == Begins(t, k - 1)
    <3>2. w[k - 1] = Between(t, i, m - 1)
      BY <1>3, <3>1 DEF Ends
    <3>3. w[k] = Between(t, m, l)
      BY <1>3, <3>1 DEF Ends, l
    <3>4. i \in 1 .. l /\ m \in 1 .. l /\ i < m
      BY <1>3, <1>4, <3>1
    <3> HIDE DEF i, m
    <3>5. Between(t, i, l) = Between(t, i, m - 1) \cup Between(t, m, l)
      BY <1>1, <3>4, BetweenSplit
    <3>6. Begins(t, n - 1) = i /\ Ends(t, n, k - 1) = l
      BY <2>2, <3>1 DEF Ends, i, l
    <3> QED
      BY <1>2, <2>2, <3>2, <3>3, <3>5, <3>6
  <2> QED
    BY <2>1, <2>2
<1>6. \A n \in 0 .. Len(x) - 1 : Named(t, n) # {}
  <2>1. \A n \in 0 .. Len(x) - 1 : n \in 0 .. k - 1
    BY <1>1, <1>2
  <2> QED
    BY <1>3, <2>1
<1>7. \A n \in 1 .. Len(x) - 1 : Begins(t, n - 1) < Begins(t, n)
  BY <1>1, <1>2, <1>3
<1>8. Levels(t, x)
  BY <1>2, <1>3, <1>5, <1>6, <1>7 DEF Levels
<1> QED
  BY <1>8 DEF x

\* ROLLBACK to a savepoint takes the innermost level away, and its writes.
LEMMA LevelsOfRollback ==
    ASSUME NEW t \in Seq(MarkType), NEW w \in Seq(SUBSET Write), Levels(t, w), Len(w) >= 2
    PROVE  Levels(Append(SubSeq(t, 1, Begins(t, Len(w) - 1) - 1), Mark(Len(w) - 1)), Front(w))
<1> DEFINE k == Len(w)
           l == Len(t)
           i == Begins(t, k - 1)
           b == SubSeq(t, 1, i - 1)
           u == Append(b, Mark(k - 1))
           x == Front(w)
<1>1. k \in Nat /\ l \in Nat /\ k >= 2 /\ w # <<>>
  BY LenProperties, EmptySeq
<1>2. Len(x) = k - 1 /\ \A n \in 1 .. k - 1 : x[n] = w[n]
  BY <1>1, FrontElements
<1>3. /\ \A n \in 0 .. k - 1 : Named(t, n) # {}
      /\ Begins(t, 0) = 1
      /\ \A n \in 1 .. k - 1 : Begins(t, n - 1) < Begins(t, n)
      /\ \A n \in 1 .. k : w[n] = Between(t, Begins(t, n - 1), Ends(t, n, k))
  BY DEF Levels
<1>4. \A n \in 0 .. k - 2 : Begins(t, n) < i
  <2> TAKE n \in 0 .. k - 2
  <2>1. n \in 0 .. k - 1 /\ k - 1 \in 0 .. k - 1 /\ n < k - 1
    BY <1>1
  <2> QED
    BY <2>1, LevelsInOrder
<1> HIDE DEF k
<1>5. \A n \in 0 .. k - 1 :
          /\ Begins(t, n) \in 1 .. l
          /\ t[Begins(t, n)].name = n
          /\ \A j \in 1 .. l : t[j].name = n => j <= Begins(t, n)
  BY <1>3, BeginsIsLast
<1> HIDE DEF l
<1>6. i \in 1 .. l
  BY <1>1, <1>5
<1> HIDE DEF i
<1>7. \A j \in 1 .. i - 1 : t[j] \in MarkType
  BY <1>1, <1>6, ElementOfSeq DEF l
<1>8. /\ b \in Seq(MarkType) /\ Len(b) = i - 1
      /\ \A j \in 1 .. i - 1 : b[j] = t[j]
  <2> DEFINE h == i - 1
  <2>1. h \in Int /\ 1 \in Int /\ h - 1 + 1 = h /\ (1 <= h \/ h = 0)
    BY <1>6
  <2>2. \A j \in 1 .. h : t[j] \in MarkType
    BY <1>7
  <2> HIDE DEF h
  <2>3. /\ SubSeq(t, 1, h) \in Seq(MarkType)
        /\ Len(SubSeq(t, 1, h)) = IF 1 <= h THEN h - 1 + 1 ELSE 0
        /\ \A j \in 1 .. h - 1 + 1 : SubSeq(t, 1, h)[j] = t[1 + j - 1]
    BY <2>1, <2>2, SubSeqProperties
  <2>4. \A j \in 1 .. h : 1 + j - 1 = j
    BY <2>1
  <2>5. \A j \in 1 .. h : SubSeq(t, 1, h)[j] = t[j]
    BY <2>1, <2>3, <2>4
  <2>6. Len(SubSeq(t, 1, h)) = h
    BY <2>1, <2>3
  <2> QED
    BY <2>3, <2>5, <2>6 DEF h
<1> HIDE DEF b, x
<1>9. Mark(k - 1) \in MarkType /\ Mark(k - 1).name = k - 1 /\ Mark(k - 1).writes = {}
  <2>1. k - 1 \in Nat
    BY <1>1
  <2> QED
    BY <2>1 DEF Mark, MarkType
<1>10. /\ u \in Seq(MarkType) /\ Len(u) = i /\ u[i] = Mark(k - 1)
       /\ \A j \in 1 .. i - 1 : u[j] = t[j]
  <2>1. i - 1 + 1 = i
    BY <1>6
  <2> QED
    BY <1>8, <1>9, <2>1, AppendProperties
<1> HIDE DEF u
<1>11. ASSUME NEW n \in 0 .. k - 2
       PROVE  Named(u, n) # {} /\ Begins(u, n) = Begins(t, n) /\ Begins(t, n) \in 1 .. i - 1
  <2>1. n \in 0 .. k - 1 /\ n # k - 1
    BY <1>1
  <2> DEFINE j == Begins(t, n)
  <2>2. /\ j \in 1 .. l /\ t[j].name = n /\ j < i
        /\ \A q \in 1 .. l : t[q].name = n => q <= j
    BY <1>4, <1>5, <2>1
  <2> HIDE DEF j
  <2>3. j \in 1 .. Len(u) /\ j \in 1 .. i - 1 /\ u[j].name = n
    BY <1>6, <1>10, <2>2
  <2>4. \A q \in j + 1 .. Len(u) : u[q].name # n
    <3> TAKE q \in j + 1 .. Len(u)
    <3>1. CASE q = i
      BY <1>9, <1>10, <2>1, <3>1
    <3>2. CASE q # i
      <4>1. q \in 1 .. i - 1 /\ q \in 1 .. l /\ q > j
        BY <1>1, <1>6, <1>10, <2>2, <3>2
      <4> QED
        BY <1>10, <2>2, <4>1
    <3> QED
      BY <3>1, <3>2
  <2> QED
    BY <1>10, <2>3, <2>4, LastIsBegins DEF j
<1>12. \A m \in 1 .. i : \A q \in 0 .. i - 1 : Between(u, m, q) = Between(t, m, q)
  <2> TAKE m \in 1 .. i
  <2> TAKE q \in 0 .. i - 1
  <2>1. \A j \in m .. q : u[j] = t[j]
    BY <1>6, <1>10
  <2> QED
    BY <2>1 DEF Between
<1>13. Between(u, i, i) = {}
  BY <1>6, <1>9, <1>10 DEF Between
<1>14. \A n \in 1 .. k - 1 : x[n] = Between(u, Begins(u, n - 1), Ends(u, n, k - 1))
  <2> TAKE n \in 1 .. k - 1
  <2>1. n \in 1 .. k /\ n # k /\ n - 1 \in 0 .. k - 2
    BY <1>1
  <2>2. w[n] = Between(t, Begins(t, n - 1), Begins(t, n) - 1)
    BY <1>3, <2>1 DEF Ends
  <2>3. Begins(u, n - 1) = Begins(t, n - 1) /\ Begins(t, n - 1) \in 1 .. i - 1
    BY <1>11, <2>1
  <2>4. CASE n = k - 1
    <3>1. Begins(t, n) = i /\ Ends(u, n, k - 1) = i
      BY <1>10, <2>4 DEF Ends, i
    <3> DEFINE m == Begins(t, n - 1)
    <3>2. m \in 1 .. i - 1
      BY <2>3
    <3> HIDE DEF m
    <3>3. m \in Int /\ i \in Int /\ m <= i /\ i <= i + 1 /\ m \in 1 .. i /\ i - 1 \in 0 .. i - 1
      BY <1>6, <3>2
    <3>4. Between(u, m, i) = Between(u, m, i - 1) \cup Between(u, i, i)
      BY <3>3, BetweenSplit
    <3>5. Between(u, m, i) = Between(t, m, i - 1)
      BY <1>12, <1>13, <3>3, <3>4
    <3> QED
      BY <1>2, <2>2, <2>3, <3>1, <3>5 DEF m
  <2>5. CASE n # k - 1
    <3>1. n \in 0 .. k - 2
      BY <1>1, <2>5
    <3>2. Begins(u, n) = Begins(t, n) /\ Begins(t, n) \in 1 .. i - 1
      BY <1>11, <3>1
    <3>3. Ends(u, n, k - 1) = Begins(t, n) - 1
      BY <2>5, <3>2 DEF Ends
    <3>4. Begins(t, n) - 1 \in 0 .. i - 1 /\ Begins(t, n - 1) \in 1 .. i
      BY <1>6, <2>3, <3>2
    <3> QED
      BY <1>2, <1>12, <2>2, <2>3, <3>3, <3>4
  <2> QED
    BY <2>4, <2>5
<1>15. \A n \in 0 .. k - 2 : Named(u, n) # {}
  BY <1>11
<1>16. Begins(u, 0) = 1
  BY <1>1, <1>3, <1>11
<1>17. \A n \in 1 .. k - 2 : Begins(u, n - 1) < Begins(u, n)
  <2> TAKE n \in 1 .. k - 2
  <2>1. n \in 0 .. k - 2 /\ n - 1 \in 0 .. k - 2 /\ n \in 1 .. k - 1
    BY <1>1
  <2> QED
    BY <1>3, <1>11, <2>1
<1>18. Len(x) = k - 1 /\ Len(x) - 1 = k - 2
  BY <1>1, <1>2
<1>19. Levels(u, x)
  BY <1>14, <1>15, <1>16, <1>17, <1>18 DEF Levels
<1> QED
  BY <1>19 DEF u, b, i, x, k

\* A statement's write goes to the innermost level.
LEMMA LevelsOfWrite ==
    ASSUME NEW t \in Seq(MarkType), NEW w \in Seq(SUBSET Write), Levels(t, w), Len(w) > 0,
           NEW c \in Write
    PROVE  /\ t # <<>>
           /\ Levels([t EXCEPT ![Len(t)].writes = @ \cup {c}], Promise!Charged(w, c))
<1> DEFINE k == Len(w)
           l == Len(t)
           mark == [t[l] EXCEPT !.writes = @ \cup {c}]
           u == [t EXCEPT ![l] = mark]
           top == w[k] \cup {c}
           x == [w EXCEPT ![k] = top]
<1>1. k \in Nat /\ l \in Nat /\ k > 0 /\ w # <<>>
  BY LenProperties, EmptySeq
<1>2. /\ \A n \in 0 .. k - 1 : Named(t, n) # {}
      /\ Begins(t, 0) = 1
      /\ \A n \in 1 .. k - 1 : Begins(t, n - 1) < Begins(t, n)
      /\ \A n \in 1 .. k : w[n] = Between(t, Begins(t, n - 1), Ends(t, n, k))
  BY DEF Levels
<1>3. \A n \in 0 .. k - 1 : Begins(t, n) \in 1 .. l
  BY <1>2, BeginsIsLast
<1>4. l \in 1 .. l /\ k \in 1 .. k
  BY <1>1, <1>3
<1>5. t # <<>>
  BY <1>4, EmptySeq
<1>6. t[l] \in MarkType /\ w[k] \in SUBSET Write
  BY <1>4, ElementOfSeq
<1>7. /\ mark \in MarkType /\ mark.name = t[l].name
      /\ mark.writes = t[l].writes \cup {c}
  BY <1>6 DEF MarkType
<1>8. top \in SUBSET Write
  BY <1>6
<1> HIDE DEF mark, top
<1>9. /\ u \in Seq(MarkType) /\ Len(u) = l
      /\ \A j \in 1 .. l : u[j] = IF j = l THEN mark ELSE t[j]
  BY <1>4, <1>7, ExceptSeq
<1>10. /\ x \in Seq(SUBSET Write) /\ Len(x) = k
       /\ \A n \in 1 .. k : x[n] = IF n = k THEN top ELSE w[n]
  BY <1>4, <1>8, ExceptSeq
<1>11. /\ [t EXCEPT ![Len(t)].writes = @ \cup {c}] = u
       /\ Promise!Charged(w, c) = x
  BY <1>1 DEF Promise!Charged, mark, top
<1> HIDE DEF k, l, u, x
<1>12. \A n \in 0 .. k : Named(u, n) = Named(t, n)
  <2>1. DOMAIN u = 1 .. l /\ DOMAIN t = 1 .. l
    BY <1>9, LenProperties DEF l
  <2>2. \A j \in 1 .. l : u[j].name = t[j].name
    BY <1>7, <1>9
  <2> QED
    BY <2>1, <2>2 DEF Named
<1>13. \A n \in 0 .. k : Begins(u, n) = Begins(t, n)
  BY <1>12 DEF Begins
<1>14. \A n \in 1 .. k : x[n] = Between(u, Begins(u, n - 1), Ends(u, n, k))
  <2> TAKE n \in 1 .. k
  <2>1. n - 1 \in 0 .. k - 1 /\ n - 1 \in 0 .. k /\ n \in 0 .. k
    BY <1>1
  <2> DEFINE m == Begins(t, n - 1)
             e == Ends(t, n, k)
  <2>2. Begins(u, n - 1) = m /\ m \in 1 .. l
    BY <1>3, <1>13, <2>1
  <2>3. Ends(u, n, k) = e
    BY <1>9, <1>13, <2>1 DEF Ends, l
  <2>4. w[n] = Between(t, m, e)
    BY <1>2
  <2>5. CASE n = k
    <3>1. e = l
      BY <2>5 DEF Ends, l
    <3> HIDE DEF m, e
    <3>2. l \in m .. e
      BY <1>1, <2>2, <3>1
    <3>3. Between(u, m, e) = Between(t, m, e) \cup {c}
      <4>1. \A j \in m .. e : j \in 1 .. l
        BY <1>1, <2>2, <3>1
      <4>2. \A j \in m .. e : u[j].writes = IF j = l THEN t[j].writes \cup {c} ELSE t[j].writes
        BY <1>7, <1>9, <4>1
      <4> QED
        BY <3>2, <4>2 DEF Between
    <3> QED
      BY <1>10, <2>2, <2>3, <2>4, <2>5, <3>3 DEF top, m, e
  <2>6. CASE n # k
    <3>1. n \in 0 .. k - 1
      BY <1>1, <2>6
    <3>2. e = Begins(t, n) - 1 /\ Begins(t, n) \in 1 .. l
      BY <1>3, <2>6, <3>1 DEF Ends
    <3> HIDE DEF m, e
    <3>3. \A j \in m .. e : j \in 1 .. l /\ j # l
      BY <1>1, <2>2, <3>2
    <3>4. \A j \in m .. e : u[j] = t[j]
      BY <1>9, <3>3
    <3>5. Between(u, m, e) = Between(t, m, e)
      BY <3>4 DEF Between
    <3> QED
      BY <1>10, <2>2, <2>3, <2>4, <2>6, <3>5 DEF m, e
  <2> QED
    BY <2>5, <2>6
<1>15. \A n \in 1 .. k - 1 : Begins(u, n - 1) < Begins(u, n)
  <2> TAKE n \in 1 .. k - 1
  <2>1. n \in 0 .. k /\ n - 1 \in 0 .. k
    BY <1>1
  <2> QED
    BY <1>2, <1>13, <2>1
<1>16. Begins(u, 0) = 1
  BY <1>1, <1>2, <1>13
<1>17. \A n \in 0 .. k - 1 : Named(u, n) # {}
  <2>1. \A n \in 0 .. k - 1 : n \in 0 .. k
    BY <1>1
  <2> QED
    BY <1>2, <1>12, <2>1
<1>18. Levels(u, x)
  BY <1>10, <1>14, <1>15, <1>16, <1>17 DEF Levels
<1> QED
  BY <1>5, <1>11, <1>18 DEF u, x, k, l

\* The only level there is holds all the transaction has written.
LEMMA LevelOfAll ==
    ASSUME NEW t \in Seq(MarkType), NEW w \in Seq(SUBSET Write), Levels(t, w), Len(w) = 1
    PROVE  w[1] = UNION {t[i].writes : i \in DOMAIN t}
<1>1. DOMAIN t = 1 .. Len(t)
  BY LenProperties
<1>2. 1 \in 1 .. Len(w) /\ Len(w) > 0 /\ 1 - 1 = 0
  OBVIOUS
<1>3. w[1] = Between(t, Begins(t, 1 - 1), Ends(t, 1, Len(w))) /\ Begins(t, 0) = 1
  BY <1>2 DEF Levels
<1>4. Ends(t, 1, Len(w)) = Len(t)
  BY DEF Ends
<1> QED
  BY <1>1, <1>2, <1>3, <1>4 DEF Between

LEMMA LevelsOfNone ==
    ASSUME NEW t, NEW w, Len(w) = 0
    PROVE  Levels(t, w)
BY DEF Levels

-----------------------------------------------------------------------------
(* The invariant. *)

\* What the structure does not survive: a savepoint that is refused, and an
\* aborted transaction (both undo every level), an inner handle that is dropped,
\* and a commit or rollback refused because an answer is still on the wire.
Undisturbed == ClientDrains /\ Faults \cap {"save", "abort", "drop_inner"} = {}

\* The depth counts the handles, and each has its level.
Aligned == transaction_depth = Len(work) /\ Levels(tran, work)

\* While a handle is open no request of begin, commit or rollback is refused.
LEMMA Granted ==
    ASSUME Undisturbed, TypeOK, CallShape, Aligned, Len(work) > 0,
           at = "send", call \notin Statements
    PROVE  Able /\ Request # "execute" /\ Request \notin Faults
<1>1. call \in {"begin", "commit", "rollback"}
  BY DEF TypeOK, CallShape, Calls, Statements
<1>2. transaction_depth = Len(work) /\ transaction_depth \in Nat /\ transaction_depth > 0
  BY DEF Aligned, TypeOK
<1>3. Request = CASE call = "begin"  -> "save"
                  [] call = "commit" -> "commit"
                  [] OTHER           -> IF transaction_depth = 1 THEN "rollback" ELSE "rollback_to"
  BY <1>1, <1>2 DEF Request
<1>4. tran # <<>>
  <2>1. 0 \in 0 .. Len(work) - 1
    BY <1>2
  <2>2. Begins(tran, 0) \in 1 .. Len(tran)
    BY <2>1, BeginsIsLast DEF Aligned, Levels, TypeOK
  <2> QED
    BY <2>2, EmptySeq
<1>5. Request = "rollback_to" => MarksNamed(SavepointBelow) # {}
  <2>1. transaction_depth - 1 \in 0 .. Len(work) - 1
    BY <1>2
  <2>2. Named(tran, transaction_depth - 1) # {}
    BY <2>1 DEF Aligned, Levels
  <2> QED
    BY <2>2 DEF Named, MarksNamed, SavepointBelow
<1>6. Request \in {"save", "commit", "rollback", "rollback_to"}
  BY <1>1, <1>3
<1>7. Able
  BY <1>4, <1>5, <1>6 DEF Able, Undisturbed
<1>8. Request \notin Faults
  BY <1>6, FaultsAssumption DEF Undisturbed, FaultNames
<1> QED
  BY <1>6, <1>7, <1>8

\* So a call that is refused leaves the handles as they were.
LEMMA RefusedKeepsWork ==
    ASSUME Undisturbed, TypeOK, CallShape, Aligned, Refused
    PROVE  /\ work' = work /\ UNCHANGED <<tran, durable>>
           /\ transaction_depth' = Len(work)
<1>1. UNCHANGED <<tran, durable>>
  BY DEF Refused, session
<1>2. CASE call \in Statements
  BY <1>1, <1>2 DEF Refused, GiveUp, Forsaken, Statements, Aligned
<1>3. CASE call \notin Statements
  <2>1. Len(work) \in Nat /\ (work # <<>> => Len(work) > 0)
    BY LenProperties, EmptySeq DEF TypeOK
  <2>2. Len(work) = 0
    <3>1. at = "undo" => Len(work) = 0
      BY DEF CallShape, Aligned
    <3>2. at = "send" => ~(Len(work) > 0)
      BY <1>3, Granted DEF Refused
    <3> QED
      BY <2>1, <3>1, <3>2 DEF Refused
  <2>3. call \notin {"commit", "rollback"}
    BY <2>1, <2>2 DEF CallShape
  <2> QED
    BY <1>1, <1>3, <2>2, <2>3 DEF Refused, GiveUp, QueueRollback, Forsaken
<1> QED
  BY <1>2, <1>3

\* A statement writes to the innermost level, or durably when there is none.
LEMMA ExecuteStep ==
    ASSUME TypeOK, Aligned, transaction_depth = 0 => tran = <<>>, Execute
    PROVE  /\ Levels(tran', work') /\ Len(work') = Len(work)
           /\ \/ UNCHANGED <<durable, work>>
              \/ \E c \in Write : /\ work' = Promise!Charged(work, c)
                                  /\ durable' = IF work = <<>> THEN durable \cup {c} ELSE durable
<1>1. CASE MakeNoChange
  BY <1>1 DEF MakeNoChange, Aligned
<1>2. ASSUME NEW c \in Write, MakeChange(c)
      PROVE  /\ Levels(tran', work') /\ Len(work') = Len(work)
             /\ work' = Promise!Charged(work, c)
             /\ durable' = IF work = <<>> THEN durable \cup {c} ELSE durable
  <2>1. work' = Promise!Charged(work, c) /\ Len(work') = Len(work)
    BY <1>2, ChargedType DEF MakeChange, TypeOK
  <2>2. Len(work) \in Nat /\ (work # <<>> <=> Len(work) > 0)
    BY LenProperties, EmptySeq DEF TypeOK
  <2>3. CASE work = <<>>
    <3>1. Len(work) = 0
      BY <2>2, <2>3
    <3>2. tran = <<>>
      BY <3>1 DEF Aligned
    <3>3. Levels(tran', work')
      BY <2>1, <3>1, LevelsOfNone
    <3> QED
      BY <1>2, <2>1, <2>3, <3>2, <3>3 DEF MakeChange
  <2>4. CASE work # <<>>
    <3>1. tran # <<>> /\ Levels([tran EXCEPT ![Len(tran)].writes = @ \cup {c}], Promise!Charged(work, c))
      BY <2>2, <2>4, LevelsOfWrite DEF Aligned, TypeOK
    <3> QED
      BY <1>2, <2>1, <2>4, <3>1 DEF MakeChange
  <2> QED
    BY <2>3, <2>4
<1> QED
  BY <1>1, <1>2 DEF Execute

\* Every step keeps the levels, and does to the writes what is promised.
LEMMA NextAligned ==
    ASSUME Undisturbed, TypeOK, CallShape, Recovery, Aligned, [Next]_vars, ~broken'
    PROVE  Aligned' /\ [Promise!Next]_(Promise!vars)
<1>l. /\ Len(work) \in Nat /\ transaction_depth \in Nat
      /\ work # <<>> <=> Len(work) > 0
  BY LenProperties, EmptySeq DEF TypeOK
<1>n. \A w, t : Len(w) = 0 => Levels(t, w)
  BY LevelsOfNone
<1>s. ASSUME UNCHANGED <<transaction_depth, tran, work, durable>>
      PROVE  Aligned' /\ [Promise!Next]_(Promise!vars)
  BY <1>s DEF Aligned, Promise!vars
<1>f. work # <<>> => Front(work) = Promise!Front(work) /\ Len(Front(work)) = Len(work) - 1
  BY FrontType DEF Front, Promise!Front, TypeOK
<1>1. CASE BeginTransaction \/ FetchMany \/ Collect
  BY <1>1, <1>s DEF BeginTransaction, FetchMany, Collect, Start, session
<1>2. CASE CommitTransaction
  <2>1. CASE transaction_depth = 1
    BY <1>2, <2>1, <1>s DEF CommitTransaction, session
  <2>2. CASE transaction_depth # 1
    <3>1. Len(work) >= 2 /\ transaction_depth = Len(work)
      BY <1>2, <1>l, <2>2 DEF CommitTransaction, Aligned
    <3>2. work' = Promise!Merged(work) /\ UNCHANGED <<tran, durable>>
      BY <1>2, <2>2 DEF CommitTransaction, session
    <3>3. Levels(tran, Promise!Merged(work)) /\ Len(Promise!Merged(work)) = Len(work) - 1
      BY <3>1, LevelsOfMerge, MergedElements DEF Aligned, TypeOK
    <3>4. transaction_depth' = Len(work) - 1
      BY <1>2, <1>l, <2>2, <3>1 DEF CommitTransaction
    <3>5. Promise!Commit
      BY <1>2, <1>l, <3>1, <3>2 DEF CommitTransaction, Promise!Commit
    <3> QED
      BY <3>2, <3>3, <3>4, <3>5 DEF Aligned, Promise!Next
  <2> QED
    BY <2>1, <2>2
<1>3. CASE RollbackTransaction
  <2>1. transaction_depth # 0
    BY <1>3, <1>l DEF RollbackTransaction, Aligned
  <2> QED
    BY <1>3, <2>1, <1>s DEF RollbackTransaction, conn, session
<1>4. CASE DropTransaction
  <2>1. Len(work) = 1
    <3>1. "drop_inner" \notin Faults
      BY DEF Undisturbed
    <3>2. Len(work) > 0 /\ ~(Len(work) > 1)
      BY <1>4, <1>l, <3>1 DEF DropTransaction
    <3>3. Len(work) \in Nat
      BY <1>l
    <3>4. \A k \in Nat : (k > 0 /\ ~(k > 1)) => k = 1
      OBVIOUS
    <3> QED
      BY <3>2, <3>3, <3>4
  <2>2. work' = Front(work) /\ transaction_depth' = 0 /\ UNCHANGED <<tran, durable>>
    BY <1>4 DEF DropTransaction, QueueRollback, session
  <2>3. Len(work') = 0
    BY <1>4, <1>f, <2>1, <2>2 DEF DropTransaction
  <2>4. Promise!Rollback
    BY <1>4, <1>f, <2>2 DEF DropTransaction, Promise!Rollback
  <2> QED
    BY <1>n, <2>2, <2>3, <2>4 DEF Aligned, Promise!Next
<1>5. CASE Close
  <2>1. Len(work) = 0
    BY <1>5, <1>l DEF Close
  <2> QED
    BY <1>5, <1>n, <2>1 DEF Close, Aligned, Promise!vars, conn
<1>6. CASE ResetDone \/ ReadToEnd \/ FetchDropped
  BY <1>6, <1>s DEF ResetDone, ReadToEnd, FetchDropped, conn
<1>7. CASE UndoDone
  <2>1. transaction_depth = 0 /\ Len(work) = 0
    BY <1>7 DEF UndoDone, CallShape, Aligned
  <2>2. durable' = durable
    BY <1>7 DEF UndoDone, Serve, Request
  <2> QED
    BY <1>7, <1>n, <2>1, <2>2 DEF UndoDone, Aligned, Promise!vars, conn
<1>8. CASE Begun
  <2>1. /\ Request = IF transaction_depth = 0 THEN "begin" ELSE "save"
        /\ work' = Append(work, {}) /\ transaction_depth' = transaction_depth + 1
    BY <1>8 DEF Begun, Answered, Request
  <2>2. durable' = durable
    BY <1>8, <2>1 DEF Begun, Answered, Serve
  <2>3. Len(work') = Len(work) + 1
    BY <2>1, AppendProperties DEF TypeOK
  <2>4. Levels(tran', work')
    <3>1. CASE transaction_depth = 0
      <4>1. tran' = <<Mark(0)>>
        BY <1>8, <2>1, <3>1 DEF Begun, Answered, Serve
      <4> QED
        BY <2>1, <3>1, <4>1, LevelsOfBegin DEF Aligned, TypeOK
    <3>2. CASE transaction_depth # 0
      <4>1. tran' = Append(tran, Mark(Len(work)))
        BY <1>8, <2>1, <3>2 DEF Begun, Answered, Serve, Aligned
      <4> QED
        BY <1>l, <2>1, <3>2, <4>1, LevelsOfSave DEF Aligned, TypeOK
    <3> QED
      BY <3>1, <3>2
  <2> QED
    BY <2>1, <2>2, <2>3, <2>4 DEF Aligned, Promise!Begin, Promise!Next
<1>9. CASE Committed
  <2>1. /\ Request = "commit" /\ Len(work) = 1 /\ work # <<>>
        /\ work' = Promise!Merged(work) /\ transaction_depth' = transaction_depth - 1
    BY <1>9, <1>l DEF Committed, Answered, Request, CallShape, Aligned
  <2>2. durable' = durable \cup Written
    BY <1>9, <2>1 DEF Committed, Answered, Serve
  <2>3. Written = work[1]
    BY <2>1, LevelOfAll DEF Aligned, TypeOK, Written
  <2>4. Len(work') = 0 /\ transaction_depth' = 0
    BY <2>1, <1>l, MergedType DEF TypeOK, Aligned
  <2> QED
    BY <1>n, <2>1, <2>2, <2>3, <2>4 DEF Aligned, Promise!Commit, Promise!Next
<1>10. CASE RolledBack
  <2>1. /\ Request = IF transaction_depth = 1 THEN "rollback" ELSE "rollback_to"
        /\ work # <<>> /\ transaction_depth > 0
        /\ work' = Front(work) /\ transaction_depth' = transaction_depth - 1
    BY <1>10 DEF RolledBack, Answered, Request, CallShape
  <2>2. durable' = durable
    BY <1>10, <2>1 DEF RolledBack, Answered, Serve
  <2>3. transaction_depth' = Len(work')
    BY <1>f, <1>l, <2>1 DEF Aligned
  <2>4. Levels(tran', work')
    <3>1. CASE transaction_depth = 1
      <4>1. Len(work') = 0
        BY <2>1, <2>3, <3>1
      <4> QED
        BY <1>n, <4>1
    <3>2. CASE transaction_depth # 1
      <4>1. tran' = Append(SubSeq(tran, 1, Begins(tran, Len(work) - 1) - 1), Mark(Len(work) - 1))
        BY <1>10, <2>1, <3>2
        DEF RolledBack, Answered, Serve, RolledBackTo, SavepointBelow, Begins, Named,
            MarksNamed, Aligned
      <4>2. Len(work) >= 2
        BY <1>l, <2>1, <3>2 DEF Aligned
      <4> QED
        BY <2>1, <4>1, <4>2, LevelsOfRollback DEF Aligned, TypeOK
    <3> QED
      BY <3>1, <3>2
  <2>5. Promise!Rollback
    BY <1>f, <2>1, <2>2 DEF Promise!Rollback
  <2> QED
    BY <2>3, <2>4, <2>5 DEF Aligned, Promise!Next
<1>11. CASE Executed
  <2>1. transaction_depth = 0 => tran = <<>>
    BY <1>11 DEF Executed, CallShape, Recovery
  <2>2. /\ Levels(tran', work') /\ Len(work') = Len(work)
        /\ \/ UNCHANGED <<durable, work>>
           \/ \E c \in Write : /\ work' = Promise!Charged(work, c)
                               /\ durable' = IF work = <<>> THEN durable \cup {c} ELSE durable
    BY <1>11, <2>1, ExecuteStep DEF Executed
  <2>3. transaction_depth' = transaction_depth
    BY <1>11 DEF Executed, conn
  <2>4. [Promise!Next]_(Promise!vars)
    BY <2>2 DEF Promise!Next, Promise!Execute, Promise!vars
  <2> QED
    BY <2>2, <2>3, <2>4 DEF Aligned
<1>12. CASE Refused
  BY <1>12, RefusedKeepsWork DEF Aligned, Promise!vars
<1>13. CASE Aborted \/ ReadFails \/ Cancelled
  BY <1>13 DEF Aborted, ReadFails, Cancelled, Undisturbed
<1>14. CASE UNCHANGED vars
  BY <1>14, <1>s DEF vars, conn, session
<1> QED
  BY <1>1, <1>2, <1>3, <1>4, <1>5, <1>6, <1>7, <1>8, <1>9, <1>10, <1>11, <1>12, <1>13, <1>14
  DEF Next, Answer

-----------------------------------------------------------------------------
(* The theorems. *)

LEMMA InitAligned == Init => Aligned
<1> SUFFICES ASSUME Init PROVE Aligned
  OBVIOUS
<1>1. Len(work) = 0 /\ transaction_depth = 0
  BY EmptySeq DEF Init
<1> QED
  BY <1>1, LevelsOfNone DEF Aligned

\* Levels that hold are what the property says of them.
LEMMA AlignedHoldsWork ==
    ASSUME TypeOK, Aligned
    PROVE  SavepointsHoldWork
<1>1. transaction_depth = Len(work) /\ transaction_depth \in Nat
  BY DEF Aligned, TypeOK
<1>2. \A n : Named(tran, n) = MarksNamed(n) /\ Begins(tran, n) = LevelStart(n)
  BY DEF Named, MarksNamed, Begins, LevelStart
<1>3. /\ \A n \in 0 .. transaction_depth - 1 : MarksNamed(n) # {}
      /\ \A n \in 1 .. transaction_depth - 1 : LevelStart(n - 1) < LevelStart(n)
      /\ \A n \in 1 .. transaction_depth :
             work[n] = Between(tran, LevelStart(n - 1), Ends(tran, n, transaction_depth))
  BY <1>1, <1>2 DEF Aligned, Levels
<1>4. ASSUME NEW n \in 1 .. transaction_depth
      PROVE  work[n] = UNION {tran[i].writes : i \in LevelStart(n - 1) ..
                                  (IF n = transaction_depth THEN Len(tran)
                                                            ELSE LevelStart(n) - 1)}
  BY <1>2, <1>3 DEF Between, Ends
<1> QED
  BY <1>1, <1>3, <1>4 DEF SavepointsHoldWork

LEMMA AlignedAlways ==
    ASSUME Undisturbed
    PROVE  Spec => [](IInv /\ (~broken => Aligned))
<1>1. Init => IInv /\ (~broken => Aligned)
  BY InitShape, InitRecovery, InitAligned DEF IInv
<1>2. IInv /\ (~broken => Aligned) /\ [Next]_vars => IInv' /\ (~broken' => Aligned')
  <2> SUFFICES ASSUME IInv, ~broken => Aligned, [Next]_vars
               PROVE  IInv' /\ (~broken' => Aligned')
    OBVIOUS
  <2>1. TypeOK' /\ CallShape'
    BY NextShape DEF IInv
  <2>2. ~broken' => Recovery'
    BY BrokenStays, NextRecovery DEF IInv
  <2>3. ~broken' => Aligned'
    BY BrokenStays, NextAligned DEF IInv
  <2> QED
    BY <2>1, <2>2, <2>3 DEF IInv
<1> QED
  BY <1>1, <1>2, PTL DEF Spec

\* The savepoints hold the work of the handles, level by level and whatever names
\* are used again, until an answer breaks off or a future is dropped at an await
\* (begin_transaction, commit_transaction, rollback_transaction).
THEOREM SavepointsHold ==
    ASSUME Undisturbed
    PROVE  Spec => [](~broken => SavepointsHoldWork)
<1>1. IInv /\ (~broken => Aligned) => (~broken => SavepointsHoldWork)
  BY AlignedHoldsWork DEF IInv
<1> QED
  BY <1>1, AlignedAlways, PTL

\* Where neither can happen, nothing is ever broken.
LEMMA NeverBroken ==
    ASSUME Faults \subseteq {"begin"}
    PROVE  Spec => []~broken
<1>1. Init => ~broken
  BY DEF Init
<1>2. ~broken /\ [Next]_vars => ~broken'
  <2>1. "read" \notin Faults /\ "cancel" \notin Faults
    OBVIOUS
  <2> QED
    BY <2>1
    DEF Next, Answer, vars, Start, BeginTransaction, FetchMany, Collect, CommitTransaction,
        RollbackTransaction, DropTransaction, Close, ResetDone, UndoDone, Answered, Begun,
        Committed, RolledBack, Executed, ReadToEnd, FetchDropped, Refused, Aborted,
        ReadFails, Cancelled
<1> QED
  BY <1>1, <1>2, PTL DEF Spec

\* The connection implements the promise of nested transactions: each call does
\* to the writes of the handles, and to the durable ones, what an abstract stack
\* of handles does, or nothing.  Only the opening of a transaction may fail.
THEOREM ImplementsPromise ==
    ASSUME ClientDrains, Faults \subseteq {"begin"}
    PROVE  Spec => KeepsPromise
<1>1. Undisturbed
  BY DEF Undisturbed
<1>2. Init => Promise!Init
  BY DEF Init, Promise!Init
<1>3. Spec => [](IInv /\ (~broken => Aligned))
  BY <1>1, AlignedAlways
<1>4. Spec => []~broken
  BY NeverBroken
<1>5. IInv /\ (~broken => Aligned) /\ ~broken /\ (~broken)' /\ [Next]_vars
          => [Promise!Next]_(Promise!vars)
  BY <1>1, NextAligned DEF IInv
<1> QED
  BY <1>2, <1>3, <1>4, <1>5, PTL DEF Spec, KeepsPromise, Promise!Spec

=============================================================================
