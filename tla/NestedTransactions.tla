------------------------- MODULE NestedTransactions -------------------------
(***************************************************************************)
(* What sqlx promises the owner of a stack of Transaction handles.         *)
(*                                                                         *)
(* A handle borrows the one below it, so only the innermost handle can be  *)
(* used.  Each handle owns the writes made through it: committing an inner *)
(* handle gives its writes to the handle below, committing the outermost   *)
(* one makes them durable, and rolling a handle back (or dropping it,      *)
(* which is the same promise) forgets its writes and nothing else.         *)
(* Nothing here knows of savepoints, of the wire or of lazy rollbacks.     *)
(***************************************************************************)
EXTENDS Sequences, SequencesExt

CONSTANT Write          \* the writes statements can make

VARIABLES
    durable,            \* writes that survive
    stack               \* stack[i]: writes owned by the i-th open handle

vars == <<durable, stack>>

TypeOK ==
    /\ durable \subseteq Write
    /\ stack \in Seq(SUBSET Write)

Init ==
    /\ durable = {}
    /\ stack = <<>>

\* The handles left when the innermost of s ends and its writes go to the
\* handle below it.
Merged(s) ==
    IF Len(s) < 2
    THEN <<>>
    ELSE Append(Front(Front(s)), s[Len(s) - 1] \cup s[Len(s)])

\* The handles after the innermost one gains write w.
Charged(s, w) ==
    IF s = <<>> THEN <<>> ELSE [s EXCEPT ![Len(s)] = @ \cup {w}]

Begin ==
    /\ stack' = Append(stack, {})
    /\ UNCHANGED durable

Execute(w) ==
    /\ stack' = Charged(stack, w)
    /\ durable' = IF stack = <<>> THEN durable \cup {w} ELSE durable

Commit ==
    /\ stack # <<>>
    /\ stack' = Merged(stack)
    /\ durable' = IF Len(stack) = 1 THEN durable \cup stack[1] ELSE durable

Rollback ==
    /\ stack # <<>>
    /\ stack' = Front(stack)
    /\ UNCHANGED durable

Next ==
    \/ Begin
    \/ \E w \in Write : Execute(w)
    \/ Commit
    \/ Rollback

Spec == Init /\ [][Next]_vars

=============================================================================
