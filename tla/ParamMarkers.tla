---------------------------- MODULE ParamMarkers ----------------------------
(***************************************************************************)
(* build_request: a statement with `?` markers and its arguments become a  *)
(* statement with @P1, @P2, ... and as many named RPC parameters.  The     *)
(* scan of rewrite_param_markers is one action per iteration of its loop.  *)
(*                                                                         *)
(* A character is one of a small set; a position counts characters, where  *)
(* the code counts the bytes of whole characters.                          *)
(***************************************************************************)
EXTENDS Integers, Sequences, FiniteSetsExt, SequencesExt

CONSTANTS
    Chars,      \* the characters statements are made of
    MaxLength,  \* bound: characters in a statement
    MaxArgs     \* bound: arguments given with it

Newline == "nl"

\* What opens a quoted region, and what closes it.
Closing == [c \in {"'", "\"", "["} |-> IF c = "[" THEN "]" ELSE c]

ASSUME BoundsAssumption == MaxLength \in Nat /\ MaxArgs \in Nat
ASSUME CharsAssumption == Chars \subseteq STRING

VARIABLES
    sql,        \* the statement as given
    args,       \* number of arguments
    index,      \* the next character to look at
    output,     \* what is copied and rewritten so far
    markers,    \* markers replaced
    result      \* what build_request returns

vars == <<sql, args, index, output, markers, result>>

\* A piece of output: a character, or the parameter @P<number>.
Copied(c) == [char |-> c, number |-> 0]
Param(n) == [char |-> "@P", number |-> n]

Results ==
    {"scanning",   \* nothing yet
     "verbatim",   \* the statement as it is, no parameters
     "bound",      \* the output, and parameters @P1 .. @P<args>
     "arity"}      \* an error: markers and arguments differ in number

TypeOK ==
    /\ sql \in Seq(Chars) /\ Len(sql) <= MaxLength
    /\ args \in 0 .. MaxArgs
    /\ index \in 1 .. Len(sql) + 1
    /\ output \in Seq({Copied(c) : c \in Chars} \cup {Param(n) : n \in 1 .. MaxLength})
    /\ markers \in 0 .. MaxLength
    /\ result \in Results

\* No argument: the statement is not even scanned.
Init ==
    /\ sql \in SeqOf(Chars, MaxLength)
    /\ args \in 0 .. MaxArgs
    /\ index = 1
    /\ output = <<>>
    /\ markers = 0
    /\ result = IF args = 0 THEN "verbatim" ELSE "scanning"

-----------------------------------------------------------------------------
(* The scanner. *)

Scanning == result = "scanning" /\ index <= Len(sql)

StartsWith(i, s) == i + Len(s) - 1 <= Len(sql) /\ SubSeq(sql, i, i + Len(s) - 1) = s

\* Copies through to the position before `to`.
CopyTo(to) ==
    /\ output' = output \o [i \in 1 .. to - index |-> Copied(sql[index + i - 1])]
    /\ index' = to
    /\ UNCHANGED <<sql, args, markers, result>>

\* The first of positions P, or the end of the statement.
FirstOr(P) == Min(P \cup {Len(sql) + 1})

\* The newline itself is left for the next iteration.
LineComment ==
    /\ Scanning /\ StartsWith(index, <<"-", "-">>)
    /\ CopyTo(FirstOr({i \in index .. Len(sql) : sql[i] = Newline}))

\* A slip: the comment's own star may close it.
SlipBlockClosesEarly ==
    /\ Scanning /\ StartsWith(index, <<"/", "*">>)
    /\ CopyTo(FirstOr({i + 2 : i \in {j \in index .. Len(sql) : StartsWith(j, <<"*", "/">>)}}))

\* The first */ after the opening ends the comment, one that opens inside or not.
BlockComment ==
    /\ Scanning /\ StartsWith(index, <<"/", "*">>)
    /\ CopyTo(FirstOr({i + 2 : i \in {j \in index + 2 .. Len(sql) : StartsWith(j, <<"*", "/">>)}}))

\* A slip: a doubled closing character ends the region, as a single one does.
SlipNoDoubling(c) ==
    LET closed(i) == FirstOr({k + 1 : k \in {j \in i .. Len(sql) : sql[j] = c}})
    IN  [i \in 1 .. Len(sql) + 2 |-> closed(i)]

\* Where a region closed by c ends, read on from position i: after a closing
\* character that is not doubled.
QuoteEnd(c) ==
    LET end[i \in 1 .. Len(sql) + 2] ==
            IF i > Len(sql) THEN Len(sql) + 1
            ELSE IF sql[i] # c THEN end[i + 1]
            ELSE IF StartsWith(i, <<c, c>>) THEN end[i + 2]
            ELSE i + 1
    IN  end

Quoted ==
    /\ Scanning /\ sql[index] \in DOMAIN Closing
    /\ CopyTo(QuoteEnd(Closing[sql[index]])[index + 1])

\* A slip: numbered from @P0.
SlipFromZero ==
    /\ Scanning /\ sql[index] = "?"
    /\ markers' = markers + 1
    /\ output' = Append(output, Param(markers))
    /\ index' = index + 1
    /\ UNCHANGED <<sql, args, result>>

Marker ==
    /\ Scanning /\ sql[index] = "?"
    /\ markers' = markers + 1
    /\ output' = Append(output, Param(markers + 1))
    /\ index' = index + 1
    /\ UNCHANGED <<sql, args, result>>

Other ==
    /\ Scanning
    /\ sql[index] \notin DOMAIN Closing \cup {"?"}
    /\ ~StartsWith(index, <<"-", "-">>) /\ ~StartsWith(index, <<"/", "*">>)
    /\ CopyTo(index + 1)

\* A slip: too many arguments are let through.
SlipAtMost ==
    /\ result = "scanning" /\ index > Len(sql)
    /\ result' = IF markers <= args THEN "bound" ELSE "arity"
    /\ UNCHANGED <<sql, args, index, output, markers>>

\* The count of markers is held against the count of arguments.
Bind ==
    /\ result = "scanning" /\ index > Len(sql)
    /\ result' = IF markers = args THEN "bound" ELSE "arity"
    /\ UNCHANGED <<sql, args, index, output, markers>>

Next == LineComment \/ BlockComment \/ Quoted \/ Marker \/ Other \/ Bind

Spec == Init /\ [][Next]_vars

-----------------------------------------------------------------------------
(* How T-SQL reads a statement, one character at a time.  `second` marks    *)
(* the second character of a token of two; `depth` counts open comments.    *)

Code == [kind |-> "code", closing |-> "", depth |-> 0, second |-> FALSE]
InLine == [Code EXCEPT !.kind = "line"]
InBlock(n) == [Code EXCEPT !.kind = "block", !.depth = n, !.second = TRUE]
InQuotes(c) == [Code EXCEPT !.kind = "quoted", !.closing = c]

\* What character d after c is part of, when c is part of q.
Read(q, c, d, nested) ==
    CASE q.second -> IF q.kind = "block" /\ q.depth = 0 THEN Code ELSE [q EXCEPT !.second = FALSE]
      [] ~q.second /\ q.kind = "code" ->
            CASE <<c, d>> = <<"-", "-">> -> InLine
              [] <<c, d>> = <<"/", "*">> -> InBlock(1)
              [] c \in DOMAIN Closing    -> InQuotes(Closing[c])
              [] OTHER                   -> Code
      [] ~q.second /\ q.kind = "line" -> IF d = Newline THEN Code ELSE q
      [] ~q.second /\ q.kind = "quoted" ->
            IF c # q.closing THEN q
            ELSE IF d = q.closing THEN [q EXCEPT !.second = TRUE]
            ELSE Code
      [] ~q.second /\ q.kind = "block" ->
            CASE <<c, d>> = <<"*", "/">>             -> InBlock(q.depth - 1)
              [] <<c, d>> = <<"/", "*">> /\ nested   -> InBlock(q.depth + 1)
              [] OTHER                               -> q

\* What each character of the statement is part of.
Reading(nested) ==
    LET part[i \in 1 .. Len(sql)] ==
            IF i = 1 THEN Code ELSE Read(part[i - 1], sql[i - 1], sql[i], nested)
    IN  part

\* The statement up to n with its markers, and nothing else, numbered in order.
Numbered(n, nested) ==
    LET part == Reading(nested)
        marks == {i \in 1 .. n : sql[i] = "?" /\ part[i].kind = "code"}
    IN  [i \in 1 .. n |->
            IF i \in marks THEN Param(Cardinality({j \in marks : j <= i})) ELSE Copied(sql[i])]

\* T-SQL finds the end of every quoted region and comment.
AllClosed ==
    \/ sql = <<>>
    \/ Read(Reading(TRUE)[Len(sql)], Last(sql), Newline, TRUE).kind = "code"

-----------------------------------------------------------------------------
(* Properties. *)

\* At every iteration the scanner has rewritten exactly the markers of what it
\* has read, in order: a `?` in a literal, a quoted identifier or a comment is
\* copied, and nothing is lost or added (rewrite_param_markers; comments of C,
\* which do not nest).
RewritesTheMarkers == output = Numbered(index - 1, FALSE)

\* T-SQL sees no comment open within another.
NoNesting == \A i \in 1 .. Len(sql) : Reading(TRUE)[i].depth <= 1

\* As long as comments do not nest, the markers are those T-SQL sees: everything
\* but "?" in code is data to both, whether or not the statement closes what it
\* opens (rewrite_param_markers against the server's own scanner).
ReadsAsTSQL == NoNesting => output = Numbered(index - 1, TRUE)

\* The same with comments that nest too, in statements whose comments are all
\* closed: "a `?` inside ... a comment is data, not a marker, and must be
\* left alone".
LeavesCommentsAlone == AllClosed => output = Numbered(index - 1, TRUE)

\* A request with parameters names each of @P1 .. @P<args> once, in order, so
\* sp_executesql is never given an argument too few or too many (build_request).
EveryArgumentIsUsed ==
    result = "bound" =>
        LET used == {i \in DOMAIN output : output[i].number > 0}
        IN  /\ Cardinality(used) = args
            /\ \A i \in used : output[i].number = Cardinality({j \in used : j <= i})

=============================================================================
