------------------------- MODULE ParamMarkersProofs -------------------------
(***************************************************************************)
(* Proofs about ParamMarkers, for statements of any length over any        *)
(* characters: the scanner stands between two tokens whenever it looks at  *)
(* a character, so it sees a `?` exactly where it is a marker.             *)
(***************************************************************************)
EXTENDS ParamMarkers, Extremes, SequenceTheorems, FiniteSetTheorems

-----------------------------------------------------------------------------
(* What the definitions of the module give. *)

\* Two characters stand at i.
LEMMA TwoCharacters ==
    ASSUME sql \in Seq(Chars), NEW i \in 1 .. Len(sql), NEW c, NEW d
    PROVE  StartsWith(i, <<c, d>>) <=> i < Len(sql) /\ sql[i] = c /\ sql[i + 1] = d
<1>1. Len(sql) \in Nat /\ Len(<<c, d>>) = 2
  OBVIOUS
<1>2. StartsWith(i, <<c, d>>) <=> i < Len(sql) /\ SubSeq(sql, i, i + 1) = <<c, d>>
  <2>1. i + 2 - 1 = i + 1
    OBVIOUS
  <2>2. i + 1 <= Len(sql) <=> i < Len(sql)
    BY <1>1
  <2> QED
    BY <1>1, <2>1, <2>2 DEF StartsWith
<1>3. ASSUME i < Len(sql)
      PROVE  SubSeq(sql, i, i + 1) = <<sql[i], sql[i + 1]>>
  <2>1. i \in 1 .. Len(sql) /\ i + 1 \in i .. Len(sql) 
    BY <1>1, <1>3
  <2>2. /\ SubSeq(sql, i, i + 1) \in Seq(Chars) 
        /\ Len(SubSeq(sql, i, i + 1)) = (i + 1) - i + 1
        /\ \A j \in 1 .. (i + 1) - i + 1 : SubSeq(sql, i, i + 1)[j] = sql[i + j - 1]
    BY <2>1, SubSeqProperties
  <2>3. (i + 1) - i + 1 = 2 /\ i + 1 - 1 = i /\ i + 2 - 1 = i + 1
    OBVIOUS
  <2> DEFINE u == SubSeq(sql, i, i + 1)
  <2>4. u \in Seq(Chars) /\ Len(u) = 2 /\ u[1] = sql[i] /\ u[2] = sql[i + 1]
    BY <2>2, <2>3
  <2> HIDE DEF u
  <2>5. u = <<u[1], u[2]>>
    BY <2>4
  <2> QED
    BY <2>4, <2>5 DEF u
<1> QED
  BY <1>2, <1>3

\* Reading follows its definition.
LEMMA ReadingSteps ==
    ASSUME sql \in Seq(Chars), NEW nested
    PROVE  \A i \in 1 .. Len(sql) :
               Reading(nested)[i] =
                   IF i = 1 THEN Code
                   ELSE Read(Reading(nested)[i - 1], sql[i - 1], sql[i], nested)
<1> DEFINE Step(f, i) == IF i = 1 THEN Code ELSE Read(f[i - 1], sql[i - 1], sql[i], nested)
           S == {n \in Nat : \E f : f = [i \in 1 .. n |-> Step(f, i)]}
<1>1. 0 \in S
  <2>1. [i \in 1 .. 0 |-> Code] = [i \in 1 .. 0 |-> Step([j \in 1 .. 0 |-> Code], i)]
    OBVIOUS
  <2> QED
    BY <2>1
<1>2. ASSUME NEW n \in 0 .. Len(sql) - 1, n \in S
      PROVE  n + 1 \in S
  <2>1. PICK f : f = [i \in 1 .. n |-> Step(f, i)]
    BY <1>2
  <2> DEFINE g == [i \in 1 .. n + 1 |-> IF i <= n THEN f[i] ELSE Step(f, i)]
  <2>2. ASSUME NEW i \in 1 .. n + 1
        PROVE  g[i] = Step(g, i)
    <3>1. i # 1 => g[i - 1] = f[i - 1]
      OBVIOUS
    <3>2. Step(g, i) = Step(f, i)
      BY <3>1
    <3>3. i <= n => f[i] = Step(f, i)
      BY <2>1
    <3> QED
      BY <3>2, <3>3
  <2>3. g = [i \in 1 .. n + 1 |-> Step(g, i)]
    <3> HIDE DEF Step
    <3> QED
      BY <2>2
  <2> HIDE DEF g
  <2> QED
    BY <2>3
<1>3. Len(sql) \in S
  <2>1. Len(sql) \in Nat /\ Len(sql) \in Int /\ 0 \in Int
    OBVIOUS
  <2> HIDE DEF S
  <2>2. \A n \in 0 .. Len(sql) - 1 : n \in S => n + 1 \in S
    BY <1>2
  <2>3. \A n \in 0 .. Len(sql) : n \in S
    BY <1>1, <2>1, <2>2, Reaches
  <2> QED
    BY <2>1, <2>3
<1>4. Reading(nested) = CHOOSE f : f = [i \in 1 .. Len(sql) |-> Step(f, i)]
  BY DEF Reading
<1>5. Reading(nested) = [i \in 1 .. Len(sql) |-> Step(Reading(nested), i)]
  BY <1>3, <1>4
<1> HIDE DEF Step
<1>6. ASSUME NEW i \in 1 .. Len(sql) PROVE Reading(nested)[i] = Step(Reading(nested), i)
  BY <1>5
<1> QED
  BY <1>6 DEF Step

\* It depends on the statement only.
LEMMA StillReads ==
    ASSUME sql' = sql, NEW nested
    PROVE  Reading(nested)' = Reading(nested)
BY DEF Reading

-----------------------------------------------------------------------------
(* The tokens. *)

\* What character i is part of, where comments do not nest.
Part(i) == Reading(FALSE)[i]

\* What the next character is part of.
LEMMA NextPart ==
    ASSUME sql \in Seq(Chars), NEW k \in 1 .. Len(sql) - 1
    PROVE  Part(k + 1) = Read(Part(k), sql[k], sql[k + 1], FALSE)
<1>1. k + 1 \in 1 .. Len(sql) /\ k + 1 # 1 /\ (k + 1) - 1 = k
  OBVIOUS
<1> QED
  BY <1>1, ReadingSteps DEF Part

\* Past the first two characters of a comment, and at a doubled closing character.
InComment == [InBlock(1) EXCEPT !.second = FALSE]
Doubled(c) == [InQuotes(c) EXCEPT !.second = TRUE]

\* What follows a character of each kind.
LEMMA ReadCode ==
    ASSUME NEW c, NEW d, NEW nested
    PROVE  Read(Code, c, d, nested) =
               IF c = "-" /\ d = "-" THEN InLine
               ELSE IF c = "/" /\ d = "*" THEN InBlock(1)
               ELSE IF c \in DOMAIN Closing THEN InQuotes(Closing[c])
               ELSE Code
<1>1. Code.kind = "code" /\ Code.second = FALSE
  BY DEF Code
<1>2. "-" \notin DOMAIN Closing /\ "/" \notin DOMAIN Closing
  BY DEF Closing
<1> QED
  BY <1>1, <1>2 DEF Read

LEMMA ReadLine ==
    ASSUME NEW c, NEW d
    PROVE  Read(InLine, c, d, FALSE) = IF d = Newline THEN Code ELSE InLine
<1>1. InLine.kind = "line" /\ InLine.second = FALSE
  BY DEF Code, InLine
<1> QED
  BY <1>1 DEF Read

LEMMA ReadBlock ==
    ASSUME NEW c, NEW d
    PROVE  /\ Read(InBlock(1), c, d, FALSE) = InComment
           /\ Read(InComment, c, d, FALSE) =
                  IF c = "*" /\ d = "/" THEN InBlock(0) ELSE InComment
           /\ Read(InBlock(0), c, d, FALSE) = Code
<1>1. /\ InBlock(1).kind = "block" /\ InBlock(1).second = TRUE /\ InBlock(1).depth = 1
      /\ InBlock(0).kind = "block" /\ InBlock(0).second = TRUE /\ InBlock(0).depth = 0
      /\ InComment.kind = "block" /\ InComment.second = FALSE /\ InComment.depth = 1
  BY DEF Code, InBlock, InComment
<1>2. Read(InBlock(1), c, d, FALSE) = InComment
  BY <1>1 DEF Read, InComment
<1>3. Read(InBlock(0), c, d, FALSE) = Code
  BY <1>1 DEF Read
<1>4. Read(InComment, c, d, FALSE) = IF c = "*" /\ d = "/" THEN InBlock(0) ELSE InComment
  <2>1. InComment.depth - 1 = 0
    BY <1>1
  <2> QED
    BY <1>1, <2>1 DEF Read
<1> QED
  BY <1>2, <1>3, <1>4

LEMMA ReadQuoted ==
    ASSUME NEW q
    PROVE  /\ \A c, d : c # q => Read(InQuotes(q), c, d, FALSE) = InQuotes(q)
           /\ \A d : d # q => Read(InQuotes(q), q, d, FALSE) = Code
           /\ Read(InQuotes(q), q, q, FALSE) = Doubled(q)
           /\ \A c, d : Read(Doubled(q), c, d, FALSE) = InQuotes(q)
<1>1. /\ InQuotes(q).kind = "quoted" /\ InQuotes(q).second = FALSE /\ InQuotes(q).closing = q
      /\ Doubled(q).kind = "quoted" /\ Doubled(q).second = TRUE
  BY DEF Code, InQuotes, Doubled
<1>2. [Doubled(q) EXCEPT !.second = FALSE] = InQuotes(q)
  <2>1. InQuotes(q) \in [kind : {"quoted"}, closing : {q}, depth : {0}, second : {FALSE}]
    BY DEF Code, InQuotes
  <2> QED
    BY <2>1 DEF Doubled
<1>3. \A c, d : c # q => Read(InQuotes(q), c, d, FALSE) = InQuotes(q)
  BY <1>1 DEF Read
<1>4. \A d : d # q => Read(InQuotes(q), q, d, FALSE) = Code
  BY <1>1 DEF Read
<1>5. Read(InQuotes(q), q, q, FALSE) = Doubled(q)
  BY <1>1 DEF Read, Doubled
<1>6. \A c, d : Read(Doubled(q), c, d, FALSE) = InQuotes(q)
  BY <1>1, <1>2 DEF Read
<1> QED
  BY <1>3, <1>4, <1>5, <1>6

\* A state that each character passes on to the next is that of all of them.
LEMMA Stays ==
    ASSUME NEW a \in Int, NEW b \in Int, NEW q, Part(a) = q,
           \A k \in a .. b - 1 : Part(k) = q => Part(k + 1) = q
    PROVE  \A k \in a .. b : Part(k) = q
<1> DEFINE S == {k \in Int : Part(k) = q}
<1>1. a \in S /\ \A k \in a .. b - 1 : k \in S => k + 1 \in S
  <2>1. \A k \in a .. b - 1 : k \in Int /\ k + 1 \in Int
    OBVIOUS
  <2> QED
    BY <2>1
<1> HIDE DEF S
<1>2. \A k \in a .. b : k \in S
  BY <1>1, Reaches
<1> QED
  BY <1>2 DEF S

\* From the start of one token at i to the start of the next at e.
Skips(i, e) ==
    /\ e \in i + 1 .. Len(sql) + 1
    /\ \A k \in i + 1 .. e - 1 : Part(k).kind # "code"
    /\ e <= Len(sql) => Part(e) = Code

-----------------------------------------------------------------------------
(* The scanner goes from token to token. *)

LEMMA FirstOrIsLeast ==
    ASSUME sql \in Seq(Chars), NEW P \in SUBSET (1 .. Len(sql) + 1)
    PROVE  /\ FirstOr(P) \in P \cup {Len(sql) + 1}
           /\ FirstOr(P) \in 1 .. Len(sql) + 1
           /\ \A k \in P : FirstOr(P) <= k
<1> DEFINE S == P \cup {Len(sql) + 1}
<1>1. Len(sql) + 1 \in Nat /\ S \in SUBSET (1 .. Len(sql) + 1) /\ S # {}
  <2>1. Len(sql) \in Nat
    BY LenProperties
  <2>2. Len(sql) + 1 \in Nat /\ Len(sql) + 1 \in 1 .. Len(sql) + 1
    BY <2>1
  <2> QED
    BY <2>2
<1> HIDE DEF S
<1>2. Min(S) \in S /\ \A k \in S : Min(S) <= k
  BY <1>1, MinIsLeast
<1>3. FirstOr(P) = Min(S)
  BY DEF FirstOr, S
<1> QED
  BY <1>1, <1>2, <1>3 DEF S

LEMMA LineSkips ==
    ASSUME sql \in Seq(Chars), NEW i \in 1 .. Len(sql), Part(i) = Code,
           StartsWith(i, <<"-", "-">>)
    PROVE  Skips(i, FirstOr({k \in i .. Len(sql) : sql[k] = Newline}))
<1> DEFINE P == {k \in i .. Len(sql) : sql[k] = Newline}
           e == FirstOr(P)
<1>1. i < Len(sql) /\ sql[i] = "-" /\ sql[i + 1] = "-" /\ Len(sql) \in Nat
  BY TwoCharacters
<1>2. P \in SUBSET (1 .. Len(sql) + 1)
  BY <1>1
<1>3. /\ e \in P \cup {Len(sql) + 1}
      /\ e \in 1 .. Len(sql) + 1
      /\ \A k \in P : e <= k
  BY <1>2, FirstOrIsLeast
<1>4. i \notin P /\ i + 1 \notin P
  BY <1>1 DEF Newline
<1>5. e \in i + 2 .. Len(sql) + 1 /\ (e <= Len(sql) => sql[e] = Newline)
  <2>1. e \in P => e >= i /\ e # i /\ e # i + 1 /\ sql[e] = Newline
    BY <1>4
  <2> HIDE DEF P, e
  <2> QED
    BY <1>1, <1>3, <2>1
<1>6. \A k \in i .. e - 1 : sql[k] # Newline
  <2> TAKE k \in i .. e - 1
  <2>1. k \in i .. Len(sql) /\ ~(e <= k)
    BY <1>1, <1>5
  <2> QED
    BY <1>3, <2>1
<1> HIDE DEF P, e
<1>7. \A k \in 1 .. Len(sql) - 1 : Part(k + 1) = Read(Part(k), sql[k], sql[k + 1], FALSE)
  BY <1>1, NextPart
<1>8. Part(i + 1) = InLine
  <2>1. i \in 1 .. Len(sql) - 1
    BY <1>1
  <2>2. Part(i + 1) = Read(Code, sql[i], sql[i + 1], FALSE)
    BY <1>7, <2>1
  <2> QED
    BY <1>1, <2>2, ReadCode
<1>9. ASSUME NEW k \in i + 1 .. (e - 1) - 1, Part(k) = InLine
      PROVE  Part(k + 1) = InLine
  <2>1. k \in 1 .. Len(sql) - 1 /\ k + 1 \in i .. e - 1
    BY <1>1, <1>5
  <2>2. Part(k + 1) = Read(InLine, sql[k], sql[k + 1], FALSE)
    BY <1>7, <1>9, <2>1
  <2> QED
    BY <1>6, <2>1, <2>2, ReadLine
<1>10. \A k \in i + 1 .. e - 1 : Part(k) = InLine
  <2>1. i + 1 \in Int /\ e - 1 \in Int
    BY <1>5
  <2> QED
    BY <1>8, <1>9, <2>1, Stays
<1>11. ASSUME e <= Len(sql) PROVE Part(e) = Code
  <2>1. e - 1 \in i + 1 .. e - 1 /\ e - 1 \in 1 .. Len(sql) - 1 /\ (e - 1) + 1 = e
    BY <1>1, <1>5, <1>11
  <2>2. Part(e) = Read(InLine, sql[e - 1], sql[e], FALSE)
    BY <1>7, <1>10, <2>1
  <2> QED
    BY <1>5, <1>11, <2>2, ReadLine
<1>12. InLine.kind = "line"
  BY DEF InLine, Code
<1>13. Skips(i, e)
  <2>1. \A k \in i + 1 .. e - 1 : Part(k).kind # "code"
    BY <1>10, <1>12
  <2>2. e \in i + 1 .. Len(sql) + 1
    BY <1>5
  <2> QED
    BY <1>11, <2>1, <2>2 DEF Skips
<1> QED
  BY <1>13 DEF e, P

LEMMA BlockSkips ==
    ASSUME sql \in Seq(Chars), NEW i \in 1 .. Len(sql), Part(i) = Code,
           StartsWith(i, <<"/", "*">>)
    PROVE  Skips(i, FirstOr({k + 2 : k \in {j \in i + 2 .. Len(sql) : StartsWith(j, <<"*", "/">>)}}))
<1> DEFINE Q == {j \in i + 2 .. Len(sql) : StartsWith(j, <<"*", "/">>)}
           P == {k + 2 : k \in Q}
           e == FirstOr(P)
<1>1. i < Len(sql) /\ sql[i] = "/" /\ sql[i + 1] = "*" /\ Len(sql) \in Nat
  BY TwoCharacters, LenProperties
<1>2. \A k \in Q : /\ k \in i + 2 .. Len(sql) - 1
                   /\ sql[k] = "*" /\ sql[k + 1] = "/"
  <2> TAKE k \in Q
  <2>1. k \in i + 2 .. Len(sql) /\ k \in 1 .. Len(sql) /\ StartsWith(k, <<"*", "/">>)
    BY <1>1
  <2>2. k < Len(sql) /\ sql[k] = "*" /\ sql[k + 1] = "/"
    BY <2>1, TwoCharacters
  <2> QED
    BY <1>1, <2>1, <2>2
<1>3. \A k \in i + 2 .. Len(sql) - 1 : (sql[k] = "*" /\ sql[k + 1] = "/") => k \in Q
  <2> TAKE k \in i + 2 .. Len(sql) - 1
  <2>1. k \in 1 .. Len(sql) /\ k \in i + 2 .. Len(sql) /\ k < Len(sql)
    BY <1>1
  <2> QED
    BY <2>1, TwoCharacters
<1> HIDE DEF Q
<1>4. P \in SUBSET (1 .. Len(sql) + 1)
  <2>1. \A k \in Q : k + 2 \in 1 .. Len(sql) + 1
    BY <1>1, <1>2
  <2> QED
    BY <2>1
<1>5. /\ e \in P \cup {Len(sql) + 1}
      /\ e \in 1 .. Len(sql) + 1
      /\ \A k \in P : e <= k
  BY <1>4, FirstOrIsLeast
<1> HIDE DEF e
<1>6. \A k \in Q : e <= k + 2
  BY <1>5
<1>7. \/ e = Len(sql) + 1 /\ Q = {}
      \/ e - 2 \in Q
  <2>1. CASE Q = {}
    <3>1. P = {}
      BY <2>1
    <3> QED
      BY <1>5, <2>1, <3>1
  <2>2. CASE Q # {}
    <3>1. PICK k \in Q : TRUE
      BY <2>2
    <3>2. e <= k + 2 /\ k + 2 <= Len(sql) + 1 /\ k \in Int
      BY <1>1, <1>2, <1>6
    <3>3. e = Len(sql) + 1 => e = k + 2
      BY <1>1, <1>5, <3>2
    <3>4. e \in P
      BY <1>5, <3>3
    <3>5. PICK j \in Q : e = j + 2
      BY <3>4
    <3>6. e - 2 = j
      BY <1>2, <3>5
    <3> QED
      BY <3>6
  <2> QED
    BY <2>1, <2>2
<1> HIDE DEF P
<1>8. \A k \in 1 .. Len(sql) - 1 : Part(k + 1) = Read(Part(k), sql[k], sql[k + 1], FALSE)
  BY <1>1, NextPart
<1>9. Part(i + 1) = InBlock(1)
  <2>1. i \in 1 .. Len(sql) - 1
    BY <1>1
  <2>2. Part(i + 1) = Read(Code, sql[i], sql[i + 1], FALSE)
    BY <1>8, <2>1
  <2> QED
    BY <1>1, <2>2, ReadCode
<1>10. ASSUME i + 2 <= Len(sql)
       PROVE  Part(i + 2) = InComment
  <2>1. i + 1 \in 1 .. Len(sql) - 1 /\ (i + 1) + 1 = i + 2
    BY <1>1, <1>10
  <2>2. Part(i + 2) = Read(InBlock(1), sql[i + 1], sql[i + 2], FALSE)
    BY <1>8, <1>9, <2>1
  <2> QED
    BY <2>2, ReadBlock
<1> DEFINE top == IF Q = {} THEN Len(sql) ELSE e - 2
<1>11. /\ top \in Int /\ top <= Len(sql)
       /\ e \in i + 2 .. Len(sql) + 1
       /\ \/ e = Len(sql) + 1 /\ top = Len(sql)
          \/ e - 2 \in Q /\ e - 2 = top
  <2>1. CASE Q = {}
    <3>1. e = Len(sql) + 1 /\ top = Len(sql)
      BY <1>7, <2>1
    <3> QED
      BY <1>1, <3>1
  <2>2. CASE Q # {}
    <3>1. e - 2 \in Q /\ top = e - 2
      BY <1>1, <1>7, <2>2
    <3>2. e - 2 \in i + 2 .. Len(sql) - 1
      BY <1>2, <3>1
    <3> QED
      BY <1>1, <1>5, <3>1, <3>2
  <2> QED
    BY <2>1, <2>2
<1>12. ASSUME NEW k \in i + 2 .. top - 1, Part(k) = InComment
       PROVE  Part(k + 1) = InComment
  <2>1. k \in 1 .. Len(sql) - 1 /\ k \in i + 2 .. Len(sql) - 1
    BY <1>1, <1>11
  <2>2. k \notin Q
    BY <1>6, <1>11, <2>1
  <2>3. Part(k + 1) = Read(InComment, sql[k], sql[k + 1], FALSE)
    BY <1>8, <1>12, <2>1
  <2>4. ~(sql[k] = "*" /\ sql[k + 1] = "/")
    BY <1>3, <2>1, <2>2
  <2> QED
    BY <2>3, <2>4, ReadBlock
<1> HIDE DEF top
<1>13. \A k \in i + 2 .. top : Part(k) = InComment
  <2>1. CASE i + 2 <= Len(sql)
    <3>1. i + 2 \in Int
      OBVIOUS
    <3>2. Part(i + 2) = InComment
      BY <1>10, <2>1
    <3>3. \A k \in i + 2 .. top - 1 : Part(k) = InComment => Part(k + 1) = InComment
      BY <1>12
    <3>4. top \in Int
      BY <1>11
    <3> QED
      BY <3>1, <3>2, <3>3, <3>4, Stays
  <2>2. CASE ~(i + 2 <= Len(sql))
    BY <1>1, <1>11, <2>2
  <2> QED
    BY <2>1, <2>2
<1>14. ASSUME e - 2 \in Q
       PROVE  Part(e - 1) = InBlock(0) /\ (e <= Len(sql) => Part(e) = Code)
  <2>1. /\ e - 2 \in i + 2 .. Len(sql) - 1 /\ e - 2 \in 1 .. Len(sql) - 1
        /\ (e - 2) + 1 = e - 1 /\ (e - 1) + 1 = e
        /\ sql[e - 2] = "*" /\ sql[e - 1] = "/"
    <3>1. (e - 2) + 1 = e - 1 /\ (e - 1) + 1 = e
      BY <1>11
    <3>2. e - 2 \in i + 2 .. Len(sql) - 1 /\ sql[e - 2] = "*" /\ sql[(e - 2) + 1] = "/"
      BY <1>2, <1>14
    <3> QED
      BY <1>1, <3>1, <3>2
  <2>2. Part(e - 2) = InComment
    <3>1. e - 2 \in i + 2 .. top
      BY <1>1, <1>11, <2>1
    <3> QED
      BY <1>13, <3>1
  <2>3. Part(e - 1) = Read(InComment, sql[e - 2], sql[e - 1], FALSE)
    BY <1>8, <2>1, <2>2
  <2>4. Part(e - 1) = InBlock(0)
    BY <2>1, <2>3, ReadBlock
  <2>5. ASSUME e <= Len(sql) PROVE Part(e) = Code
    <3>1. e - 1 \in 1 .. Len(sql) - 1
      BY <1>1, <1>11, <2>5
    <3>2. Part(e) = Read(InBlock(0), sql[e - 1], sql[e], FALSE)
      BY <1>8, <2>1, <2>4, <3>1
    <3> QED
      BY <3>2, ReadBlock
  <2> QED
    BY <2>4, <2>5
<1>15. InBlock(0).kind # "code" /\ InBlock(1).kind # "code" /\ InComment.kind # "code"
  BY DEF InBlock, InComment, Code
<1>16. ASSUME NEW k \in i + 1 .. e - 1
       PROVE  Part(k).kind # "code"
  <2>1. k = i + 1 \/ k \in i + 2 .. top \/ (e - 2 \in Q /\ k = e - 1)
    BY <1>1, <1>11
  <2> QED
    BY <1>9, <1>13, <1>14, <1>15, <2>1
<1>17. e <= Len(sql) => Part(e) = Code
  BY <1>1, <1>11, <1>14
<1>18. Skips(i, e)
  <2>1. e \in i + 1 .. Len(sql) + 1
    BY <1>1, <1>11
  <2> QED
    BY <1>16, <1>17, <2>1 DEF Skips
<1> QED
  BY <1>18 DEF e, P, Q

-----------------------------------------------------------------------------
(* Quoted regions. *)

\* QuoteEnd follows its definition.
LEMMA QuoteEndSteps ==
    ASSUME sql \in Seq(Chars), NEW c
    PROVE  \A i \in 1 .. Len(sql) + 2 :
               QuoteEnd(c)[i] =
                   IF i > Len(sql) THEN Len(sql) + 1
                   ELSE IF sql[i] # c THEN QuoteEnd(c)[i + 1]
                   ELSE IF StartsWith(i, <<c, c>>) THEN QuoteEnd(c)[i + 2]
                   ELSE i + 1
<1> DEFINE L == Len(sql)
           Step(f, i) == IF i > L THEN L + 1
                         ELSE IF sql[i] # c THEN f[i + 1]
                         ELSE IF StartsWith(i, <<c, c>>) THEN f[i + 2]
                         ELSE i + 1
           S == {n \in Nat : \E f : f = [i \in L + 3 - n .. L + 2 |-> Step(f, i)]}
<1>1. L \in Nat
  BY LenProperties
<1> HIDE DEF L
<1>2. 2 \in S
  <2>1. [i \in L + 1 .. L + 2 |-> L + 1]
            = [i \in L + 1 .. L + 2 |-> Step([j \in L + 1 .. L + 2 |-> L + 1], i)]
    BY <1>1
  <2>2. L + 3 - 2 = L + 1
    BY <1>1
  <2> QED
    BY <2>1, <2>2
<1>3. ASSUME NEW n \in 2 .. (L + 2) - 1, n \in S
      PROVE  n + 1 \in S
  <2>1. PICK f : f = [i \in L + 3 - n .. L + 2 |-> Step(f, i)]
    BY <1>3
  <2> DEFINE g == [i \in L + 3 - (n + 1) .. L + 2 |->
                      IF i >= L + 3 - n THEN f[i] ELSE Step(f, i)]
  <2>2. ASSUME NEW i \in L + 3 - (n + 1) .. L + 2
        PROVE  g[i] = Step(g, i)
    <3>1. i <= L => /\ i + 1 \in L + 3 - (n + 1) .. L + 2 /\ i + 1 >= L + 3 - n
                    /\ i + 2 \in L + 3 - (n + 1) .. L + 2 /\ i + 2 >= L + 3 - n
      BY <1>1
    <3>2. i <= L => g[i + 1] = f[i + 1] /\ g[i + 2] = f[i + 2]
      BY <3>1
    <3>3. i \in Int
      OBVIOUS
    <3>4. Step(g, i) = Step(f, i)
      BY <1>1, <3>2, <3>3
    <3>5. i >= L + 3 - n => f[i] = Step(f, i)
      <4>1. i >= L + 3 - n => i \in L + 3 - n .. L + 2
        BY <1>1
      <4> HIDE DEF Step
      <4> QED
        BY <2>1, <4>1
    <3> HIDE DEF Step
    <3> QED
      BY <3>4, <3>5
  <2>3. g = [i \in L + 3 - (n + 1) .. L + 2 |-> Step(g, i)]
    <3> HIDE DEF Step
    <3> QED
      BY <2>2
  <2>4. n + 1 \in Nat
    OBVIOUS
  <2> HIDE DEF g, Step
  <2> QED
    BY <2>3, <2>4
<1>4. \E f : f = [i \in 1 .. L + 2 |-> Step(f, i)]
  <2>1. L + 2 \in Nat /\ L + 2 \in Int /\ 2 \in Int /\ L + 2 \in 2 .. L + 2 /\ L + 3 - (L + 2) = 1
    BY <1>1
  <2> HIDE DEF S
  <2>2. \A n \in 2 .. (L + 2) - 1 : n \in S => n + 1 \in S
    BY <1>3
  <2>3. \A n \in 2 .. L + 2 : n \in S
    BY <1>2, <2>1, <2>2, Reaches
  <2>4. L + 2 \in S
    BY <2>1, <2>3
  <2> HIDE DEF Step
  <2>5. \E f : f = [i \in L + 3 - (L + 2) .. L + 2 |-> Step(f, i)]
    BY <2>4 DEF S
  <2> QED
    BY <2>1, <2>5
<1>5. QuoteEnd(c) = CHOOSE f : f = [i \in 1 .. L + 2 |-> Step(f, i)]
  BY DEF QuoteEnd, L
<1>6. QuoteEnd(c) = [i \in 1 .. L + 2 |-> Step(QuoteEnd(c), i)]
  BY <1>4, <1>5
<1> HIDE DEF Step
<1>7. ASSUME NEW i \in 1 .. L + 2 PROVE QuoteEnd(c)[i] = Step(QuoteEnd(c), i)
  BY <1>6
<1> QED
  BY <1>7 DEF Step, L

\* Read on from position k inside a region: it ends where QuoteEnd says.
LEMMA QuoteEnds ==
    ASSUME sql \in Seq(Chars), NEW c
    PROVE  \A k \in 1 .. Len(sql) + 1 :
               /\ QuoteEnd(c)[k] \in k .. Len(sql) + 1
               /\ k <= Len(sql) /\ Part(k) = InQuotes(c) =>
                      /\ \A j \in k .. QuoteEnd(c)[k] - 1 : Part(j).kind # "code"
                      /\ QuoteEnd(c)[k] <= Len(sql) => Part(QuoteEnd(c)[k]) = Code
<1> DEFINE L == Len(sql)
           end(k) == QuoteEnd(c)[k]
           Ok(k) == /\ end(k) \in k .. L + 1
                    /\ k <= L /\ Part(k) = InQuotes(c) =>
                          /\ \A j \in k .. end(k) - 1 : Part(j).kind # "code"
                          /\ end(k) <= L => Part(end(k)) = Code
           S == {n \in Nat : \A k \in L + 1 - n .. L + 1 : Ok(k)}
<1>1. L \in Nat
  BY LenProperties
<1>2. \A i \in 1 .. L + 2 :
          end(i) = IF i > L THEN L + 1
                   ELSE IF sql[i] # c THEN end(i + 1)
                   ELSE IF StartsWith(i, <<c, c>>) THEN end(i + 2)
                   ELSE i + 1
  BY QuoteEndSteps
<1>3. \A k \in 1 .. L - 1 : Part(k + 1) = Read(Part(k), sql[k], sql[k + 1], FALSE)
  BY NextPart
<1>4. \A k \in 1 .. L : StartsWith(k, <<c, c>>) <=> k < L /\ sql[k] = c /\ sql[k + 1] = c
  BY TwoCharacters
<1>5. InQuotes(c).kind # "code" /\ Doubled(c).kind # "code"
  BY DEF InQuotes, Doubled, Code
<1>r. /\ \A a, d : a # c => Read(InQuotes(c), a, d, FALSE) = InQuotes(c)
      /\ \A d : d # c => Read(InQuotes(c), c, d, FALSE) = Code
      /\ Read(InQuotes(c), c, c, FALSE) = Doubled(c)
      /\ \A a, d : Read(Doubled(c), a, d, FALSE) = InQuotes(c)
  BY ReadQuoted
<1> HIDE DEF L, end
<1>6. 0 \in S
  <2>1. end(L + 1) = L + 1
    BY <1>1, <1>2
  <2>2. Ok(L + 1)
    BY <1>1, <2>1
  <2>3. \A k \in L + 1 - 0 .. L + 1 : k = L + 1
    BY <1>1
  <2> HIDE DEF Ok
  <2> QED
    BY <2>2, <2>3
<1>7. ASSUME NEW n \in 0 .. L - 1, n \in S
      PROVE  n + 1 \in S
  <2>1. \A k \in L + 1 - n .. L + 1 : Ok(k)
    BY <1>7
  <2> DEFINE k == L - n
  <2>2. /\ k \in 1 .. L /\ k \in 1 .. L + 2
        /\ k + 1 \in L + 1 - n .. L + 1
        /\ k < L => k + 2 \in L + 1 - n .. L + 1 /\ k + 1 \in 1 .. L - 1 + 1 /\ k \in 1 .. L - 1
        /\ (k + 1) + 1 = k + 2
    BY <1>1
  <2>3. \A j \in L + 1 - (n + 1) .. L + 1 : j = k \/ j \in L + 1 - n .. L + 1
    BY <1>1
  <2> HIDE DEF k
  <2>4. Ok(k + 1) /\ (k < L => Ok(k + 2))
    BY <2>1, <2>2
  <2>5. Ok(k)
    <3>1. CASE sql[k] # c
      <4>1. end(k) = end(k + 1)
        BY <1>1, <1>2, <2>2, <3>1
      <4>2. end(k) \in k .. L + 1
        BY <1>1, <2>2, <2>4, <4>1
      <4>3. ASSUME Part(k) = InQuotes(c), k < L
            PROVE  Part(k + 1) = InQuotes(c)
        <5>1. Part(k + 1) = Read(InQuotes(c), sql[k], sql[k + 1], FALSE)
          BY <1>3, <2>2, <4>3
        <5> QED
          BY <3>1, <5>1, <1>r
      <4>4. ASSUME Part(k) = InQuotes(c), NEW j \in k .. end(k) - 1
            PROVE  Part(j).kind # "code"
        <5>1. CASE j = k
          BY <1>5, <4>4, <5>1
        <5>2. CASE j # k
          <6>1. k < L /\ k + 1 <= L /\ j \in k + 1 .. end(k + 1) - 1
            BY <1>1, <2>2, <4>1, <4>2, <5>2
          <6> QED
            BY <2>4, <4>3, <4>4, <6>1
        <5> QED
          BY <5>1, <5>2
      <4>5. ASSUME Part(k) = InQuotes(c), end(k) <= L
            PROVE  Part(end(k)) = Code
        <5>1. k < L /\ k + 1 <= L
          <6>1. end(k + 1) \in k + 1 .. L + 1
            BY <2>4
          <6> QED
            BY <1>1, <2>2, <4>1, <4>5, <6>1
        <5> QED
          BY <2>4, <4>1, <4>3, <4>5, <5>1
      <4> QED
        BY <4>2, <4>4, <4>5
    <3>2. CASE sql[k] = c /\ StartsWith(k, <<c, c>>)
      <4>1. k < L /\ sql[k + 1] = c
        BY <1>4, <2>2, <3>2
      <4>2. end(k) = end(k + 2)
        BY <1>1, <1>2, <2>2, <3>2
      <4>3. end(k) \in k + 2 .. L + 1 /\ end(k) \in k .. L + 1
        BY <1>1, <2>2, <2>4, <4>1, <4>2
      <4>4. ASSUME Part(k) = InQuotes(c)
            PROVE  Part(k + 1) = Doubled(c) /\ (k + 2 <= L => Part(k + 2) = InQuotes(c))
        <5>1. Part(k + 1) = Read(InQuotes(c), sql[k], sql[k + 1], FALSE)
          BY <1>3, <2>2, <4>1, <4>4
        <5>2. Part(k + 1) = Doubled(c)
          BY <3>2, <4>1, <5>1, <1>r
        <5>3. ASSUME k + 2 <= L PROVE Part(k + 2) = InQuotes(c)
          <6>1. k + 1 \in 1 .. L - 1
            BY <1>1, <2>2, <5>3
          <6>2. Part(k + 2) = Read(Doubled(c), sql[k + 1], sql[k + 2], FALSE)
            BY <1>3, <2>2, <5>2, <6>1
          <6> QED
            BY <6>2, <1>r
        <5> QED
          BY <5>2, <5>3
      <4>5. ASSUME Part(k) = InQuotes(c), NEW j \in k .. end(k) - 1
            PROVE  Part(j).kind # "code"
        <5>1. CASE j = k
          BY <1>5, <4>5, <5>1
        <5>2. CASE j = k + 1
          BY <1>5, <4>4, <4>5, <5>2
        <5>3. CASE j # k /\ j # k + 1
          <6>1. k + 2 <= L /\ j \in k + 2 .. end(k + 2) - 1
            BY <1>1, <2>2, <4>2, <4>3, <5>3
          <6> QED
            BY <2>4, <4>1, <4>4, <4>5, <6>1
        <5> QED
          BY <5>1, <5>2, <5>3
      <4>6. ASSUME Part(k) = InQuotes(c), end(k) <= L
            PROVE  Part(end(k)) = Code
        <5>1. k + 2 <= L
          BY <1>1, <2>2, <4>3, <4>6
        <5> QED
          BY <2>4, <4>1, <4>2, <4>4, <4>6, <5>1
      <4> QED
        BY <4>3, <4>5, <4>6
    <3>3. CASE sql[k] = c /\ ~StartsWith(k, <<c, c>>)
      <4>1. end(k) = k + 1
        BY <1>1, <1>2, <2>2, <3>3
      <4>2. end(k) \in k .. L + 1
        BY <1>1, <2>2, <4>1
      <4>3. ASSUME Part(k) = InQuotes(c), NEW j \in k .. end(k) - 1
            PROVE  Part(j).kind # "code"
        <5>1. j = k
          BY <2>2, <4>1
        <5> QED
          BY <1>5, <4>3, <5>1
      <4>4. ASSUME Part(k) = InQuotes(c), end(k) <= L
            PROVE  Part(end(k)) = Code
        <5>1. k < L
          BY <1>1, <2>2, <4>1, <4>4
        <5>2. Part(k + 1) = Read(InQuotes(c), sql[k], sql[k + 1], FALSE)
          BY <1>3, <2>2, <4>4, <5>1
        <5>3. sql[k + 1] # c
          BY <1>4, <2>2, <3>3, <5>1
        <5> QED
          BY <3>3, <4>1, <5>2, <5>3, <1>r
      <4> QED
        BY <4>2, <4>3, <4>4
    <3> QED
      BY <3>1, <3>2, <3>3
  <2>6. n + 1 \in Nat
    OBVIOUS
  <2> HIDE DEF Ok
  <2> QED
    BY <2>1, <2>3, <2>5, <2>6
<1>8. \A k \in 1 .. L + 1 : Ok(k)
  <2>1. L \in Int /\ 0 \in Int /\ L \in 0 .. L /\ L + 1 - L = 1
    BY <1>1
  <2> HIDE DEF S
  <2>2. \A n \in 0 .. L - 1 : n \in S => n + 1 \in S
    BY <1>7
  <2>3. \A n \in 0 .. L : n \in S
    BY <1>6, <2>1, <2>2, Reaches
  <2>4. L \in S
    BY <2>1, <2>3
  <2> HIDE DEF Ok
  <2> QED
    BY <2>1, <2>4 DEF S
<1> QED
  BY <1>8 DEF L, end

-----------------------------------------------------------------------------
(* Regions and single characters. *)

LEMMA QuotedSkips ==
    ASSUME sql \in Seq(Chars), NEW i \in 1 .. Len(sql), Part(i) = Code,
           sql[i] \in DOMAIN Closing
    PROVE  Skips(i, QuoteEnd(Closing[sql[i]])[i + 1])
<1> DEFINE c == Closing[sql[i]]
           e == QuoteEnd(c)[i + 1]
<1>1. Len(sql) \in Nat /\ i + 1 \in 1 .. Len(sql) + 1
  BY LenProperties
<1>2. sql[i] # "-" /\ sql[i] # "/"
  BY DEF Closing
<1> HIDE DEF c
<1>3. /\ e \in i + 1 .. Len(sql) + 1
      /\ i + 1 <= Len(sql) /\ Part(i + 1) = InQuotes(c) =>
             /\ \A j \in i + 1 .. e - 1 : Part(j).kind # "code"
             /\ e <= Len(sql) => Part(e) = Code
  BY <1>1, QuoteEnds
<1> HIDE DEF e
<1>4. ASSUME i + 1 <= Len(sql)
      PROVE  Part(i + 1) = InQuotes(c)
  <2>1. i \in 1 .. Len(sql) - 1
    BY <1>1, <1>4
  <2>2. Part(i + 1) = Read(Code, sql[i], sql[i + 1], FALSE)
    BY <2>1, NextPart
  <2> QED
    BY <1>2, <2>2, ReadCode DEF c
<1>5. Skips(i, e)
  <2>1. CASE i + 1 <= Len(sql)
    BY <1>3, <1>4, <2>1 DEF Skips
  <2>2. CASE ~(i + 1 <= Len(sql))
    <3>1. e = i + 1 /\ e = Len(sql) + 1
      BY <1>1, <1>3, <2>2
    <3>2. i + 1 .. e - 1 = {} /\ ~(e <= Len(sql))
      BY <1>1, <3>1
    <3> QED
      BY <1>3, <3>2 DEF Skips
  <2> QED
    BY <2>1, <2>2
<1> QED
  BY <1>5 DEF e, c

\* Any other character is a token of its own.
LEMMA OtherSkips ==
    ASSUME sql \in Seq(Chars), NEW i \in 1 .. Len(sql), Part(i) = Code,
           sql[i] \notin DOMAIN Closing,
           ~StartsWith(i, <<"-", "-">>), ~StartsWith(i, <<"/", "*">>)
    PROVE  Skips(i, i + 1)
<1>1. Len(sql) \in Nat
  BY LenProperties
<1>2. ASSUME i + 1 <= Len(sql)
      PROVE  Part(i + 1) = Code
  <2>1. i \in 1 .. Len(sql) - 1 /\ i < Len(sql)
    BY <1>1, <1>2
  <2>2. Part(i + 1) = Read(Code, sql[i], sql[i + 1], FALSE)
    BY <2>1, NextPart
  <2>3. ~(sql[i] = "-" /\ sql[i + 1] = "-") /\ ~(sql[i] = "/" /\ sql[i + 1] = "*")
    BY <2>1, TwoCharacters
  <2> QED
    BY <2>2, <2>3, ReadCode
<1>3. i + 1 \in i + 1 .. Len(sql) + 1 /\ i + 1 .. (i + 1) - 1 = {}
  BY <1>1
<1> QED
  BY <1>2, <1>3 DEF Skips

-----------------------------------------------------------------------------
(* The output. *)

\* The markers among the first n characters.
Marks(n) == {i \in 1 .. n : sql[i] = "?" /\ Part(i).kind = "code"}

\* What becomes of character i.
Piece(i) == IF i \in Marks(i) THEN Param(Cardinality(Marks(i))) ELSE Copied(sql[i])

PieceType == {Copied(c) : c \in Chars} \cup {Param(n) : n \in 1 .. MaxLength}

\* Numbered says it character by character.
LEMMA NumberedPieces ==
    ASSUME NEW n \in Int
    PROVE  Numbered(n, FALSE) = [i \in 1 .. n |-> Piece(i)]
<1>1. Numbered(n, FALSE) =
          [i \in 1 .. n |-> IF i \in Marks(n)
                            THEN Param(Cardinality({j \in Marks(n) : j <= i}))
                            ELSE Copied(sql[i])]
  BY DEF Numbered, Marks, Part
<1>2. ASSUME NEW i \in 1 .. n
      PROVE  (i \in Marks(n) <=> i \in Marks(i)) /\ {j \in Marks(n) : j <= i} = Marks(i)
  <2>1. i \in Int /\ i <= n /\ i \in 1 .. i
    OBVIOUS
  <2>2. i \in Marks(n) <=> i \in Marks(i)
    BY <2>1 DEF Marks
  <2>3. \A j : j \in 1 .. i <=> j \in 1 .. n /\ j <= i
    BY <2>1
  <2>4. {j \in Marks(n) : j <= i} = Marks(i)
    BY <2>3 DEF Marks
  <2> QED
    BY <2>2, <2>4
<1> QED
  BY <1>1, <1>2 DEF Piece

\* Their number.
LEMMA MarksCounted ==
    ASSUME NEW n \in Nat
    PROVE  /\ IsFiniteSet(Marks(n))
           /\ Cardinality(Marks(n)) \in 0 .. n
           /\ Marks(n) # {} => Cardinality(Marks(n)) > 0
<1>1. IsFiniteSet(1 .. n) /\ Cardinality(1 .. n) = n
  <2>1. Cardinality(1 .. n) = IF 1 > n THEN 0 ELSE n - 1 + 1
    BY FS_Interval
  <2> QED
    BY <2>1, FS_Interval
<1>2. Marks(n) \in SUBSET (1 .. n)
  BY DEF Marks
<1>3. /\ IsFiniteSet(Marks(n))
      /\ Cardinality(Marks(n)) <= Cardinality(1 .. n)
  BY <1>1, <1>2, FS_Subset
<1>4. Cardinality(Marks(n)) \in Nat
  BY <1>3, FS_CardinalityType
<1>5. Marks(n) # {} => Cardinality(Marks(n)) # 0
  BY <1>3, FS_EmptySet
<1> QED
  BY <1>1, <1>3, <1>4, <1>5

LEMMA PieceIsPiece ==
    ASSUME sql \in Seq(Chars), Len(sql) <= MaxLength, NEW i \in 1 .. Len(sql)
    PROVE  Piece(i) \in PieceType
<1>1. Len(sql) \in Nat /\ MaxLength \in Nat /\ i \in Nat
  BY BoundsAssumption, LenProperties
<1>2. CASE i \in Marks(i)
  <2>1. Cardinality(Marks(i)) \in 0 .. i /\ Cardinality(Marks(i)) > 0
    BY <1>1, <1>2, MarksCounted
  <2>2. Cardinality(Marks(i)) \in 1 .. MaxLength
    BY <1>1, <2>1
  <2> QED
    BY <1>2, <2>2 DEF Piece, PieceType
<1>3. CASE i \notin Marks(i)
  <2>1. sql[i] \in Chars
    BY ElementOfSeq
  <2> QED
    BY <1>3, <2>1 DEF Piece, PieceType
<1> QED
  BY <1>2, <1>3

\* A token that is not a marker has none in it.
LEMMA SkippedPieces ==
    ASSUME sql \in Seq(Chars), NEW i \in 1 .. Len(sql), sql[i] # "?", NEW e, Skips(i, e)
    PROVE  /\ Marks(e - 1) = Marks(i - 1)
           /\ \A k \in i .. e - 1 : Piece(k) = Copied(sql[k])
<1>1. e \in i + 1 .. Len(sql) + 1 /\ \A k \in i + 1 .. e - 1 : Part(k).kind # "code"
  BY DEF Skips
<1>2. ASSUME NEW k \in i .. e - 1
      PROVE  ~(sql[k] = "?" /\ Part(k).kind = "code")
  <2>1. k = i \/ k \in i + 1 .. e - 1
    OBVIOUS
  <2> QED
    BY <1>1, <2>1
<1>3. \A k \in 1 .. e - 1 : k \in 1 .. i - 1 \/ k \in i .. e - 1
  BY <1>1
<1>4. \A k \in 1 .. i - 1 : k \in 1 .. e - 1
  BY <1>1
<1>5. Marks(e - 1) = Marks(i - 1)
  BY <1>2, <1>3, <1>4 DEF Marks
<1>6. \A k \in i .. e - 1 : Piece(k) = Copied(sql[k])
  BY <1>2 DEF Piece, Marks
<1> QED
  BY <1>5, <1>6

-----------------------------------------------------------------------------
(* The inductive invariant: between tokens, with everything before rewritten. *)

Scanned ==
    /\ index <= Len(sql) => Part(index) = Code
    /\ markers = Cardinality(Marks(index - 1))
    /\ output = [i \in 1 .. index - 1 |-> Piece(i)]

\* Parameters are bound when the whole statement is read.
BoundShape == result = "bound" => index = Len(sql) + 1 /\ markers = args

IInv == TypeOK /\ Scanned /\ BoundShape

\* The next state of the scanner, about the same statement.
LEMMA ScannedNext ==
    ASSUME sql' = sql, index' <= Len(sql) => Part(index') = Code,
           markers' = Cardinality(Marks(index' - 1)),
           output' = [i \in 1 .. index' - 1 |-> Piece(i)]
    PROVE  Scanned'
<1>1. Reading(FALSE)' = Reading(FALSE)
  BY StillReads
<1> QED
  BY <1>1 DEF Scanned, Part, Marks, Piece

LEMMA ScannedStays ==
    ASSUME Scanned, UNCHANGED <<sql, index, output, markers>>
    PROVE  Scanned'
<1>1. index <= Len(sql) => Part(index) = Code
  BY DEF Scanned
<1>2. markers = Cardinality(Marks(index - 1))
  BY DEF Scanned
<1>3. output = [i \in 1 .. index - 1 |-> Piece(i)]
  BY DEF Scanned
<1> QED
  BY <1>1, <1>2, <1>3, ScannedNext

\* What is rewritten is a typed output, with its markers counted.
LEMMA TypedOutput ==
    ASSUME sql \in Seq(Chars), Len(sql) <= MaxLength, NEW n \in 0 .. Len(sql)
    PROVE  /\ [i \in 1 .. n |-> Piece(i)] \in Seq(PieceType)
           /\ Cardinality(Marks(n)) \in 0 .. MaxLength
<1>1. Len(sql) \in Nat /\ MaxLength \in Nat
  BY BoundsAssumption, LenProperties
<1>2. n \in Nat /\ n <= MaxLength
  BY <1>1
<1>3. Cardinality(Marks(n)) \in 0 .. MaxLength
  <2>1. Cardinality(Marks(n)) \in 0 .. n
    BY <1>2, MarksCounted
  <2> QED
    BY <1>1, <1>2, <2>1
<1>4. ASSUME NEW i \in 1 .. n PROVE Piece(i) \in PieceType
  <2>1. i \in 1 .. Len(sql)
    BY <1>1
  <2> QED
    BY <2>1, PieceIsPiece
<1>5. [i \in 1 .. n |-> Piece(i)] \in Seq(PieceType)
  BY <1>2, <1>4
<1> QED
  BY <1>3, <1>5

\* The whole invariant in the next state.
LEMMA ScannerNext ==
    ASSUME TypeOK, UNCHANGED <<sql, args>>, result' \in Results,
           NEW e \in 1 .. Len(sql) + 1, index' = e,
           e <= Len(sql) => Part(e) = Code,
           markers' = Cardinality(Marks(e - 1)),
           output' = [i \in 1 .. e - 1 |-> Piece(i)]
    PROVE  TypeOK' /\ Scanned'
<1>1. Scanned'
  BY ScannedNext
<1>2. sql \in Seq(Chars) /\ Len(sql) <= MaxLength /\ args \in 0 .. MaxArgs
  BY DEF TypeOK
<1>3. e - 1 \in 0 .. Len(sql)
  <2>1. Len(sql) \in Nat
    BY <1>2, LenProperties
  <2> QED
    BY <2>1
<1>4. output' \in Seq(PieceType) /\ markers' \in 0 .. MaxLength
  BY <1>2, <1>3, TypedOutput
<1> QED
  BY <1>1, <1>2, <1>4 DEF TypeOK, PieceType

-----------------------------------------------------------------------------
(* The invariant is inductive. *)

LEMMA InitScanner == Init => IInv
<1> SUFFICES ASSUME Init PROVE IInv
  OBVIOUS
<1>1. MaxLength \in Nat /\ MaxArgs \in Nat
  BY BoundsAssumption
<1>2. sql \in Seq(Chars) /\ Len(sql) <= MaxLength
  <2>1. PICK n \in 0 .. MaxLength : sql \in [1 .. n -> Chars]
    BY DEF Init, SeqOf
  <2>2. n \in Nat
    BY <1>1
  <2> QED
    BY <1>1, <2>1, <2>2
<1>3. Len(sql) \in Nat
  BY <1>2, LenProperties
<1>4. index - 1 = 0 /\ index = 1 /\ output = <<>> /\ markers = 0
  BY DEF Init
<1>5. TypeOK
  <2>1. /\ args \in 0 .. MaxArgs /\ result \in Results
    BY DEF Init, Results
  <2>2. index \in 1 .. Len(sql) + 1 /\ markers \in 0 .. MaxLength
    BY <1>1, <1>3, <1>4
  <2> QED
    BY <1>2, <1>4, <2>1, <2>2 DEF TypeOK
<1>6. Scanned
  <2>1. ASSUME index <= Len(sql) PROVE Part(index) = Code
    <3>1. 1 \in 1 .. Len(sql)
      BY <1>3, <1>4, <2>1
    <3>2. Reading(FALSE)[1] = Code
      BY <1>2, <3>1, ReadingSteps
    <3> QED
      BY <1>4, <3>2 DEF Part
  <2>2. Marks(0) = {}
    BY DEF Marks
  <2>3. markers = Cardinality(Marks(0))
    BY <1>4, <2>2, FS_EmptySet
  <2>4. output = [i \in 1 .. 0 |-> Piece(i)]
    BY <1>4
  <2> QED
    BY <1>4, <2>1, <2>3, <2>4 DEF Scanned
<1>7. BoundShape
  BY DEF Init, BoundShape
<1> QED
  BY <1>5, <1>6, <1>7 DEF IInv

\* Two parts of a sequence, one after the other.
LEMMA Joined ==
    ASSUME NEW m \in Nat, NEW n \in Nat, NEW f
    PROVE  [i \in 1 .. m |-> f[i]] \o [i \in 1 .. n |-> f[m + i]] = [i \in 1 .. m + n |-> f[i]]
OBVIOUS

\* A token that is copied.
LEMMA CopyKeeps ==
    ASSUME IInv, Scanning, sql[index] # "?", NEW e, Skips(index, e), CopyTo(e)
    PROVE  IInv'
<1>1. /\ TypeOK /\ Scanned /\ sql \in Seq(Chars) /\ Len(sql) \in Nat
      /\ index \in 1 .. Len(sql) /\ result = "scanning"
  BY LenProperties DEF IInv, TypeOK, Scanning
<1>2. e \in index + 1 .. Len(sql) + 1 /\ (e <= Len(sql) => Part(e) = Code)
  BY DEF Skips
<1>3. /\ UNCHANGED <<sql, args, markers, result>> /\ index' = e
      /\ output' = output \o [i \in 1 .. e - index |-> Copied(sql[index + i - 1])]
  BY DEF CopyTo
<1>4. /\ Marks(e - 1) = Marks(index - 1)
      /\ \A k \in index .. e - 1 : Piece(k) = Copied(sql[k])
  BY <1>1, SkippedPieces
<1>5. output' = [i \in 1 .. e - 1 |-> Piece(i)]
  <2> DEFINE m == index - 1
             n == e - index
             f == [k \in 1 .. e - 1 |-> Piece(k)]
  <2>1. m \in Nat /\ n \in Nat /\ m + n = e - 1 /\ index = m + 1
    BY <1>1, <1>2
  <2>2. [i \in 1 .. m |-> f[i]] = output
    <3>1. \A i \in 1 .. m : i \in 1 .. e - 1
      BY <1>1, <1>2
    <3> QED
      BY <1>1, <3>1 DEF Scanned
  <2>3. ASSUME NEW i \in 1 .. n
        PROVE  f[m + i] = Copied(sql[index + i - 1])
    <3>1. /\ m + i \in 1 .. e - 1 /\ m + i \in index .. e - 1
          /\ m + i = index + i - 1
      BY <1>1, <1>2
    <3>2. f[m + i] = Piece(m + i)
      BY <3>1
    <3> HIDE DEF f, m
    <3> QED
      BY <1>4, <3>1, <3>2
  <2> HIDE DEF m, n, f
  <2>4. [i \in 1 .. n |-> f[m + i]] = [i \in 1 .. n |-> Copied(sql[index + i - 1])]
    BY <2>3
  <2>5. output' = [i \in 1 .. m |-> f[i]] \o [i \in 1 .. n |-> f[m + i]]
    BY <1>3, <2>2, <2>4 DEF n
  <2>6. output' = [i \in 1 .. m + n |-> f[i]]
    BY <2>1, <2>5, Joined
  <2> QED
    BY <2>1, <2>6 DEF f
<1>6. e \in 1 .. Len(sql) + 1
  BY <1>1, <1>2
<1>7. markers' = Cardinality(Marks(e - 1)) /\ result' \in Results
  BY <1>1, <1>3, <1>4 DEF Scanned, Results
<1>8. TypeOK' /\ Scanned'
  BY <1>1, <1>2, <1>3, <1>5, <1>6, <1>7, ScannerNext
<1>9. BoundShape'
  BY <1>1, <1>3 DEF BoundShape
<1> QED
  BY <1>8, <1>9 DEF IInv

LEMMA MarkerKeeps ==
    ASSUME IInv, Marker
    PROVE  IInv'
<1>1. /\ TypeOK /\ Scanned /\ sql \in Seq(Chars) /\ Len(sql) \in Nat
      /\ index \in 1 .. Len(sql) /\ result = "scanning" /\ sql[index] = "?"
  BY LenProperties DEF IInv, TypeOK, Scanning, Marker
<1>2. /\ UNCHANGED <<sql, args, result>> /\ index' = index + 1 /\ markers' = markers + 1
      /\ output' = Append(output, Param(markers + 1))
  BY DEF Marker
<1>3. Part(index) = Code /\ Part(index).kind = "code"
  <2>1. Part(index) = Code
    BY <1>1 DEF Scanned
  <2>2. Code.kind = "code"
    BY DEF Code
  <2> QED
    BY <2>1, <2>2
<1>4. index - 1 \in Nat /\ index \in Nat
  BY <1>1
<1>5. /\ Marks(index) = Marks(index - 1) \cup {index}
      /\ index \notin Marks(index - 1)
  <2>1. \A k : k \in 1 .. index <=> k \in 1 .. index - 1 \/ k = index
    BY <1>4, <1>1
  <2>2. index \notin 1 .. index - 1
    BY <1>4
  <2> QED
    BY <1>1, <1>3, <2>1, <2>2 DEF Marks
<1>6. markers + 1 = Cardinality(Marks(index)) /\ index \in Marks(index)
  <2>1. IsFiniteSet(Marks(index - 1))
    BY <1>4, MarksCounted
  <2>2. Cardinality(Marks(index - 1) \cup {index}) = Cardinality(Marks(index - 1)) + 1
    BY <1>5, <2>1, FS_AddElement
  <2> QED
    BY <1>1, <1>5, <2>2 DEF Scanned
<1>7. Piece(index) = Param(markers + 1)
  BY <1>6 DEF Piece
<1>8. output' = [i \in 1 .. index |-> Piece(i)]
  <2> DEFINE m == index - 1
  <2>1. m \in Nat /\ index = m + 1
    BY <1>4
  <2>2. output = [i \in 1 .. m |-> Piece(i)] /\ Piece(m + 1) = Param(markers + 1)
    BY <1>1, <1>7, <2>1 DEF Scanned
  <2> HIDE DEF m
  <2>3. Append(output, Piece(m + 1)) = [i \in 1 .. m + 1 |-> Piece(i)]
    BY <2>1, <2>2
  <2> QED
    BY <1>2, <2>1, <2>2, <2>3
<1>9. TypeOK' /\ Scanned'
  <2> DEFINE e == index + 1
  <2>1. e \in 1 .. Len(sql) + 1 /\ e - 1 = index /\ index' = e
    BY <1>1, <1>2
  <2>2. e <= Len(sql) => Part(e) = Code
    <3>1. ASSUME e <= Len(sql) PROVE index \in 1 .. Len(sql) - 1
      BY <1>1, <3>1
    <3>2. "?" \notin DOMAIN Closing
      BY DEF Closing
    <3>3. ASSUME e <= Len(sql) PROVE Part(index + 1) = Read(Code, "?", sql[index + 1], FALSE)
      BY <1>1, <1>3, <3>1, <3>3, NextPart
    <3> QED
      BY <3>2, <3>3, ReadCode
  <2>3. markers' = Cardinality(Marks(e - 1)) /\ output' = [i \in 1 .. e - 1 |-> Piece(i)]
    BY <1>2, <1>6, <1>8, <2>1
  <2>4. result' \in Results
    BY <1>1, <1>2 DEF Results
  <2> HIDE DEF e
  <2> QED
    BY <1>1, <1>2, <2>1, <2>2, <2>3, <2>4, ScannerNext
<1>10. BoundShape'
  BY <1>1, <1>2 DEF BoundShape
<1> QED
  BY <1>9, <1>10 DEF IInv

LEMMA NextScanner == IInv /\ [Next]_vars => IInv'
<1> SUFFICES ASSUME IInv, [Next]_vars PROVE IInv'
  OBVIOUS
<1>1. /\ TypeOK /\ Scanned /\ BoundShape
      /\ sql \in Seq(Chars) /\ Len(sql) \in Nat /\ index \in 1 .. Len(sql) + 1
  BY LenProperties DEF IInv, TypeOK
<1>2. ASSUME Scanning
      PROVE  index \in 1 .. Len(sql) /\ Part(index) = Code
  BY <1>1, <1>2 DEF Scanning, Scanned
<1>3. CASE LineComment
  <2>1. Scanning /\ StartsWith(index, <<"-", "-">>)
    BY <1>3 DEF LineComment
  <2>2. sql[index] # "?"
    BY <1>1, <1>2, <2>1, TwoCharacters
  <2> DEFINE e == FirstOr({i \in index .. Len(sql) : sql[i] = Newline})
  <2>3. Skips(index, e)
    BY <1>1, <1>2, <2>1, LineSkips
  <2>4. CopyTo(e)
    BY <1>3 DEF LineComment
  <2> HIDE DEF e
  <2> QED
    BY <2>1, <2>2, <2>3, <2>4, CopyKeeps
<1>4. CASE BlockComment
  <2>1. Scanning /\ StartsWith(index, <<"/", "*">>)
    BY <1>4 DEF BlockComment
  <2>2. sql[index] # "?"
    BY <1>1, <1>2, <2>1, TwoCharacters
  <2> DEFINE e == FirstOr({i + 2 : i \in {j \in index + 2 .. Len(sql) : StartsWith(j, <<"*", "/">>)}})
  <2>3. Skips(index, e)
    BY <1>1, <1>2, <2>1, BlockSkips
  <2>4. CopyTo(e)
    BY <1>4 DEF BlockComment
  <2> HIDE DEF e
  <2> QED
    BY <2>1, <2>2, <2>3, <2>4, CopyKeeps
<1>5. CASE Quoted
  <2>1. Scanning /\ sql[index] \in DOMAIN Closing
    BY <1>5 DEF Quoted
  <2>2. sql[index] # "?"
    BY <2>1 DEF Closing
  <2> DEFINE e == QuoteEnd(Closing[sql[index]])[index + 1]
  <2>3. Skips(index, e)
    BY <1>1, <1>2, <2>1, QuotedSkips
  <2>4. CopyTo(e)
    BY <1>5 DEF Quoted
  <2> HIDE DEF e
  <2> QED
    BY <2>1, <2>2, <2>3, <2>4, CopyKeeps
<1>6. CASE Marker
  BY <1>6, MarkerKeeps
<1>7. CASE Other
  <2>1. /\ Scanning /\ sql[index] \notin DOMAIN Closing \cup {"?"}
        /\ ~StartsWith(index, <<"-", "-">>) /\ ~StartsWith(index, <<"/", "*">>)
        /\ CopyTo(index + 1)
    BY <1>7 DEF Other
  <2>2. Skips(index, index + 1)
    BY <1>1, <1>2, <2>1, OtherSkips
  <2> QED
    BY <2>1, <2>2, CopyKeeps
<1>8. CASE Bind
  <2>1. /\ UNCHANGED <<sql, args, index, output, markers>> /\ index > Len(sql)
        /\ result' = IF markers = args THEN "bound" ELSE "arity"
    BY <1>8 DEF Bind
  <2>2. result' \in Results
    BY <2>1 DEF Results
  <2>3. TypeOK'
    BY <1>1, <2>1, <2>2 DEF TypeOK
  <2>4. Scanned'
    BY <1>1, <2>1, ScannedStays
  <2>5. BoundShape'
    <3>1. index = Len(sql) + 1
      BY <1>1, <2>1
    <3> QED
      BY <2>1, <3>1 DEF BoundShape
  <2> QED
    BY <2>3, <2>4, <2>5 DEF IInv
<1>9. CASE UNCHANGED vars
  <2>1. Scanned'
    BY <1>1, <1>9, ScannedStays DEF vars
  <2> QED
    BY <1>1, <1>9, <2>1 DEF IInv, TypeOK, BoundShape, vars
<1> QED
  BY <1>3, <1>4, <1>5, <1>6, <1>7, <1>8, <1>9 DEF Next

LEMMA AlwaysScanned == Spec => []IInv
BY InitScanner, NextScanner, PTL DEF Spec

-----------------------------------------------------------------------------
(* Results. *)

\* The variables have their types: a parameter is never numbered from 0, and no
\* scan runs past the end of the statement (rewrite_param_markers).
THEOREM TypeCorrect == Spec => []TypeOK
<1>1. IInv => TypeOK
  BY DEF IInv
<1> QED
  BY <1>1, AlwaysScanned, PTL

\* Whatever the statement and however long it is, what is read so far is copied,
\* except for its markers, which are replaced in order (rewrite_param_markers).
THEOREM MarkersAreRewritten == Spec => []RewritesTheMarkers
<1>1. IInv => RewritesTheMarkers
  <2> SUFFICES ASSUME IInv PROVE RewritesTheMarkers
    OBVIOUS
  <2>1. index - 1 \in Int /\ output = [i \in 1 .. index - 1 |-> Piece(i)]
    BY LenProperties DEF IInv, TypeOK, Scanned
  <2>2. Numbered(index - 1, FALSE) = [i \in 1 .. index - 1 |-> Piece(i)]
    BY <2>1, NumberedPieces
  <2> QED
    BY <2>1, <2>2 DEF RewritesTheMarkers
<1> QED
  BY <1>1, AlwaysScanned, PTL

\* A request that is made names each of its parameters once, in order (build_request).
THEOREM ArgumentsAreUsed == Spec => []EveryArgumentIsUsed
<1>1. IInv => EveryArgumentIsUsed
  <2> SUFFICES ASSUME IInv, result = "bound" PROVE EveryArgumentIsUsed
    BY DEF EveryArgumentIsUsed
  <2> DEFINE n == index - 1
             used == {i \in DOMAIN output : output[i].number > 0}
  <2>1. n \in Nat /\ markers = args /\ markers = Cardinality(Marks(n))
        /\ output = [i \in 1 .. n |-> Piece(i)]
    BY LenProperties DEF IInv, TypeOK, Scanned, BoundShape
  <2> HIDE DEF n
  <2>2. ASSUME NEW i \in 1 .. n
        PROVE  /\ i \in Marks(n) <=> i \in Marks(i)
               /\ i \in Marks(i) => output[i].number = Cardinality(Marks(i))
               /\ output[i].number > 0 <=> i \in Marks(i)
    <3>1. i \in Nat /\ i \in 1 .. i /\ output[i] = Piece(i)
      BY <2>1
    <3>2. i \in Marks(n) <=> i \in Marks(i)
      BY <3>1 DEF Marks
    <3>3. i \in Marks(i) => Cardinality(Marks(i)) > 0
      BY <3>1, MarksCounted
    <3>4. i \in Marks(i) => output[i].number = Cardinality(Marks(i))
      BY <3>1 DEF Piece, Param
    <3>5. i \notin Marks(i) => output[i].number = 0
      BY <3>1 DEF Piece, Copied
    <3> QED
      BY <3>2, <3>3, <3>4, <3>5
  <2>3. used = Marks(n)
    <3>1. DOMAIN output = 1 .. n /\ Marks(n) \in SUBSET (1 .. n)
      BY <2>1 DEF Marks
    <3> QED
      BY <2>2, <3>1
  <2>4. ASSUME NEW i \in Marks(n)
        PROVE  {j \in Marks(n) : j <= i} = Marks(i)
    <3>1. i \in 1 .. n
      BY DEF Marks
    <3>2. \A j : j \in 1 .. i <=> j \in 1 .. n /\ j <= i
      BY <2>1, <3>1
    <3> QED
      BY <3>2 DEF Marks
  <2>5. \A i \in Marks(n) : i \in 1 .. n
    BY DEF Marks
  <2> HIDE DEF used
  <2>6. ASSUME NEW i \in used
        PROVE  output[i].number = Cardinality({j \in used : j <= i})
    <3>1. i \in Marks(n) /\ i \in Marks(i)
      BY <2>2, <2>3, <2>5
    <3> QED
      BY <2>2, <2>3, <2>4, <2>5, <3>1
  <2>7. Cardinality(used) = args
    BY <2>1, <2>3
  <2> QED
    BY <2>6, <2>7 DEF EveryArgumentIsUsed, used
<1> QED
  BY <1>1, AlwaysScanned, PTL

-----------------------------------------------------------------------------
(* Against T-SQL, whose comments nest. *)

\* What closes a region.
Closers == {Closing[c] : c \in DOMAIN Closing}

\* What a character can be part of.
Parts == {Code, InLine, InBlock(1), InComment, InBlock(0)}
             \cup {InQuotes(c) : c \in Closers} \cup {Doubled(c) : c \in Closers}

\* A comment that opens within another is all that the two readings differ in.
LEMMA ReadBoth ==
    ASSUME NEW q \in Parts, NEW c, NEW d
    PROVE  /\ Read(q, c, d, FALSE) \in Parts
           /\ \/ Read(q, c, d, TRUE) = Read(q, c, d, FALSE)
              \/ Read(q, c, d, TRUE) = InBlock(2)
<1>1. CASE q = Code
  <2>1. c \in DOMAIN Closing => Closing[c] \in Closers
    BY DEF Closers
  <2>2. /\ Read(Code, c, d, FALSE) = Read(Code, c, d, TRUE)
        /\ \/ Read(Code, c, d, FALSE) \in {InLine, InBlock(1), Code}
           \/ c \in DOMAIN Closing /\ Read(Code, c, d, FALSE) = InQuotes(Closing[c])
    BY ReadCode
  <2> QED
    BY <1>1, <2>1, <2>2 DEF Parts
<1>2. CASE q = InLine
  <2>1. Read(InLine, c, d, FALSE) \in {Code, InLine}
    BY ReadLine
  <2>2. Read(InLine, c, d, TRUE) = Read(InLine, c, d, FALSE)
    <3>1. InLine.kind = "line" /\ InLine.second = FALSE
      BY DEF Code, InLine
    <3> QED
      BY <3>1 DEF Read
  <2> QED
    BY <1>2, <2>1, <2>2 DEF Parts
<1>3. CASE q \in {InBlock(1), InBlock(0)}
  <2>1. Read(q, c, d, FALSE) \in {InComment, Code}
    BY <1>3, ReadBlock
  <2>2. Read(q, c, d, TRUE) = Read(q, c, d, FALSE)
    <3>1. q.second = TRUE
      BY <1>3 DEF Code, InBlock
    <3> QED
      BY <3>1 DEF Read
  <2> QED
    BY <2>1, <2>2 DEF Parts
<1>4. CASE q = InComment
  <2>1. Read(InComment, c, d, FALSE) \in {InBlock(0), InComment}
    BY ReadBlock
  <2>2. InComment.kind = "block" /\ InComment.second = FALSE /\ InComment.depth + 1 = 2
    BY DEF Code, InBlock, InComment
  <2>3. \/ Read(InComment, c, d, TRUE) = Read(InComment, c, d, FALSE)
        \/ Read(InComment, c, d, TRUE) = InBlock(2)
    <3>1. CASE c = "/" /\ d = "*"
      BY <2>2, <3>1 DEF Read
    <3>2. CASE ~(c = "/" /\ d = "*")
      BY <2>2, <3>2 DEF Read
    <3> QED
      BY <3>1, <3>2
  <2> QED
    BY <1>4, <2>1, <2>3 DEF Parts
<1>5. ASSUME NEW a \in Closers, q \in {InQuotes(a), Doubled(a)}
      PROVE  /\ Read(q, c, d, FALSE) \in Parts
             /\ Read(q, c, d, TRUE) = Read(q, c, d, FALSE)
  <2>1. Read(q, c, d, FALSE) \in {InQuotes(a), Doubled(a), Code}
    <3>1. CASE q = Doubled(a)
      BY <3>1, ReadQuoted
    <3>2. CASE q = InQuotes(a) /\ c # a
      BY <3>2, ReadQuoted
    <3>3. CASE q = InQuotes(a) /\ c = a
      <4>1. CASE d = a
        BY <3>3, <4>1, ReadQuoted
      <4>2. CASE d # a
        BY <3>3, <4>2, ReadQuoted
      <4> QED
        BY <4>1, <4>2
    <3> QED
      BY <1>5, <3>1, <3>2, <3>3
  <2>2. q.kind = "quoted" /\ q.second \in BOOLEAN
    BY <1>5 DEF InQuotes, Doubled, Code
  <2>3. Read(q, c, d, TRUE) = Read(q, c, d, FALSE)
    BY <2>2 DEF Read
  <2> QED
    BY <2>1, <2>3 DEF Parts
<1> QED
  BY <1>1, <1>2, <1>3, <1>4, <1>5 DEF Parts

\* So where none does, they are one.
LEMMA ReadingsAgree ==
    ASSUME sql \in Seq(Chars), NoNesting
    PROVE  \A i \in 1 .. Len(sql) : Reading(TRUE)[i] = Part(i)
<1> DEFINE S == {i \in Nat : Reading(TRUE)[i] = Part(i) /\ Part(i) \in Parts}
<1>1. Len(sql) \in Nat
  BY LenProperties
<1>2. CASE Len(sql) = 0
  BY <1>2
<1>3. CASE Len(sql) # 0
  <2>1. 1 \in S
    <3>1. 1 \in 1 .. Len(sql)
      BY <1>1, <1>3
    <3>2. Reading(TRUE)[1] = Code /\ Reading(FALSE)[1] = Code
      BY <3>1, ReadingSteps
    <3> QED
      BY <3>2 DEF Part, Parts
  <2>2. ASSUME NEW k \in 1 .. Len(sql) - 1, k \in S
        PROVE  k + 1 \in S
    <3>1. /\ k + 1 \in 1 .. Len(sql) /\ k + 1 # 1 /\ (k + 1) - 1 = k /\ k + 1 \in Nat
      BY <1>1
    <3>2. Reading(TRUE)[k] = Part(k) /\ Part(k) \in Parts
      BY <2>2
    <3>3. Part(k + 1) = Read(Part(k), sql[k], sql[k + 1], FALSE)
      BY NextPart
    <3>4. Reading(TRUE)[k + 1] = Read(Part(k), sql[k], sql[k + 1], TRUE)
      BY <3>1, <3>2, ReadingSteps
    <3>5. Reading(TRUE)[k + 1].depth <= 1
      BY <3>1 DEF NoNesting
    <3>6. Reading(TRUE)[k + 1] # InBlock(2)
      <4>1. InBlock(2).depth = 2
        BY DEF InBlock, Code
      <4>2. ASSUME Reading(TRUE)[k + 1] = InBlock(2) PROVE 2 <= 1
        BY <3>5, <4>1, <4>2
      <4>3. ~(2 <= 1)
        OBVIOUS
      <4> QED
        BY <4>2, <4>3
    <3>7. Part(k + 1) \in Parts /\ Reading(TRUE)[k + 1] = Part(k + 1)
      BY <3>2, <3>3, <3>4, <3>6, ReadBoth
    <3> QED
      BY <3>1, <3>7
  <2>3. 1 \in Int /\ Len(sql) \in Int
    BY <1>1
  <2> HIDE DEF S
  <2>4. \A k \in 1 .. Len(sql) - 1 : k \in S => k + 1 \in S
    BY <2>2
  <2>5. \A k \in 1 .. Len(sql) : k \in S
    BY <2>1, <2>3, <2>4, Reaches
  <2> QED
    BY <2>5 DEF S
<1> QED
  BY <1>2, <1>3

\* In a statement of any length, what is rewritten is what T-SQL takes for
\* markers, unless a comment opens within another (rewrite_param_markers).
THEOREM OnlyNestingDiffers == Spec => []ReadsAsTSQL
<1>1. IInv /\ RewritesTheMarkers => ReadsAsTSQL
  <2> SUFFICES ASSUME IInv, RewritesTheMarkers, NoNesting
               PROVE  output = Numbered(index - 1, TRUE)
    BY DEF ReadsAsTSQL
  <2>1. sql \in Seq(Chars) /\ index - 1 \in Int /\ \A i \in 1 .. index - 1 : i \in 1 .. Len(sql)
    BY LenProperties DEF IInv, TypeOK
  <2>2. \A i \in 1 .. index - 1 : Reading(TRUE)[i] = Reading(FALSE)[i]
    BY <2>1, ReadingsAgree DEF Part
  <2>3. {i \in 1 .. index - 1 : sql[i] = "?" /\ Reading(TRUE)[i].kind = "code"}
            = {i \in 1 .. index - 1 : sql[i] = "?" /\ Reading(FALSE)[i].kind = "code"}
    BY <2>2
  <2>4. Numbered(index - 1, TRUE) = Numbered(index - 1, FALSE)
    BY <2>3 DEF Numbered
  <2> QED
    BY <2>4 DEF RewritesTheMarkers
<1> QED
  BY <1>1, AlwaysScanned, MarkersAreRewritten, PTL
=============================================================================
