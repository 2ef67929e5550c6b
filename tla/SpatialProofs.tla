---------------------------- MODULE SpatialProofs ----------------------------
(***************************************************************************)
(* What SpatialCodec encodes it decodes again: any geometry, with any      *)
(* number of points, rings and parts, collections within collections       *)
(* included, and whatever else the tables hold.                            *)
(*                                                                         *)
(* The argument goes by tables that go on from one another.  What one      *)
(* geometry adds to sound tables is a run of points, figures and shapes;   *)
(* tables that follow keep the run and add no child to its shapes, so a    *)
(* reader of the run finds the same figures, rings and children in them    *)
(* as right after it was written.  A part of a geometry is a run within    *)
(* the run of the whole.                                                   *)
(***************************************************************************)
EXTENDS SpatialCodec, Extremes, SequenceTheorems

-----------------------------------------------------------------------------
(* The numbers of a set in ascending order. *)

\* Two ascending lists with the same members are the same list.
LEMMA AscentIsUnique ==
    ASSUME NEW m \in Nat, NEW n \in Nat, NEW s \in [1 .. m -> Nat], NEW t \in [1 .. n -> Nat],
           Ascends(s), Ascends(t),
           \A i \in 1 .. m : \E j \in 1 .. n : s[i] = t[j],
           \A j \in 1 .. n : \E i \in 1 .. m : t[j] = s[i]
    PROVE  s = t
<1> DEFINE Agree == {k \in Int : \A i \in 1 .. k : i <= m /\ i <= n => s[i] = t[i]}
<1>1. \A i, j \in 1 .. m : i < j => s[i] < s[j]
  BY DEF Ascends
<1>2. \A i, j \in 1 .. n : i < j => t[i] < t[j]
  BY DEF Ascends
<1>3. 0 \in Agree
  OBVIOUS
<1>4. ASSUME NEW k \in 0 .. m - 1, k \in Agree PROVE k + 1 \in Agree
  <2> SUFFICES ASSUME k + 1 <= n PROVE s[k + 1] = t[k + 1]
    <3>1. \A i \in 1 .. k : i <= m /\ i <= n => s[i] = t[i]
      BY <1>4
    <3>2. \A i \in 1 .. k + 1 : i \in 1 .. k \/ i = k + 1
      OBVIOUS
    <3>3. k + 1 \in Int /\ k + 1 <= m
      OBVIOUS
    <3>4. \A i \in 1 .. k + 1 : i <= m /\ i <= n => s[i] = t[i]
      <4> TAKE i \in 1 .. k + 1
      <4>1. CASE i \in 1 .. k
        BY <3>1, <4>1
      <4>2. CASE i = k + 1
        BY <3>3, <4>2
      <4> QED
        BY <3>2, <4>1, <4>2
    <3> QED
      BY <3>3, <3>4
  <2>1. k + 1 \in 1 .. m /\ k + 1 \in 1 .. n
    OBVIOUS
  <2>2. \A i \in 1 .. k : i \in 1 .. m /\ i \in 1 .. n /\ s[i] = t[i]
    BY <1>4
  <2>3. PICK j \in 1 .. n : s[k + 1] = t[j]
    BY <2>1
  <2>4. PICK i \in 1 .. m : t[k + 1] = s[i]
    BY <2>1
  <2>5. ~(j < k + 1)
    <3> SUFFICES ASSUME j < k + 1 PROVE FALSE
      OBVIOUS
    <3>1. s[j] = t[j] /\ j \in 1 .. m
      BY <2>2
    <3>2. s[j] < s[k + 1]
      BY <1>1, <2>1, <3>1
    <3> QED
      BY <2>1, <2>3, <3>1, <3>2
  <2>6. ~(i < k + 1)
    <3> SUFFICES ASSUME i < k + 1 PROVE FALSE
      OBVIOUS
    <3>1. s[i] = t[i] /\ i \in 1 .. n
      BY <2>2
    <3>2. t[i] < t[k + 1]
      BY <1>2, <2>1, <3>1
    <3> QED
      BY <2>1, <2>4, <3>1, <3>2
  <2>7. t[k + 1] <= t[j] /\ s[k + 1] <= s[i]
    <3>1. j = k + 1 \/ k + 1 < j
      BY <2>5
    <3>2. i = k + 1 \/ k + 1 < i
      BY <2>6
    <3>3. t[k + 1] \in Nat /\ t[j] \in Nat /\ s[k + 1] \in Nat /\ s[i] \in Nat
      BY <2>1
    <3>4. t[k + 1] <= t[j]
      BY ONLY <1>2, <2>1, <3>1, <3>3
    <3>5. s[k + 1] <= s[i]
      BY ONLY <1>1, <2>1, <3>2, <3>3
    <3> QED
      BY <3>4, <3>5
  <2> QED
    BY <2>1, <2>3, <2>4, <2>7
<1>5. \A k \in 0 .. m : k \in Agree
  <2>1. 0 \in Int /\ m \in Int
    OBVIOUS
  <2> HIDE DEF Agree
  <2> QED
    BY <1>3, <1>4, <2>1, Reaches
<1>6. \A i \in 1 .. m : i <= n => s[i] = t[i]
  <2>1. m \in Agree
    BY <1>5, m \in 0 .. m
  <2> QED
    BY <2>1
<1>7. ~(m < n)
  <2> SUFFICES ASSUME m < n PROVE FALSE
    OBVIOUS
  <2>1. m + 1 \in 1 .. n
    OBVIOUS
  <2>2. PICK i \in 1 .. m : t[m + 1] = s[i]
    BY <2>1
  <2>3. i \in 1 .. n /\ s[i] = t[i] /\ i < m + 1
    BY <1>6
  <2> QED
    BY <1>2, <2>1, <2>2, <2>3
<1>8. ~(n < m)
  <2> SUFFICES ASSUME n < m PROVE FALSE
    OBVIOUS
  <2>1. n + 1 \in 1 .. m
    OBVIOUS
  <2>2. PICK j \in 1 .. n : s[n + 1] = t[j]
    BY <2>1
  <2>3. j \in 1 .. m /\ s[j] = t[j] /\ j < n + 1
    BY <1>6
  <2> QED
    BY <1>1, <2>1, <2>2, <2>3
<1>9. m = n
  BY <1>7, <1>8
<1> QED
  BY <1>6, <1>9

\* An ascending list is the order of its members.
LEMMA InOrderIs ==
    ASSUME NEW n \in Nat, NEW c \in [1 .. n -> Nat], Ascends(c), NEW S,
           \A x : x \in S <=> \E i \in 1 .. n : x = c[i]
    PROVE  InOrder(S) = c
<1>1. \A i, j \in 1 .. n : i < j => c[i] < c[j]
  BY DEF Ascends
<1>2. \A i, j \in 1 .. n : i # j => c[i] # c[j]
  BY <1>1
<1>3. c \in [1 .. n -> S]
  OBVIOUS
<1>4. c \in Bijection(1 .. n, S)
  BY <1>2, <1>3 DEF Bijection, Injection, Surjection, IsInjective
<1>5. IsFiniteSet(1 .. n) /\ Cardinality(1 .. n) = n
  <2>1. Cardinality(1 .. n) = IF 1 > n THEN 0 ELSE n - 1 + 1
    BY FS_Interval
  <2> QED
    BY <2>1, FS_Interval
<1>6. IsFiniteSet(S) /\ Cardinality(S) = n
  <2>1. ExistsBijection(1 .. n, S)
    BY <1>4 DEF ExistsBijection
  <2> QED
    BY <1>5, <2>1, FS_Bijection
<1>7. c \in SetToSeqs(S)
  BY <1>2, <1>3, <1>6 DEF SetToSeqs
<1>8. ASSUME NEW s \in SetToSeqs(S), \A j, k \in DOMAIN s : j < k => s[j] < s[k]
      PROVE  s = c
  <2>1. s \in [1 .. n -> S] /\ \A i, j \in 1 .. n : i # j => s[i] # s[j]
    BY <1>6 DEF SetToSeqs
  <2>2. s \in Injection(1 .. n, S)
    BY <2>1 DEF Injection, IsInjective
  <2>3. s \in Surjection(1 .. n, S)
    BY <1>5, <1>6, <2>2, FS_Injection
  <2>4. \A x \in S : \E i \in 1 .. n : s[i] = x
    BY <2>3 DEF Surjection
  <2>5. s \in [1 .. n -> Nat]
    BY <1>3, <2>1
  <2>6. Ascends(s)
    BY <1>8 DEF Ascends
  <2>7. \A i \in 1 .. n : \E j \in 1 .. n : s[i] = c[j]
    BY <2>1
  <2>8. \A j \in 1 .. n : \E i \in 1 .. n : c[j] = s[i]
    BY <1>3, <2>4
  <2> QED
    BY <2>5, <2>6, <2>7, <2>8, AscentIsUnique
<1>9. \A j, k \in DOMAIN c : j < k => c[j] < c[k]
  BY DEF Ascends
<1> QED
  BY <1>7, <1>8, <1>9 DEF InOrder

\* The order of a set of numbers up to n lists it.
LEMMA InOrderLists ==
    ASSUME NEW n \in Nat, NEW S \in SUBSET (1 .. n)
    PROVE  InOrder(S) \in [1 .. Cardinality(S) -> S] /\ Cardinality(S) \in Nat
<1>1. PICK s \in SetToSeqs(S) : Ascends(s)
  BY CanBeListed
<1>2. InOrder(S) \in SetToSeqs(S)
  BY <1>1 DEF InOrder, Ascends
<1>3. Cardinality(S) \in Nat
  BY UpToIsFinite
<1> QED
  BY <1>2, <1>3 DEF SetToSeqs

-----------------------------------------------------------------------------
(* The levels of nesting. *)

\* The levels of nesting, as they are defined.
LEMMA LevelsAre ==
    \A n \in 0 .. MaxNesting :
        NestedUpTo[n] = IF n = 0 THEN Simple
                        ELSE NestedUpTo[n - 1] \cup ({"collection"} \X Seq(NestedUpTo[n - 1]))
<1> DEFINE Level(f, n) == IF n = 0 THEN Simple
                          ELSE f[n - 1] \cup ({"collection"} \X Seq(f[n - 1]))
           S == {m \in Nat : \E f : f = [n \in 0 .. m |-> Level(f, n)]}
<1>1. MaxNesting \in Nat
  BY NestingAssumption
<1>2. 0 \in S
  <2> DEFINE f == [n \in 0 .. 0 |-> Simple]
  <2>1. f = [n \in 0 .. 0 |-> Level(f, n)]
    OBVIOUS
  <2> QED
    BY <2>1
<1>3. ASSUME NEW m \in 0 .. MaxNesting - 1, m \in S PROVE m + 1 \in S
  <2>1. PICK f : f = [n \in 0 .. m |-> Level(f, n)]
    BY <1>3
  <2> DEFINE g == [n \in 0 .. m + 1 |-> IF n <= m THEN f[n] ELSE Level(f, n)]
  <2>2. ASSUME NEW n \in 0 .. m + 1 PROVE g[n] = Level(g, n)
    <3>1. n # 0 => g[n - 1] = f[n - 1]
      OBVIOUS
    <3>2. Level(g, n) = Level(f, n)
      BY <3>1
    <3>3. n <= m => f[n] = Level(f, n)
      <4> HIDE DEF Level
      <4> QED
        BY <2>1
    <3> QED
      BY <3>2, <3>3
  <2>3. g = [n \in 0 .. m + 1 |-> Level(g, n)]
    <3> HIDE DEF Level
    <3> QED
      BY <2>2
  <2> HIDE DEF g
  <2> QED
    BY <2>3
<1>4. MaxNesting \in S
  <2>1. 0 \in Int /\ MaxNesting \in Int /\ MaxNesting \in 0 .. MaxNesting
    BY <1>1
  <2> HIDE DEF S
  <2>2. \A m \in 0 .. MaxNesting - 1 : m \in S => m + 1 \in S
    BY <1>3
  <2>3. \A m \in 0 .. MaxNesting : m \in S
    BY <1>2, <2>1, <2>2, Reaches
  <2> QED
    BY <2>1, <2>3
<1>5. NestedUpTo = CHOOSE f : f = [n \in 0 .. MaxNesting |-> Level(f, n)]
  BY DEF NestedUpTo
<1>6. NestedUpTo = [n \in 0 .. MaxNesting |-> Level(NestedUpTo, n)]
  BY <1>4, <1>5
<1> HIDE DEF Level
<1>7. \A n \in 0 .. MaxNesting : NestedUpTo[n] = Level(NestedUpTo, n)
  BY <1>6
<1> QED
  BY <1>7 DEF Level

LEMMA LevelAbove ==
    /\ NestedUpTo[0] = Simple
    /\ \A n \in 0 .. MaxNesting - 1 :
           NestedUpTo[n + 1] = NestedUpTo[n] \cup ({"collection"} \X Seq(NestedUpTo[n]))
<1>1. NestedUpTo[0] = Simple
  BY LevelsAre, NestingAssumption, 0 \in 0 .. MaxNesting
<1>2. ASSUME NEW n \in 0 .. MaxNesting - 1
      PROVE  NestedUpTo[n + 1] = NestedUpTo[n] \cup ({"collection"} \X Seq(NestedUpTo[n]))
  <2>1. n + 1 \in 0 .. MaxNesting /\ n + 1 # 0 /\ (n + 1) - 1 = n
    BY NestingAssumption
  <2> DEFINE m == n + 1
  <2>2. m \in 0 .. MaxNesting /\ m # 0 /\ m - 1 = n
    BY <2>1
  <2> HIDE DEF m
  <2>3. NestedUpTo[m] = NestedUpTo[m - 1] \cup ({"collection"} \X Seq(NestedUpTo[m - 1]))
    BY <2>2, LevelsAre
  <2> QED
    BY <2>2, <2>3 DEF m
<1> QED
  BY <1>1, <1>2

\* A geometry is simple or a collection of those one level below.
LEMMA LevelHas ==
    \A n \in 0 .. MaxNesting : \A g \in NestedUpTo[n] :
        \/ g \in Simple
        \/ \E parts : /\ n > 0
                      /\ g = <<"collection", parts>>
                      /\ parts \in Seq(NestedUpTo[n - 1])
<1> DEFINE Has(g, n) == \/ g \in Simple
                        \/ \E parts : /\ n > 0
                                      /\ g = <<"collection", parts>>
                                      /\ parts \in Seq(NestedUpTo[n - 1])
           S == {n \in Nat : \A g \in NestedUpTo[n] : Has(g, n)}
<1>1. MaxNesting \in Nat
  BY NestingAssumption
<1>2. 0 \in S
  BY <1>1, LevelsAre, 0 \in 0 .. MaxNesting
<1>3. ASSUME NEW n \in 0 .. MaxNesting - 1, n \in S PROVE n + 1 \in S
  <2>1. n + 1 \in 0 .. MaxNesting /\ n + 1 # 0 /\ n + 1 - 1 = n /\ n \in 0 .. MaxNesting
    BY <1>1
  <2>2. NestedUpTo[n + 1] = NestedUpTo[n] \cup ({"collection"} \X Seq(NestedUpTo[n]))
    BY LevelAbove
  <2>3. ASSUME NEW g \in NestedUpTo[n + 1] PROVE Has(g, n + 1)
    <3>1. CASE g \in NestedUpTo[n]
      <4>1. CASE g \in Simple
        BY <4>1
      <4>2. CASE g \notin Simple
        <5>1. PICK parts : n > 0 /\ g = <<"collection", parts>> /\ parts \in Seq(NestedUpTo[n - 1])
          BY <1>3, <3>1, <4>2
        <5>2. NestedUpTo[n - 1] \subseteq NestedUpTo[n]
          <6>1. n - 1 \in 0 .. MaxNesting - 1 /\ (n - 1) + 1 = n
            BY <1>1, <5>1
          <6>2. NestedUpTo[n - 1] \subseteq NestedUpTo[(n - 1) + 1]
            BY <6>1, LevelAbove
          <6> QED
            BY <6>1, <6>2
        <5>3. parts \in Seq(NestedUpTo[n])
          BY <5>1, <5>2, SeqMonotonic
        <5> QED
          BY <2>1, <5>1, <5>3
      <4> QED
        BY <4>1, <4>2
    <3>2. CASE g \in {"collection"} \X Seq(NestedUpTo[n])
      <4>1. PICK parts \in Seq(NestedUpTo[n]) : g = <<"collection", parts>>
        BY <3>2
      <4> QED
        BY <2>1, <4>1
    <3> QED
      BY <2>2, <3>1, <3>2
  <2> HIDE DEF Has
  <2> QED
    BY <2>3
<1> HIDE DEF Has
<1>4. 0 \in Int /\ MaxNesting \in Int
  BY <1>1
<1>5. \A n \in 0 .. MaxNesting : n \in S
  <2> HIDE DEF S
  <2> QED
    BY <1>2, <1>3, <1>4, Reaches
<1> QED
  BY <1>5 DEF Has

\* What holds of simple geometries, and of a collection if it holds of its parts,
\* holds of all.
LEMMA GeometryInduction ==
    ASSUME NEW P, Simple \subseteq P,
           \A n \in 0 .. MaxNesting - 1 :
               NestedUpTo[n] \subseteq P =>
                   \A parts \in Seq(NestedUpTo[n]) : <<"collection", parts>> \in P
    PROVE  \A n \in 0 .. MaxNesting : NestedUpTo[n] \subseteq P
<1> DEFINE S == {n \in Nat : NestedUpTo[n] \subseteq P}
<1>1. MaxNesting \in Nat
  BY NestingAssumption
<1>2. 0 \in S
  BY <1>1, LevelsAre, 0 \in 0 .. MaxNesting
<1>3. ASSUME NEW n \in 0 .. MaxNesting - 1, n \in S PROVE n + 1 \in S
  <2>1. n + 1 \in 0 .. MaxNesting /\ n + 1 \in Nat /\ n + 1 # 0 /\ n + 1 - 1 = n
    BY <1>1
  <2>2. NestedUpTo[n + 1] = NestedUpTo[n] \cup ({"collection"} \X Seq(NestedUpTo[n]))
    BY LevelAbove
  <2>3. \A parts \in Seq(NestedUpTo[n]) : <<"collection", parts>> \in P
    BY <1>3
  <2>4. ASSUME NEW g \in {"collection"} \X Seq(NestedUpTo[n]) PROVE g \in P
    <3>1. PICK parts \in Seq(NestedUpTo[n]) : g = <<"collection", parts>>
      OBVIOUS
    <3> QED
      BY <2>3, <3>1
  <2> QED
    BY <1>3, <2>1, <2>2, <2>4
<1>4. 0 \in Int /\ MaxNesting \in Int
  BY <1>1
<1>5. \A n \in 0 .. MaxNesting : n \in S
  <2> HIDE DEF S
  <2> QED
    BY <1>2, <1>3, <1>4, Reaches
<1> QED
  BY <1>5

\* The levels include one another.
LEMMA LevelsAscend ==
    \A n \in 0 .. MaxNesting : NestedUpTo[n] \subseteq Geometries
<1> DEFINE S == {n \in Int : MaxNesting - n \in 0 .. MaxNesting =>
                                 NestedUpTo[MaxNesting - n] \subseteq Geometries}
<1>1. MaxNesting \in Nat
  BY NestingAssumption
<1>2. 0 \in S
  BY <1>1 DEF Geometries
<1>3. ASSUME NEW n \in 0 .. MaxNesting - 1, n \in S PROVE n + 1 \in S
  <2>1. MaxNesting - n \in 0 .. MaxNesting /\ MaxNesting - n # 0
    BY <1>1
  <2>2. (MaxNesting - n) - 1 = MaxNesting - (n + 1) /\ n + 1 \in Int
    BY <1>1
  <2>3. NestedUpTo[(MaxNesting - n) - 1] \subseteq NestedUpTo[MaxNesting - n]
    BY <2>1, LevelsAre
  <2>4. NestedUpTo[MaxNesting - n] \subseteq Geometries
    BY <1>3, <2>1
  <2> QED
    BY <2>2, <2>3, <2>4
<1>4. 0 \in Int /\ MaxNesting \in Int
  BY <1>1
<1>5. \A n \in 0 .. MaxNesting : n \in S
  <2> HIDE DEF S
  <2> QED
    BY <1>2, <1>3, <1>4, Reaches
<1> TAKE n \in 0 .. MaxNesting
<1>6. MaxNesting - n \in 0 .. MaxNesting /\ MaxNesting - (MaxNesting - n) = n
  BY <1>1
<1> QED
  BY <1>5, <1>6

\* The simple geometries, kind by kind.
LEMMA SimpleKinds ==
    ASSUME NEW g \in Simple
    PROVE  \/ \E x \in Nat : g = <<"point", x>>
           \/ \E a, b \in Nat : g = <<"line", <<a, b>>>>
           \/ \E points \in Seq(Nat) : g = <<"linestring", points>>
           \/ \E polygon \in PolygonType : g = <<"polygon", polygon>>
           \/ \E points \in Seq(Nat) : g = <<"multipoint", points>>
           \/ \E lines \in Seq(Seq(Nat)) : g = <<"multilinestring", lines>>
           \/ \E polygons \in Seq(PolygonType) : g = <<"multipolygon", polygons>>
<1>1. CASE g \in {"point"} \X Nat
  BY <1>1
<1>2. CASE g \in {"line"} \X (Nat \X Nat)
  <2>1. PICK ab \in Nat \X Nat : g = <<"line", ab>>
    BY <1>2
  <2>2. PICK a \in Nat, b \in Nat : ab = <<a, b>>
    OBVIOUS
  <2> QED
    BY <2>1, <2>2
<1>3. CASE g \in {"linestring"} \X Seq(Nat)
  BY <1>3
<1>4. CASE g \in {"polygon"} \X PolygonType
  BY <1>4
<1>5. CASE g \in {"multipoint"} \X Seq(Nat)
  BY <1>5
<1>6. CASE g \in {"multilinestring"} \X Seq(Seq(Nat))
  BY <1>6
<1>7. CASE g \in {"multipolygon"} \X Seq(PolygonType)
  BY <1>7
<1> QED
  BY <1>1, <1>2, <1>3, <1>4, <1>5, <1>6, <1>7 DEF Simple

-----------------------------------------------------------------------------
(* Tables as the encoder makes them, and tables that go on from them. *)

FigureType == [attribute : Attributes, point_offset : Nat]
ShapeType == [parent : Int, figure_offset : Int, type : ShapeTypes]

\* Tables as the encoder makes them: the figures share out the points in their
\* order, and a shape follows its parent.
Sound(tables) ==
    /\ tables \in Tables
    /\ \A i \in 1 .. Len(tables.figures) :
           tables.figures[i].point_offset < Len(tables.points)
    /\ \A i, j \in 1 .. Len(tables.figures) :
           i < j => tables.figures[i].point_offset < tables.figures[j].point_offset
    /\ \A k \in 1 .. Len(tables.shapes) : tables.shapes[k].parent < k - 1

\* What is in tables t is in tables u too, which go on where t ends.
Extends(t, u) ==
    /\ t \in Tables /\ u \in Tables
    /\ Len(t.points) <= Len(u.points)
    /\ \A i \in 1 .. Len(t.points) : u.points[i] = t.points[i]
    /\ Len(t.figures) <= Len(u.figures)
    /\ \A i \in 1 .. Len(t.figures) : u.figures[i] = t.figures[i]
    /\ Len(t.shapes) <= Len(u.shapes)
    /\ \A i \in 1 .. Len(t.shapes) : u.shapes[i] = t.shapes[i]
    /\ IF Len(t.figures) = Len(u.figures) THEN Len(u.points) = Len(t.points)
       ELSE u.figures[Len(t.figures) + 1].point_offset = Len(t.points)

\* The interior rings among the figures u adds to t follow an exterior one there.
Led(t, u) ==
    \A i \in Len(t.figures) + 1 .. Len(u.figures) :
        u.figures[i].attribute = "interior" =>
            \E j \in Len(t.figures) + 1 .. i : u.figures[j].attribute = "exterior"

LEMMA TablesHave ==
    ASSUME NEW t \in Tables
    PROVE  /\ t.points \in Seq(Nat) /\ t.figures \in Seq(FigureType) /\ t.shapes \in Seq(ShapeType)
           /\ Len(t.points) \in Nat /\ Len(t.figures) \in Nat /\ Len(t.shapes) \in Nat
           /\ \A i \in 1 .. Len(t.figures) :
                  t.figures[i].point_offset \in Nat /\ t.figures[i] \in FigureType
           /\ \A i \in 1 .. Len(t.shapes) : /\ t.shapes[i].parent \in Int
                                            /\ t.shapes[i].figure_offset \in Int
                                            /\ t.shapes[i] \in ShapeType
<1>1. t.points \in Seq(Nat) /\ t.figures \in Seq(FigureType) /\ t.shapes \in Seq(ShapeType)
  BY DEF Tables, FigureType, ShapeType
<1>2. Len(t.points) \in Nat /\ Len(t.figures) \in Nat /\ Len(t.shapes) \in Nat
  BY <1>1, LenProperties
<1>3. \A i \in 1 .. Len(t.figures) : t.figures[i] \in FigureType
  BY <1>1, ElementOfSeq
<1>4. \A i \in 1 .. Len(t.shapes) : t.shapes[i] \in ShapeType
  BY <1>1, ElementOfSeq
<1> QED
  BY <1>1, <1>2, <1>3, <1>4 DEF FigureType, ShapeType

LEMMA ExtendsSelf ==
    ASSUME NEW t \in Tables
    PROVE  Extends(t, t) /\ Led(t, t)
BY TablesHave DEF Extends, Led

LEMMA ExtendsTwice ==
    ASSUME NEW t, NEW u, NEW w, Extends(t, u), Extends(u, w)
    PROVE  Extends(t, w)
<1>1. t \in Tables /\ u \in Tables /\ w \in Tables
  BY DEF Extends
<1>2. /\ Len(t.points) \in Nat /\ Len(t.figures) \in Nat /\ Len(t.shapes) \in Nat
      /\ Len(u.points) \in Nat /\ Len(u.figures) \in Nat /\ Len(u.shapes) \in Nat
      /\ Len(w.points) \in Nat /\ Len(w.figures) \in Nat /\ Len(w.shapes) \in Nat
  BY <1>1, TablesHave
<1>3. /\ Len(t.points) <= Len(w.points)
      /\ \A i \in 1 .. Len(t.points) : w.points[i] = t.points[i]
  BY <1>2 DEF Extends
<1>4. /\ Len(t.figures) <= Len(w.figures)
      /\ \A i \in 1 .. Len(t.figures) : w.figures[i] = t.figures[i]
  BY <1>2 DEF Extends
<1>5. /\ Len(t.shapes) <= Len(w.shapes)
      /\ \A i \in 1 .. Len(t.shapes) : w.shapes[i] = t.shapes[i]
  BY <1>2 DEF Extends
<1>6. IF Len(t.figures) = Len(w.figures) THEN Len(w.points) = Len(t.points)
      ELSE w.figures[Len(t.figures) + 1].point_offset = Len(t.points)
  <2>1. CASE Len(t.figures) = Len(u.figures)
    BY <1>2, <2>1 DEF Extends
  <2>2. CASE Len(t.figures) # Len(u.figures)
    <3>1. Len(t.figures) + 1 \in 1 .. Len(u.figures) /\ Len(t.figures) # Len(w.figures)
      BY <1>2, <2>2 DEF Extends
    <3>2. w.figures[Len(t.figures) + 1] = u.figures[Len(t.figures) + 1]
      BY <3>1 DEF Extends
    <3> QED
      BY <2>2, <3>1, <3>2 DEF Extends
  <2> QED
    BY <2>1, <2>2
<1> QED
  BY <1>1, <1>3, <1>4, <1>5, <1>6 DEF Extends

LEMMA LedTwice ==
    ASSUME NEW t, NEW u, NEW w, Extends(t, u), Extends(u, w), Led(t, u), Led(u, w)
    PROVE  Led(t, w)
<1>1. t \in Tables /\ u \in Tables /\ w \in Tables
  BY DEF Extends
<1>2. Len(t.figures) \in Nat /\ Len(u.figures) \in Nat /\ Len(w.figures) \in Nat
  BY <1>1, TablesHave
<1>3. /\ Len(t.figures) <= Len(u.figures)
      /\ \A i \in 1 .. Len(u.figures) : w.figures[i] = u.figures[i]
  BY DEF Extends
<1> SUFFICES ASSUME NEW i \in Len(t.figures) + 1 .. Len(w.figures),
                    w.figures[i].attribute = "interior"
             PROVE  \E j \in Len(t.figures) + 1 .. i : w.figures[j].attribute = "exterior"
  BY DEF Led
<1>4. CASE i <= Len(u.figures)
  <2>1. i \in Len(t.figures) + 1 .. Len(u.figures) /\ i \in 1 .. Len(u.figures)
    BY <1>2, <1>4
  <2>2. PICK j \in Len(t.figures) + 1 .. i : u.figures[j].attribute = "exterior"
    BY <1>3, <2>1 DEF Led
  <2>3. j \in 1 .. Len(u.figures)
    BY <1>2, <2>1
  <2> QED
    BY <1>3, <2>2, <2>3
<1>5. CASE i > Len(u.figures)
  <2>1. i \in Len(u.figures) + 1 .. Len(w.figures)
    BY <1>2, <1>5
  <2>2. PICK j \in Len(u.figures) + 1 .. i : w.figures[j].attribute = "exterior"
    BY <2>1 DEF Led
  <2>3. j \in Len(t.figures) + 1 .. i
    BY <1>2, <1>3
  <2> QED
    BY <2>2, <2>3
<1> QED
  BY <1>2, <1>4, <1>5

-----------------------------------------------------------------------------
(* Pushing. *)

LEMMA PushesFigure ==
    ASSUME NEW t \in Tables, NEW attribute \in Attributes, NEW points \in Seq(Nat)
    PROVE  LET u == PushFigure(t, attribute, points)
           IN  /\ u \in Tables
               /\ u.points = t.points \o points
               /\ Len(u.points) = Len(t.points) + Len(points)
               /\ \A i \in 1 .. Len(t.points) : u.points[i] = t.points[i]
               /\ \A i \in 1 .. Len(points) : u.points[Len(t.points) + i] = points[i]
               /\ Len(u.figures) = Len(t.figures) + 1
               /\ \A i \in 1 .. Len(t.figures) : u.figures[i] = t.figures[i]
               /\ u.figures[Len(t.figures) + 1]
                      = [attribute |-> attribute, point_offset |-> Len(t.points)]
               /\ u.shapes = t.shapes
               /\ Extends(t, u)
<1> DEFINE f == [attribute |-> attribute, point_offset |-> Len(t.points)]
           u == PushFigure(t, attribute, points)
<1>1. /\ t.points \in Seq(Nat) /\ t.figures \in Seq(FigureType) /\ t.shapes \in Seq(ShapeType)
      /\ Len(t.points) \in Nat /\ Len(t.figures) \in Nat /\ Len(t.shapes) \in Nat
      /\ Len(points) \in Nat
  BY TablesHave, LenProperties
<1>2. f \in FigureType
  BY <1>1 DEF FigureType
<1>4. /\ u.points = t.points \o points
      /\ u.figures = Append(t.figures, f)
      /\ u.shapes = t.shapes
      /\ u = [points |-> u.points, figures |-> u.figures, shapes |-> u.shapes]
  BY DEF PushFigure
<1>5. /\ t.points \o points \in Seq(Nat)
      /\ Len(t.points \o points) = Len(t.points) + Len(points)
      /\ \A i \in 1 .. Len(t.points) + Len(points) :
             (t.points \o points)[i] = IF i <= Len(t.points) THEN t.points[i]
                                       ELSE points[i - Len(t.points)]
  BY <1>1, ConcatProperties
<1>6. /\ Append(t.figures, f) \in Seq(FigureType)
      /\ Len(Append(t.figures, f)) = Len(t.figures) + 1
      /\ \A i \in 1 .. Len(t.figures) : Append(t.figures, f)[i] = t.figures[i]
      /\ Append(t.figures, f)[Len(t.figures) + 1] = f
  BY <1>1, <1>2, AppendProperties
<1>7. u \in Tables
  <2> HIDE DEF u, f
  <2>1. /\ u.points \in Seq(Nat) /\ u.figures \in Seq(FigureType) /\ u.shapes \in Seq(ShapeType)
    BY <1>1, <1>4, <1>5, <1>6
  <2> QED
    BY <1>4, <2>1 DEF Tables, FigureType, ShapeType
<1>8. \A i \in 1 .. Len(t.points) : u.points[i] = t.points[i]
  BY <1>1, <1>4, <1>5
<1>9. \A i \in 1 .. Len(points) : u.points[Len(t.points) + i] = points[i]
  <2> TAKE i \in 1 .. Len(points)
  <2>1. /\ Len(t.points) + i \in 1 .. Len(t.points) + Len(points)
        /\ ~(Len(t.points) + i <= Len(t.points))
        /\ (Len(t.points) + i) - Len(t.points) = i
    BY <1>1
  <2> QED
    BY <1>4, <1>5, <2>1
<1> HIDE DEF u
<1>10. f.point_offset = Len(t.points)
  OBVIOUS
<1> HIDE DEF f
<1>11. Extends(t, u)
  BY <1>1, <1>4, <1>5, <1>6, <1>7, <1>8, <1>10 DEF Extends
<1> QED
  BY <1>4, <1>5, <1>6, <1>7, <1>8, <1>9, <1>11 DEF u, f

LEMMA PushesShape ==
    ASSUME NEW t \in Tables, NEW parent \in Int, NEW offset \in Int, NEW type \in ShapeTypes
    PROVE  LET u == PushShape(t, parent, offset, type)
           IN  /\ u \in Tables
               /\ u.points = t.points
               /\ u.figures = t.figures
               /\ Len(u.shapes) = Len(t.shapes) + 1
               /\ \A i \in 1 .. Len(t.shapes) : u.shapes[i] = t.shapes[i]
               /\ u.shapes[Len(t.shapes) + 1]
                      = [parent |-> parent, figure_offset |-> offset, type |-> type]
               /\ Extends(t, u)
               /\ Led(t, u)
<1> DEFINE s == [parent |-> parent, figure_offset |-> offset, type |-> type]
           u == PushShape(t, parent, offset, type)
<1>1. /\ t.points \in Seq(Nat) /\ t.figures \in Seq(FigureType) /\ t.shapes \in Seq(ShapeType)
      /\ Len(t.points) \in Nat /\ Len(t.figures) \in Nat /\ Len(t.shapes) \in Nat
  BY TablesHave
<1>2. s \in ShapeType
  BY DEF ShapeType
<1>4. /\ u.points = t.points /\ u.figures = t.figures /\ u.shapes = Append(t.shapes, s)
      /\ u = [points |-> u.points, figures |-> u.figures, shapes |-> u.shapes]
  BY DEF PushShape
<1>5. /\ Append(t.shapes, s) \in Seq(ShapeType)
      /\ Len(Append(t.shapes, s)) = Len(t.shapes) + 1
      /\ \A i \in 1 .. Len(t.shapes) : Append(t.shapes, s)[i] = t.shapes[i]
      /\ Append(t.shapes, s)[Len(t.shapes) + 1] = s
  BY <1>1, <1>2, AppendProperties
<1>6. u \in Tables
  <2> HIDE DEF u, s
  <2>1. /\ u.points \in Seq(Nat) /\ u.figures \in Seq(FigureType) /\ u.shapes \in Seq(ShapeType)
    BY <1>1, <1>4, <1>5
  <2> QED
    BY <1>4, <2>1 DEF Tables, FigureType, ShapeType
<1> HIDE DEF u, s
<1>7. Extends(t, u)
  BY <1>1, <1>4, <1>5, <1>6 DEF Extends
<1>8. Led(t, u)
  BY <1>1, <1>4 DEF Led
<1> QED
  BY <1>4, <1>5, <1>6, <1>7, <1>8 DEF u, s

\* They leave tables sound.
LEMMA FigureKeepsSound ==
    ASSUME NEW t, Sound(t), NEW attribute \in Attributes, NEW points \in Seq(Nat), points # <<>>
    PROVE  Sound(PushFigure(t, attribute, points))
<1> DEFINE u == PushFigure(t, attribute, points)
<1>0. t \in Tables
  BY DEF Sound
<1>1. /\ u \in Tables
      /\ Len(u.points) = Len(t.points) + Len(points)
      /\ Len(u.figures) = Len(t.figures) + 1
      /\ \A i \in 1 .. Len(t.figures) : u.figures[i] = t.figures[i]
      /\ u.figures[Len(t.figures) + 1].point_offset = Len(t.points)
      /\ u.shapes = t.shapes
  <2> HIDE DEF u
  <2>1. /\ u \in Tables
        /\ Len(u.points) = Len(t.points) + Len(points)
        /\ Len(u.figures) = Len(t.figures) + 1
        /\ \A i \in 1 .. Len(t.figures) : u.figures[i] = t.figures[i]
        /\ u.figures[Len(t.figures) + 1]
               = [attribute |-> attribute, point_offset |-> Len(t.points)]
        /\ u.shapes = t.shapes
    BY <1>0, PushesFigure DEF u
  <2> QED
    BY <2>1
<1>2. Len(points) \in Nat \ {0}
  BY EmptySeq
<1>3. /\ Len(t.points) \in Nat /\ Len(t.figures) \in Nat
      /\ \A i \in 1 .. Len(t.figures) : t.figures[i].point_offset \in Nat
  BY <1>0, TablesHave
<1> HIDE DEF u
<1>4. \A i \in 1 .. Len(u.figures) : i \in 1 .. Len(t.figures) \/ i = Len(t.figures) + 1
  BY <1>1, <1>3
<1>5. \A i \in 1 .. Len(u.figures) : u.figures[i].point_offset < Len(u.points)
  <2> TAKE i \in 1 .. Len(u.figures)
  <2>1. CASE i \in 1 .. Len(t.figures)
    <3>1. t.figures[i].point_offset < Len(t.points)
      BY <2>1 DEF Sound
    <3>2. u.figures[i] = t.figures[i] /\ t.figures[i].point_offset \in Nat
      BY <1>1, <1>3, <2>1
    <3>3. Len(t.points) < Len(u.points) /\ Len(u.points) \in Nat
      BY <1>1, <1>2, <1>3
    <3> QED
      BY ONLY <1>3, <3>1, <3>2, <3>3
  <2>2. CASE i = Len(t.figures) + 1
    BY <1>1, <1>2, <1>3, <2>2
  <2> QED
    BY <1>4, <2>1, <2>2
<1>6. \A i, j \in 1 .. Len(u.figures) :
          i < j => u.figures[i].point_offset < u.figures[j].point_offset
  <2> SUFFICES ASSUME NEW i \in 1 .. Len(u.figures), NEW j \in 1 .. Len(u.figures), i < j
               PROVE  u.figures[i].point_offset < u.figures[j].point_offset
    OBVIOUS
  <2>1. i \in 1 .. Len(t.figures)
    BY <1>1, <1>3
  <2>2. CASE j \in 1 .. Len(t.figures)
    <3>1. t.figures[i].point_offset < t.figures[j].point_offset
      BY <2>1, <2>2 DEF Sound
    <3> QED
      BY <1>1, <2>1, <2>2, <3>1
  <2>3. CASE j = Len(t.figures) + 1
    <3>1. t.figures[i].point_offset < Len(t.points)
      BY <2>1 DEF Sound
    <3> QED
      BY <1>1, <2>1, <2>3, <3>1
  <2> QED
    BY <1>4, <2>2, <2>3
<1> QED
  BY <1>1, <1>5, <1>6 DEF Sound, u

LEMMA ShapeKeepsSound ==
    ASSUME NEW t, Sound(t), NEW parent \in Int, parent < Len(t.shapes), NEW offset \in Int,
           NEW type \in ShapeTypes
    PROVE  Sound(PushShape(t, parent, offset, type))
<1> DEFINE u == PushShape(t, parent, offset, type)
<1>0. t \in Tables
  BY DEF Sound
<1>1. /\ u \in Tables
      /\ u.points = t.points
      /\ u.figures = t.figures
      /\ Len(u.shapes) = Len(t.shapes) + 1
      /\ \A i \in 1 .. Len(t.shapes) : u.shapes[i] = t.shapes[i]
      /\ u.shapes[Len(t.shapes) + 1].parent = parent
  <2> HIDE DEF u
  <2>1. /\ u \in Tables
        /\ u.points = t.points
        /\ u.figures = t.figures
        /\ Len(u.shapes) = Len(t.shapes) + 1
        /\ \A i \in 1 .. Len(t.shapes) : u.shapes[i] = t.shapes[i]
        /\ u.shapes[Len(t.shapes) + 1]
               = [parent |-> parent, figure_offset |-> offset, type |-> type]
    BY <1>0, PushesShape DEF u
  <2> QED
    BY <2>1
<1>2. Len(t.shapes) \in Nat
  BY <1>0, TablesHave
<1> HIDE DEF u
<1>3. \A k \in 1 .. Len(u.shapes) : u.shapes[k].parent < k - 1
  <2> TAKE k \in 1 .. Len(u.shapes)
  <2>1. CASE k \in 1 .. Len(t.shapes)
    BY <1>1, <2>1 DEF Sound
  <2>2. CASE k = Len(t.shapes) + 1
    BY <1>1, <1>2, <2>2
  <2> QED
    BY <1>1, <1>2, <2>1, <2>2
<1> QED
  BY <1>1, <1>3 DEF Sound, u

-----------------------------------------------------------------------------
(* A figure is read back from whatever tables go on from it. *)

\* A figure that was pushed is read back, whatever is pushed after it.
\* A figure begins where its offset says and ends where the next one begins.
LEMMA FigureReaches ==
    ASSUME NEW u, Sound(u), NEW n \in 1 .. Len(u.figures)
    PROVE  LET start == u.figures[n].point_offset
               end == IF n = Len(u.figures) THEN Len(u.points)
                      ELSE u.figures[n + 1].point_offset
           IN  /\ start \in Nat /\ end \in Nat /\ start < end /\ end <= Len(u.points)
               /\ FigureCoords(n - 1, u) = Built(SubSeq(u.points, start + 1, end))
<1> DEFINE start == u.figures[n].point_offset
           end == IF n = Len(u.figures) THEN Len(u.points) ELSE u.figures[n + 1].point_offset
           later == {o \in {u.figures[i].point_offset : i \in DOMAIN u.figures} : o > start}
           last == IF later = {} THEN Len(u.points) ELSE Min(later)
<1>0. u \in Tables
  BY DEF Sound
<1>1. /\ u.figures \in Seq(FigureType)
      /\ Len(u.points) \in Nat /\ Len(u.figures) \in Nat
      /\ \A i \in 1 .. Len(u.figures) : u.figures[i].point_offset \in Nat
      /\ DOMAIN u.figures = 1 .. Len(u.figures)
  BY <1>0, TablesHave, LenProperties
<1>2. \A i \in 1 .. Len(u.figures) : u.figures[i].point_offset < Len(u.points)
  BY DEF Sound
<1>3. \A i, j \in 1 .. Len(u.figures) :
          i < j => u.figures[i].point_offset < u.figures[j].point_offset
  BY DEF Sound
<1>4. n # Len(u.figures) => n + 1 \in 1 .. Len(u.figures) /\ n < n + 1
  BY <1>1
<1>5. start \in Nat /\ end \in Nat /\ start < end /\ end <= Len(u.points)
  <2>1. CASE n = Len(u.figures)
    BY <1>1, <1>2, <2>1
  <2>2. CASE n # Len(u.figures)
    <3>1. end = u.figures[n + 1].point_offset /\ n + 1 \in 1 .. Len(u.figures) /\ n < n + 1
      BY <1>4, <2>2
    <3>2. start < end
      BY <1>3, <3>1
    <3>3. end \in Nat /\ end < Len(u.points)
      BY <1>1, <1>2, <3>1
    <3> QED
      BY <1>1, <3>2, <3>3
  <2> QED
    BY <2>1, <2>2
<1>6. \A o : o \in later <=> \E i \in 1 .. Len(u.figures) : o = u.figures[i].point_offset /\ o > start
  BY <1>1
<1>7. end = last
  <2>1. CASE n = Len(u.figures)
    <3>1. ASSUME NEW o \in later PROVE FALSE
      <4>1. PICK i \in 1 .. Len(u.figures) : o = u.figures[i].point_offset /\ o > start
        BY <1>6, <3>1
      <4>2. i = n \/ i < n
        BY <1>1, <2>1
      <4>3. i < n => u.figures[i].point_offset < start
        BY <1>3
      <4>4. o \in Nat
        BY <1>1, <4>1
      <4> QED
        BY <1>5, <4>1, <4>2, <4>3, <4>4
    <3> QED
      BY <2>1, <3>1
  <2>2. CASE n # Len(u.figures)
    <3>1. end = u.figures[n + 1].point_offset /\ n + 1 \in 1 .. Len(u.figures)
      BY <1>4, <2>2
    <3>2. end \in later
      BY <1>5, <1>6, <3>1
    <3>3. ASSUME NEW o \in later PROVE o \in Nat /\ end <= o
      <4>1. PICK i \in 1 .. Len(u.figures) : o = u.figures[i].point_offset /\ o > start
        BY <1>6, <3>3
      <4>2. i < n => u.figures[i].point_offset < start
        BY <1>3
      <4>3. o \in Nat
        BY <1>1, <4>1
      <4>4. ~(i < n) /\ i # n
        BY <1>5, <4>1, <4>2, <4>3
      <4>5. i = n + 1 \/ n + 1 < i
        BY <1>1, <4>4
      <4>6. n + 1 < i => u.figures[n + 1].point_offset < u.figures[i].point_offset
        BY <1>3, <3>1
      <4>7. u.figures[n + 1].point_offset <= u.figures[i].point_offset
        BY <1>1, <3>1, <4>5, <4>6
      <4> QED
        BY <3>1, <4>1, <4>3, <4>7
    <3> HIDE DEF later, end, start
    <3>4. \A x \in later : (\A o \in later : x <= o) => x = end
      BY <1>5, <3>2, <3>3
    <3>5. Min(later) = end
      BY <3>2, <3>3, <3>4 DEF Min
    <3> QED
      BY <3>2, <3>5
  <2> QED
    BY <2>1, <2>2
<1>8. FigureCoords(n - 1, u)
      = IF start > last \/ last > Len(u.points) THEN Broken
        ELSE Built(SubSeq(u.points, start + 1, last))
  <2>1. n - 1 + 1 = n /\ ~(n - 1 < 0) /\ ~(n - 1 >= Len(u.figures))
    BY <1>1
  <2> QED
    BY <2>1 DEF FigureCoords
<1> HIDE DEF start, end, last
<1>9. ~(start > end \/ end > Len(u.points))
  BY <1>1, <1>5
<1>10. FigureCoords(n - 1, u) = Built(SubSeq(u.points, start + 1, end))
  BY <1>7, <1>8, <1>9
<1> QED
  BY <1>5, <1>10 DEF start, end

\* A figure that was pushed is read back, whatever is pushed after it.
LEMMA FigureIsRead ==
    ASSUME NEW t \in Tables, NEW attribute \in Attributes, NEW points \in Seq(Nat), points # <<>>,
           NEW u, Sound(u), Extends(PushFigure(t, attribute, points), u)
    PROVE  /\ FigureCoords(Len(t.figures), u) = Built(points)
           /\ Len(t.figures) + 1 \in 1 .. Len(u.figures)
           /\ u.figures[Len(t.figures) + 1].attribute = attribute
<1> DEFINE p == PushFigure(t, attribute, points)
           n == Len(t.figures) + 1
           start == u.figures[n].point_offset
           end == IF n = Len(u.figures) THEN Len(u.points) ELSE u.figures[n + 1].point_offset
<1>1. /\ p \in Tables
      /\ Len(p.points) = Len(t.points) + Len(points)
      /\ \A i \in 1 .. Len(points) : p.points[Len(t.points) + i] = points[i]
      /\ Len(p.figures) = n
      /\ p.figures[n] = [attribute |-> attribute, point_offset |-> Len(t.points)]
  BY PushesFigure
<1>2. /\ Len(points) \in Nat \ {0}
      /\ Len(t.points) \in Nat /\ Len(t.figures) \in Nat
      /\ u.points \in Seq(Nat)
      /\ Len(u.points) \in Nat /\ Len(u.figures) \in Nat
      /\ n \in Nat \ {0} /\ n - 1 = Len(t.figures)
  BY EmptySeq, TablesHave DEF Sound
<1> HIDE DEF p, n
<1>3. /\ Len(p.points) <= Len(u.points)
      /\ \A i \in 1 .. Len(p.points) : u.points[i] = p.points[i]
      /\ Len(p.figures) <= Len(u.figures)
      /\ \A i \in 1 .. Len(p.figures) : u.figures[i] = p.figures[i]
      /\ IF Len(p.figures) = Len(u.figures) THEN Len(u.points) = Len(p.points)
         ELSE u.figures[Len(p.figures) + 1].point_offset = Len(p.points)
  BY DEF Extends, p
<1>4. n \in 1 .. Len(p.figures) /\ n \in 1 .. Len(u.figures)
  BY <1>1, <1>2, <1>3
<1>5. start = Len(t.points) /\ u.figures[n].attribute = attribute
  BY <1>1, <1>3, <1>4
<1>6. end = Len(t.points) + Len(points)
  BY <1>1, <1>3
<1>7. FigureCoords(n - 1, u) = Built(SubSeq(u.points, start + 1, end)) /\ end <= Len(u.points)
  BY <1>4, FigureReaches
<1> HIDE DEF start, end
<1>8. SubSeq(u.points, start + 1, end) = points
  <2> DEFINE q == SubSeq(u.points, start + 1, end)
  <2>0. start + 1 \in Int /\ end \in Int /\ start + 1 <= end /\ end - (start + 1) + 1 = Len(points)
    BY <1>2, <1>5, <1>6
  <2>1. \A i \in start + 1 .. end : u.points[i] \in Nat
    <3> TAKE i \in start + 1 .. end
    <3>1. i \in 1 .. Len(u.points)
      BY <1>2, <1>5, <1>6, <1>7
    <3> QED
      BY <1>2, <3>1, ElementOfSeq
  <2>2. /\ q \in Seq(Nat)
        /\ Len(q) = Len(points)
        /\ \A i \in 1 .. Len(points) : q[i] = u.points[(start + 1) + i - 1]
    BY <2>0, <2>1, SubSeqProperties
  <2>3. \A i \in 1 .. Len(points) : q[i] = points[i]
    <3> TAKE i \in 1 .. Len(points)
    <3>1. (start + 1) + i - 1 = Len(t.points) + i /\ Len(t.points) + i \in 1 .. Len(p.points)
      BY <1>1, <1>2, <1>5
    <3>2. u.points[Len(t.points) + i] = p.points[Len(t.points) + i]
      BY <1>3, <3>1
    <3> QED
      BY <1>1, <2>2, <3>1, <3>2
  <2> HIDE DEF q
  <2>4. q = points
    BY <2>2, <2>3, SeqEqual
  <2> QED
    BY <2>4 DEF q
<1>9. FigureCoords(Len(t.figures), u) = Built(points)
  BY <1>2, <1>7, <1>8
<1> QED
  BY <1>4, <1>5, <1>9 DEF n

-----------------------------------------------------------------------------
(* One geometry on top of others: a shape with a figure. *)

\* What one geometry adds to sound tables below the shape p: a shape below p, and
\* then only shapes below that one.
Grown(t, p, e) ==
    /\ Extends(t, e) /\ Led(t, e) /\ Sound(e)
    /\ Len(t.shapes) < Len(e.shapes)
    /\ e.shapes[Len(t.shapes) + 1].parent = p
    /\ \A i \in Len(t.shapes) + 2 .. Len(e.shapes) : e.shapes[i].parent >= Len(t.shapes)

\* The shape that was added.
First(t, e) == e.shapes[Len(t.shapes) + 1]

\* One shape that was added, of a type.
Single(t, p, type, e) ==
    Grown(t, p, e) /\ Len(e.shapes) = Len(t.shapes) + 1 /\ First(t, e).type = type

\* A figure for which no exterior one is needed.
LEMMA FigureIsLed ==
    ASSUME NEW t \in Tables, NEW attribute \in Attributes, attribute # "interior", NEW points \in Seq(Nat)
    PROVE  Led(t, PushFigure(t, attribute, points))
<1> DEFINE u == PushFigure(t, attribute, points)
<1>1. /\ Len(u.figures) = Len(t.figures) + 1
      /\ u.figures[Len(t.figures) + 1]
             = [attribute |-> attribute, point_offset |-> Len(t.points)]
  BY PushesFigure
<1>2. Len(t.figures) \in Nat
  BY TablesHave
<1> HIDE DEF u
<1>3. ASSUME NEW i \in Len(t.figures) + 1 .. Len(u.figures) PROVE u.figures[i].attribute = attribute
  <2>1. i = Len(t.figures) + 1
    BY <1>1, <1>2
  <2> QED
    BY <1>1, <2>1
<1> QED
  BY <1>3 DEF Led, u

\* A shape on top of figures is all that was added.
LEMMA ShapeIsSingle ==
    ASSUME NEW t, NEW u, Sound(u), Extends(t, u), Led(t, u), u.shapes = t.shapes,
           NEW p \in Int, p < Len(t.shapes), NEW offset \in Int, NEW type \in ShapeTypes
    PROVE  LET e == PushShape(u, p, offset, type)
           IN  /\ Single(t, p, type, e)
               /\ First(t, e).figure_offset = offset
               /\ Extends(u, e)
               /\ e.figures = u.figures
<1> DEFINE e == PushShape(u, p, offset, type)
<1>1. u \in Tables /\ t \in Tables
  BY DEF Extends
<1>2. /\ Len(e.shapes) = Len(t.shapes) + 1
      /\ e.shapes[Len(t.shapes) + 1] = [parent |-> p, figure_offset |-> offset, type |-> type]
      /\ Extends(u, e) /\ Led(u, e)
      /\ e.figures = u.figures
  BY <1>1, PushesShape
<1>3. Sound(e)
  BY ShapeKeepsSound
<1>4. Len(t.shapes) \in Nat
  BY <1>1, TablesHave
<1> HIDE DEF e
<1>5. Extends(t, e) /\ Led(t, e)
  BY <1>2, ExtendsTwice, LedTwice
<1>6. e.shapes[Len(t.shapes) + 1].parent = p /\ First(t, e).type = type
      /\ First(t, e).figure_offset = offset
  BY <1>2 DEF First
<1>7. Grown(t, p, e)
  BY <1>2, <1>3, <1>4, <1>5, <1>6 DEF Grown
<1> QED
  BY <1>2, <1>6, <1>7 DEF Single, e

LEMMA EncodesEmpty ==
    ASSUME NEW t, Sound(t), NEW p \in Int, p < Len(t.shapes), NEW type \in ShapeTypes
    PROVE  LET e == PushEmptyShape(t, p, type)
           IN  /\ Single(t, p, type, e)
               /\ First(t, e).figure_offset = -1
<1>1. Extends(t, t) /\ Led(t, t)
  BY ExtendsSelf DEF Sound
<1> QED
  BY <1>1, ShapeIsSingle DEF PushEmptyShape

LEMMA EncodesStroke ==
    ASSUME NEW t, Sound(t), NEW p \in Int, p < Len(t.shapes), NEW points \in Seq(Nat),
           points # <<>>, NEW type \in ShapeTypes
    PROVE  LET e == EncodeStroke(t, p, points, type)
           IN  /\ Single(t, p, type, e)
               /\ \A T : Sound(T) /\ Extends(e, T) =>
                      FigureCoords(First(t, e).figure_offset, T) = Built(points)
<1> DEFINE u == PushFigure(t, "stroke", points)
           e == EncodeStroke(t, p, points, type)
<1>1. t \in Tables /\ Len(t.figures) \in Nat /\ "stroke" \in Attributes /\ "stroke" # "interior"
  BY TablesHave DEF Sound, Attributes
<1>2. Extends(t, u) /\ u.shapes = t.shapes
  BY <1>1, PushesFigure
<1>3. Led(t, u)
  BY <1>1, FigureIsLed
<1>4. Sound(u)
  BY <1>1, FigureKeepsSound
<1> HIDE DEF u
<1>5. Single(t, p, type, e) /\ First(t, e).figure_offset = Len(t.figures) /\ Extends(u, e)
  <2>1. e = PushShape(u, p, Len(t.figures), type)
    BY DEF EncodeStroke, u
  <2> HIDE DEF e
  <2> QED
    BY <1>1, <1>2, <1>3, <1>4, <2>1, ShapeIsSingle
<1> HIDE DEF e
<1>6. ASSUME NEW T, Sound(T), Extends(e, T)
      PROVE  FigureCoords(First(t, e).figure_offset, T) = Built(points)
  <2>1. Extends(u, T)
    BY <1>5, <1>6, ExtendsTwice
  <2>2. FigureCoords(Len(t.figures), T) = Built(points)
    BY <1>1, <1>6, <2>1, FigureIsRead DEF u
  <2> QED
    BY <1>5, <2>2
<1> QED
  BY <1>5, <1>6 DEF e

LEMMA EncodesLine ==
    ASSUME NEW t, Sound(t), NEW p \in Int, p < Len(t.shapes), NEW points \in Seq(Nat)
    PROVE  LET e == EncodeLineString(t, p, points)
           IN  /\ Single(t, p, "linestring", e)
               /\ \A T : Sound(T) /\ Extends(e, T) =>
                      FigureCoords(First(t, e).figure_offset, T) = Built(points)
<1>1. CASE points = <<>>
  <2>1. EncodeLineString(t, p, points) = PushEmptyShape(t, p, "linestring")
    BY <1>1 DEF EncodeLineString
  <2>2. \A T : FigureCoords(-1, T) = Built(<<>>)
    BY DEF FigureCoords
  <2> QED
    BY <1>1, <2>1, <2>2, EncodesEmpty DEF ShapeTypes
<1>2. CASE points # <<>>
  <2>1. EncodeLineString(t, p, points) = EncodeStroke(t, p, points, "linestring")
    BY <1>2 DEF EncodeLineString
  <2> QED
    BY <1>2, <2>1, EncodesStroke DEF ShapeTypes
<1> QED
  BY <1>1, <1>2

\* A point is the first of its figure.
LEMMA EncodesPoint ==
    ASSUME NEW t, Sound(t), NEW p \in Int, p < Len(t.shapes), NEW point \in Nat
    PROVE  LET e == EncodeStroke(t, p, <<point>>, "point")
           IN  /\ Single(t, p, "point", e)
               /\ \A T : Sound(T) /\ Extends(e, T) =>
                      FirstCoord(First(t, e).figure_offset, T) = Built(point)
<1> DEFINE e == EncodeStroke(t, p, <<point>>, "point")
<1>1. <<point>> \in Seq(Nat) /\ <<point>> # <<>> /\ "point" \in ShapeTypes
  BY DEF ShapeTypes
<1>2. /\ Single(t, p, "point", e)
      /\ \A T : Sound(T) /\ Extends(e, T) =>
             FigureCoords(First(t, e).figure_offset, T) = Built(<<point>>)
  BY <1>1, EncodesStroke
<1> HIDE DEF e
<1>3. ASSUME NEW T, Sound(T), Extends(e, T)
      PROVE  FirstCoord(First(t, e).figure_offset, T) = Built(point)
  <2>1. FigureCoords(First(t, e).figure_offset, T) = Built(<<point>>)
    BY <1>2, <1>3
  <2>2. Built(<<point>>) # Broken /\ Built(<<point>>) # Built(<<>>) /\ Built(<<point>>)[1][1] = point
    BY DEF Built, Broken
  <2> QED
    BY <2>1, <2>2 DEF FirstCoord
<1> QED
  BY <1>2, <1>3 DEF e

-----------------------------------------------------------------------------
(* Polygons: a shape with several figures. *)

\* The points of rings and polygons.
LEMMA RingsAre ==
    \A ring \in Rings : ring \in Seq(Nat) /\ Closed(ring) = ring
BY DEF Rings

\* Leaving out the empty rings leaves rings that are not.
LEMMA NonEmptyIs ==
    ASSUME NEW rings \in Seq(Rings)
    PROVE  /\ NonEmpty(rings) \in Seq(Rings)
           /\ DOMAIN NonEmpty(rings) = 1 .. Len(NonEmpty(rings))
           /\ \A k \in 1 .. Len(NonEmpty(rings)) : /\ NonEmpty(rings)[k] \in Rings
                                                   /\ NonEmpty(rings)[k] # <<>>
<1> DEFINE S == {i \in DOMAIN rings : rings[i] # <<>>}
           kept == InOrder(S)
           c == Cardinality(S)
           r == [k \in DOMAIN kept |-> rings[kept[k]]]
<1>1. Len(rings) \in Nat /\ DOMAIN rings = 1 .. Len(rings) /\ \A i \in 1 .. Len(rings) : rings[i] \in Rings
  BY LenProperties, ElementOfSeq
<1>2. S \in SUBSET (1 .. Len(rings)) /\ \A i \in S : rings[i] \in Rings /\ rings[i] # <<>>
  BY <1>1
<1>3. r = NonEmpty(rings)
  BY DEF NonEmpty
<1> HIDE DEF S
<1>4. kept \in [1 .. c -> S] /\ c \in Nat
  BY <1>1, <1>2, InOrderLists
<1> HIDE DEF c, kept
<1>5. r \in [1 .. c -> Rings] /\ \A k \in 1 .. c : r[k] # <<>>
  BY <1>2, <1>4
<1>6. r \in Seq(Rings) /\ Len(r) = c
  BY <1>4, <1>5, IsASeq, LenProperties
<1> HIDE DEF r
<1> QED
  BY <1>3, <1>5, <1>6, LenProperties

\* The rings after the exterior one, one after another.
Pushed(tables, exterior, rings) ==
    CHOOSE pushed : pushed = [k \in 0 .. Len(rings) |->
                                 IF k = 0 THEN PushFigure(tables, "exterior", exterior)
                                 ELSE PushFigure(pushed[k - 1], "interior", rings[k])]

LEMMA PushedIs ==
    ASSUME NEW t, NEW exterior, NEW rings, Len(rings) \in Nat
    PROVE  /\ Pushed(t, exterior, rings)[0] = PushFigure(t, "exterior", exterior)
           /\ \A k \in 1 .. Len(rings) :
                  Pushed(t, exterior, rings)[k]
                      = PushFigure(Pushed(t, exterior, rings)[k - 1], "interior", rings[k])
<1> DEFINE n == Len(rings)
           Rule(f, k) == IF k = 0 THEN PushFigure(t, "exterior", exterior)
                          ELSE PushFigure(f[k - 1], "interior", rings[k])
           S == {m \in Nat : \E f : f = [k \in 0 .. m |-> Rule(f, k)]}
<1>1. 0 \in S
  <2> DEFINE f == [k \in 0 .. 0 |-> PushFigure(t, "exterior", exterior)]
  <2>1. f = [k \in 0 .. 0 |-> Rule(f, k)]
    OBVIOUS
  <2> HIDE DEF f
  <2> QED
    BY <2>1
<1>2. ASSUME NEW m \in 0 .. n - 1, m \in S PROVE m + 1 \in S
  <2>1. PICK f : f = [k \in 0 .. m |-> Rule(f, k)]
    BY <1>2
  <2> DEFINE g == [k \in 0 .. m + 1 |-> IF k <= m THEN f[k] ELSE Rule(f, k)]
  <2>2. ASSUME NEW k \in 0 .. m + 1 PROVE g[k] = Rule(g, k)
    <3>1. k # 0 => g[k - 1] = f[k - 1]
      OBVIOUS
    <3>2. Rule(g, k) = Rule(f, k)
      BY <3>1
    <3>3. k <= m => f[k] = Rule(f, k)
      <4> HIDE DEF Rule
      <4> QED
        BY <2>1
    <3> HIDE DEF Rule
    <3> QED
      BY <3>2, <3>3
  <2>3. g = [k \in 0 .. m + 1 |-> Rule(g, k)]
    <3> HIDE DEF Rule
    <3> QED
      BY <2>2
  <2> HIDE DEF g
  <2> QED
    BY <2>3
<1>3. n \in S
  <2>1. 0 \in Int /\ n \in Int /\ n \in 0 .. n
    OBVIOUS
  <2> HIDE DEF S
  <2>2. \A m \in 0 .. n : m \in S
    BY <1>1, <1>2, <2>1, Reaches
  <2> QED
    BY <2>1, <2>2
<1> DEFINE p == Pushed(t, exterior, rings)
<1>4. p = [k \in 0 .. n |-> Rule(p, k)]
  BY <1>3 DEF Pushed
<1> HIDE DEF p, Rule
<1>5. \A k \in 0 .. n : p[k] = Rule(p, k)
  BY <1>4
<1>6. p[0] = Rule(p, 0)
  BY <1>5
<1>7. \A k \in 1 .. n : p[k] = Rule(p, k) /\ k # 0
  BY <1>5
<1> QED
  BY <1>6, <1>7 DEF p, Rule

\* Rings that are pushed.
FullRings == {rings \in Seq(Rings) : \A k \in 1 .. Len(rings) : rings[k] # <<>>}

LEMMA FullRingsHave ==
    ASSUME NEW rings \in FullRings
    PROVE  /\ Len(rings) \in Nat /\ DOMAIN rings = 1 .. Len(rings)
           /\ rings = [k \in 1 .. Len(rings) |-> rings[k]]
           /\ \A k \in 1 .. Len(rings) :
                  rings[k] \in Seq(Nat) /\ Closed(rings[k]) = rings[k] /\ rings[k] # <<>>
<1>1. rings \in Seq(Rings) /\ \A k \in 1 .. Len(rings) : rings[k] # <<>>
  BY DEF FullRings
<1>2. \A k \in 1 .. Len(rings) : rings[k] \in Rings
  BY <1>1, ElementOfSeq
<1> QED
  BY <1>1, <1>2, RingsAre, LenProperties

LEMMA PushedGrows ==
    ASSUME NEW t, Sound(t), NEW exterior \in Rings, exterior # <<>>, NEW rings \in FullRings
    PROVE  LET p == Pushed(t, exterior, rings)
           IN  \A k \in 0 .. Len(rings) :
                   /\ Sound(p[k]) /\ p[k].shapes = t.shapes
                   /\ Len(p[k].figures) = Len(t.figures) + 1 + k
                   /\ Extends(t, p[k]) /\ Led(t, p[k])
                   /\ \A j \in 0 .. k : Extends(p[j], p[k])
<1> DEFINE p == Pushed(t, exterior, rings)
           n == Len(rings)
           m == Len(t.figures) + 1
           Stage(k) == /\ Sound(p[k]) /\ p[k].shapes = t.shapes
                       /\ Len(p[k].figures) = m + k
                       /\ Extends(t, p[k])
                       /\ p[k].figures[m].attribute = "exterior"
                       /\ \A j \in 0 .. k : Extends(p[j], p[k])
           S == {k \in Int : Stage(k)}
<1>0. /\ "exterior" \in Attributes /\ "exterior" # "interior" /\ "interior" \in Attributes
      /\ t \in Tables /\ Len(t.figures) \in Nat /\ m \in Nat
      /\ n \in Nat /\ \A k \in 1 .. n : rings[k] \in Seq(Nat) /\ rings[k] # <<>>
      /\ exterior \in Seq(Nat)
  BY TablesHave, RingsAre, FullRingsHave DEF Attributes, Sound
<1>1. /\ p[0] = PushFigure(t, "exterior", exterior)
      /\ \A k \in 1 .. n : p[k] = PushFigure(p[k - 1], "interior", rings[k])
  BY FullRingsHave, PushedIs
<1> HIDE DEF p
<1>2. 0 \in S
  <2>1. Sound(p[0])
    BY <1>0, <1>1, FigureKeepsSound
  <2>2. /\ p[0].shapes = t.shapes /\ Len(p[0].figures) = m /\ Extends(t, p[0])
        /\ p[0].figures[m] = [attribute |-> "exterior", point_offset |-> Len(t.points)]
    BY <1>0, <1>1, PushesFigure
  <2>3. Extends(p[0], p[0])
    BY <2>1, ExtendsSelf DEF Sound
  <2>4. \A j \in 0 .. 0 : Extends(p[j], p[0])
    BY <2>3
  <2>5. Len(p[0].figures) = m + 0 /\ p[0].figures[m].attribute = "exterior" /\ 0 \in Int
    BY <1>0, <2>2
  <2> QED
    BY <2>1, <2>2, <2>4, <2>5
<1>3. ASSUME NEW k \in 0 .. n - 1, k \in S PROVE k + 1 \in S
  <2> DEFINE a == p[k]
             b == p[k + 1]
  <2>0. n \in Nat
    BY <1>0
  <2>1. Stage(k) /\ k + 1 \in 1 .. n /\ (k + 1) - 1 = k
    <3>1. k + 1 \in 1 .. n /\ (k + 1) - 1 = k
      BY <2>0
    <3> QED
      BY <1>3, <3>1
  <2>2. b = PushFigure(a, "interior", rings[k + 1])
    BY <1>1, <2>1
  <2>3. rings[k + 1] \in Seq(Nat) /\ rings[k + 1] # <<>>
    BY <1>0, <2>1
  <2>4. a \in Tables
    BY <2>1 DEF Sound
  <2>5. Sound(b)
    BY <1>0, <2>1, <2>2, <2>3, FigureKeepsSound
  <2>6. /\ b.shapes = a.shapes /\ Len(b.figures) = Len(a.figures) + 1 /\ Extends(a, b)
        /\ \A i \in 1 .. Len(a.figures) : b.figures[i] = a.figures[i]
    <3> DEFINE r == rings[k + 1]
    <3>1. "interior" \in Attributes /\ a \in Tables /\ r \in Seq(Nat) /\ b = PushFigure(a, "interior", r)
      BY <1>0, <2>2, <2>3, <2>4
    <3> HIDE DEF a, b, r
    <3> QED
      BY ONLY <3>1, PushesFigure
  <2>7. Extends(t, b)
    BY <2>1, <2>6, ExtendsTwice
  <2>8. \A j \in 0 .. k + 1 : Extends(p[j], b)
    <3> TAKE j \in 0 .. k + 1
    <3>1. CASE j \in 0 .. k
      BY <2>1, <2>6, <3>1, ExtendsTwice
    <3>2. CASE j = k + 1
      BY <2>5, <3>2, ExtendsSelf DEF Sound
    <3> QED
      BY <3>1, <3>2
  <2>9. b.figures[m].attribute = "exterior"
    <3>1. m \in 1 .. Len(a.figures)
      BY <1>0, <2>1
    <3> QED
      BY <2>1, <2>6, <3>1
  <2>10. Len(b.figures) = m + (k + 1)
    <3>1. Len(a.figures) = m + k /\ m \in Nat /\ k \in Nat
      BY <1>0, <2>1
    <3> HIDE DEF a, b, m
    <3> QED
      BY ONLY <2>6, <3>1
  <2> QED
    BY <2>1, <2>5, <2>6, <2>7, <2>8, <2>9, <2>10
<1>4. \A k \in 0 .. n : k \in S
  <2>1. 0 \in Int /\ n \in Int
    BY <1>0
  <2> HIDE DEF S
  <2> QED
    BY <1>2, <1>3, <2>1, Reaches
<1>5. ASSUME NEW k \in 0 .. n PROVE Led(t, p[k])
  <2>1. p[k].figures[m].attribute = "exterior"
    BY <1>4
  <2>2. \A i \in m .. Len(p[k].figures) : m \in m .. i
    BY <1>0
  <2> QED
    BY <2>1, <2>2 DEF Led
<1> QED
  BY <1>4, <1>5 DEF p

\* A list of results that are all there.
LEMMA CollectedIs ==
    ASSUME NEW n \in Nat, NEW x, x = [k \in 1 .. n |-> x[k]], NEW results,
           results = [k \in 1 .. n |-> results[k]],
           \A k \in 1 .. n : results[k] = Built(x[k])
    PROVE  Collected(results) = Built(x)
<1>1. DOMAIN results = 1 .. n
  OBVIOUS
<1>2. Broken \notin Range(results)
  BY <1>1 DEF Range, Built, Broken
<1>3. \A k \in 1 .. n : results[k][1] = x[k]
  BY DEF Built
<1>4. [k \in DOMAIN results |-> results[k][1]] = x
  BY <1>1, <1>3
<1> QED
  BY <1>2, <1>4 DEF Collected

\* A polygon with an exterior ring if it has any.
HasExterior(polygon) == polygon.exterior # <<>> \/ NonEmpty(polygon.interiors) = <<>>

LEMMA PolygonIsRead ==
    ASSUME NEW t, Sound(t), NEW exterior \in Rings, exterior # <<>>, NEW rings \in FullRings,
           NEW T, Sound(T), Extends(Pushed(t, exterior, rings)[Len(rings)], T),
           Led(Pushed(t, exterior, rings)[Len(rings)], T)
    PROVE  BuildPolygon(Len(t.figures), T) = Built(Polygon(exterior, rings))
<1> DEFINE p == Pushed(t, exterior, rings)
           n == Len(rings)
           m == Len(t.figures)
           first == m + 2
           S == {i \in first .. Len(T.figures) :
                    /\ T.figures[i].attribute = "interior"
                    /\ \A j \in first .. i : T.figures[j].attribute # "exterior"}
           c == [k \in 1 .. n |-> m + 1 + k]
<1>0. /\ "exterior" \in Attributes /\ "interior" \in Attributes /\ "exterior" # "interior"
      /\ t \in Tables /\ m \in Nat /\ m = Len(t.figures) /\ n \in Nat /\ Len(T.figures) \in Nat
      /\ exterior \in Seq(Nat) /\ Closed(exterior) = exterior
      /\ \A k \in 1 .. n : rings[k] \in Seq(Nat) /\ Closed(rings[k]) = rings[k] /\ rings[k] # <<>>
  BY RingsAre, TablesHave, FullRingsHave DEF Attributes, Sound
<1>1. /\ p[0] = PushFigure(t, "exterior", exterior)
      /\ \A k \in 1 .. n : p[k] = PushFigure(p[k - 1], "interior", rings[k])
  BY FullRingsHave, PushedIs
<1>2. \A k \in 0 .. n : /\ Sound(p[k]) /\ Len(p[k].figures) = m + 1 + k
                        /\ \A j \in 0 .. k : Extends(p[j], p[k])
  BY PushedGrows
<1>3. Extends(p[n], T) /\ Led(p[n], T)
  OBVIOUS
<1>n. m \in Nat /\ n \in Nat /\ Len(T.figures) \in Nat
  BY <1>0
<1>r. DOMAIN rings = 1 .. n /\ rings = [k \in 1 .. n |-> rings[k]]
  BY FullRingsHave
<1> HIDE DEF p, m, n
<1>4. \A k \in 0 .. n : Extends(p[k], T)
  <2> TAKE k \in 0 .. n
  <2>1. Extends(p[k], p[n])
    BY <1>0, <1>2
  <2> QED
    BY <1>3, <2>1, ExtendsTwice
<1>5. FigureCoords(m, T) = Built(exterior)
  <2>1. Extends(p[0], T)
    BY <1>0, <1>4
  <2> QED
    BY <1>0, <1>1, <2>1, FigureIsRead
<1>6. \A k \in 1 .. n : /\ FigureCoords(m + k, T) = Built(rings[k])
                        /\ m + 1 + k \in 1 .. Len(T.figures)
                        /\ T.figures[m + 1 + k].attribute = "interior"
  <2> TAKE k \in 1 .. n
  <2>1. k - 1 \in 0 .. n /\ k \in 0 .. n
    BY <1>0
  <2>2. p[k - 1] \in Tables /\ Len(p[k - 1].figures) = m + k
    <3>1. Sound(p[k - 1]) /\ Len(p[k - 1].figures) = m + 1 + (k - 1)
      BY <1>2, <2>1
    <3>2. m + 1 + (k - 1) = m + k
      BY <1>n
    <3> QED
      BY <3>1, <3>2 DEF Sound
  <2>3. Extends(PushFigure(p[k - 1], "interior", rings[k]), T)
    BY <1>1, <1>4, <2>1
  <2>4. /\ FigureCoords(Len(p[k - 1].figures), T) = Built(rings[k])
        /\ Len(p[k - 1].figures) + 1 \in 1 .. Len(T.figures)
        /\ T.figures[Len(p[k - 1].figures) + 1].attribute = "interior"
    BY <1>0, <2>2, <2>3, FigureIsRead
  <2>5. m + k + 1 = m + 1 + k
    BY <1>0
  <2> QED
    BY <2>2, <2>4, <2>5
<1>7. \A i : i \in S <=> \E k \in 1 .. n : i = c[k]
  <2>1. ASSUME NEW k \in 1 .. n PROVE c[k] \in S
    <3>1. m + 1 + k \in first .. Len(T.figures)
      <4>1. m + 1 + k \in 1 .. Len(T.figures)
        BY <1>6
      <4> QED
        BY <1>n, <4>1
    <3>2. ASSUME NEW j \in first .. m + 1 + k PROVE T.figures[j].attribute # "exterior"
      <4>1. j - (m + 1) \in 1 .. n /\ m + 1 + (j - (m + 1)) = j
        BY <1>n
      <4>2. T.figures[m + 1 + (j - (m + 1))].attribute = "interior"
        BY <1>6, <4>1
      <4> QED
        BY <1>0, <4>1, <4>2
    <3> QED
      BY <1>6, <3>1, <3>2
  <2>2. ASSUME NEW i \in S PROVE \E k \in 1 .. n : i = c[k]
    <3>1. i \in first .. Len(T.figures) /\ T.figures[i].attribute = "interior"
          /\ \A j \in first .. i : T.figures[j].attribute # "exterior"
      OBVIOUS
    <3>2. CASE i <= m + 1 + n
      <4>1. i - (m + 1) \in 1 .. n /\ m + 1 + (i - (m + 1)) = i
        BY <1>n, <3>1, <3>2
      <4> QED
        BY <4>1
    <3>3. CASE i > m + 1 + n
      <4>1. Len(p[n].figures) = m + 1 + n
        BY <1>0, <1>2
      <4>2. i \in Len(p[n].figures) + 1 .. Len(T.figures)
        BY <1>0, <3>1, <3>3, <4>1
      <4>3. PICK j \in Len(p[n].figures) + 1 .. i : T.figures[j].attribute = "exterior"
        BY <1>3, <3>1, <4>2 DEF Led
      <4>4. j \in first .. i
        BY <1>0, <4>1, <3>1
      <4> QED
        BY <3>1, <4>3, <4>4
    <3> QED
      BY <1>0, <3>1, <3>2, <3>3
  <2> HIDE DEF S, c
  <2> QED
    BY <2>1, <2>2
<1>8. InOrder(S) = c
  <2>1. c \in [1 .. n -> Nat] /\ Ascends(c)
    BY <1>n DEF Ascends
  <2> HIDE DEF S, c
  <2> QED
    BY <1>0, <1>7, <2>1, InOrderIs
<1>9. Collected([k \in DOMAIN c |-> FigureCoords(c[k] - 1, T)]) = Built(rings)
  <2> DEFINE results == [k \in DOMAIN c |-> FigureCoords(c[k] - 1, T)]
  <2>1. results = [k \in 1 .. n |-> FigureCoords(m + k, T)]
    <3>1. \A k \in 1 .. n : c[k] - 1 = m + k
      BY <1>0
    <3> QED
      BY <3>1
  <2>2. \A k \in 1 .. n : results[k] = Built(rings[k])
    BY <1>6, <2>1
  <2>4. results = [k \in 1 .. n |-> results[k]]
    BY <2>1
  <2> HIDE DEF results
  <2>5. Collected(results) = Built(rings)
    BY <1>0, <2>2, <2>4, <1>r, CollectedIs
  <2> QED
    BY <2>5 DEF results
<1>10. NewPolygon(exterior, rings) = Polygon(exterior, rings)
  <2>1. [k \in DOMAIN rings |-> Closed(rings[k])] = rings
    BY <1>0, <1>r
  <2> QED
    BY <1>0, <2>1 DEF NewPolygon
<1>11. BuildPolygon(m, T)
       = LET interior == InOrder(S)
             rs == Collected([k \in DOMAIN interior |-> FigureCoords(interior[k] - 1, T)])
         IN  IF FigureCoords(m, T) = Broken \/ rs = Broken THEN Broken
             ELSE Built(NewPolygon(FigureCoords(m, T)[1], rs[1]))
  <2>1. ~(m < 0)
    BY <1>0
  <2> QED
    BY <2>1 DEF BuildPolygon
<1> HIDE DEF c, S
<1>12. \A x : Built(x) # Broken /\ Built(x)[1] = x
  BY DEF Built, Broken
<1> QED
  BY <1>5, <1>8, <1>9, <1>10, <1>11, <1>12 DEF m

LEMMA EncodesPolygon ==
    ASSUME NEW t, Sound(t), NEW p \in Int, p < Len(t.shapes), NEW polygon \in PolygonType,
           HasExterior(polygon)
    PROVE  LET e == EncodePolygon(t, p, polygon)
           IN  /\ Single(t, p, "polygon", e)
               /\ \A T : Sound(T) /\ Extends(e, T) /\ Led(e, T) =>
                      BuildPolygon(First(t, e).figure_offset, T) = Built(NormalPolygon(polygon))
<1> DEFINE exterior == polygon.exterior
           rings == NonEmpty(polygon.interiors)
           n == Len(rings)
           e == EncodePolygon(t, p, polygon)
           u == Pushed(t, exterior, rings)[n]
<1>0. /\ "polygon" \in ShapeTypes /\ t \in Tables /\ Len(t.figures) \in Nat
      /\ exterior \in Rings /\ exterior \in Seq(Nat) /\ polygon.interiors \in Seq(Rings)
  BY RingsAre, TablesHave DEF ShapeTypes, PolygonType, Sound
<1>1. rings \in FullRings /\ n \in Nat
  BY <1>0, NonEmptyIs, LenProperties DEF FullRings
<1>2. e = IF exterior = <<>> /\ rings = <<>> THEN PushEmptyShape(t, p, "polygon")
          ELSE PushShape(u, p, Len(t.figures), "polygon")
  BY DEF EncodePolygon, Pushed
<1>3. NormalPolygon(polygon) = Polygon(exterior, rings)
  BY DEF NormalPolygon
<1>4. exterior # <<>> \/ rings = <<>>
  BY DEF HasExterior
<1> HIDE DEF exterior, rings, n, u, e
<1>5. CASE exterior = <<>>
  <2>1. e = PushEmptyShape(t, p, "polygon")
    BY <1>2, <1>4, <1>5
  <2>2. Single(t, p, "polygon", e) /\ First(t, e).figure_offset = -1
    BY <1>0, <2>1, EncodesEmpty
  <2>3. \A T : BuildPolygon(-1, T) = Built(Polygon(<<>>, <<>>))
    BY DEF BuildPolygon
  <2> QED
    BY <1>3, <1>4, <1>5, <2>2, <2>3 DEF e
<1>6. CASE exterior # <<>>
  <2>1. e = PushShape(u, p, Len(t.figures), "polygon")
    BY <1>2, <1>6
  <2>2. Sound(u) /\ u.shapes = t.shapes /\ Extends(t, u) /\ Led(t, u)
    <3>1. n \in 0 .. n
      BY <1>1
    <3> QED
      BY <1>0, <1>1, <1>6, <3>1, PushedGrows DEF u, n
  <2>3. /\ Single(t, p, "polygon", e) /\ First(t, e).figure_offset = Len(t.figures)
        /\ Extends(u, e) /\ e.figures = u.figures
    BY <1>0, <2>1, <2>2, ShapeIsSingle
  <2>4. ASSUME NEW T, Sound(T), Extends(e, T), Led(e, T)
        PROVE  BuildPolygon(First(t, e).figure_offset, T) = Built(NormalPolygon(polygon))
    <3>1. Extends(u, T)
      BY <2>3, <2>4, ExtendsTwice
    <3>2. Led(u, T)
      BY <2>3, <2>4 DEF Led
    <3>3. BuildPolygon(Len(t.figures), T) = Built(Polygon(exterior, rings))
      BY <1>0, <1>1, <1>6, <2>4, <3>1, <3>2, PolygonIsRead DEF u, n
    <3> QED
      BY <1>3, <2>3, <3>3
  <2> QED
    BY <2>3, <2>4 DEF e
<1> QED
  BY <1>5, <1>6

-----------------------------------------------------------------------------
(* Parts one after another, below one shape. *)

\* Tables e in which a geometry went on top of t, and T that came of them: no
\* later shape lies below one of the geometry's.
Follows(t, e, T) ==
    /\ Sound(T) /\ Extends(e, T) /\ Led(e, T)
    /\ \A i \in Len(e.shapes) + 1 .. Len(T.shapes) :
           T.shapes[i].parent < Len(t.shapes) \/ T.shapes[i].parent >= Len(e.shapes)

\* Parts in their order, each below the shape that f[0] ends with.
Chain(f, n, index) ==
    /\ n \in Nat /\ index \in Nat
    /\ Sound(f[0]) /\ Len(f[0].shapes) = index + 1
    /\ f[0].shapes[index + 1].parent < index
    /\ \A k \in 1 .. n : Grown(f[k - 1], index, f[k])

LEMMA ChainGrows ==
    ASSUME NEW f, NEW n, NEW index, Chain(f, n, index)
    PROVE  \A k \in 0 .. n :
               /\ Sound(f[k])
               /\ Len(f[k].shapes) \in Nat
               /\ \A j \in 0 .. k :
                      /\ Extends(f[j], f[k]) /\ Led(f[j], f[k])
                      /\ Len(f[j].shapes) <= Len(f[k].shapes)
                      /\ j # k => Len(f[j].shapes) < Len(f[k].shapes)
                      /\ \A i \in Len(f[j].shapes) + 1 .. Len(f[k].shapes) :
                             \/ f[k].shapes[i].parent = index
                             \/ f[k].shapes[i].parent >= Len(f[j].shapes)
<1> DEFINE Rel(j, k) ==
               /\ Extends(f[j], f[k]) /\ Led(f[j], f[k])
               /\ Len(f[j].shapes) <= Len(f[k].shapes)
               /\ j # k => Len(f[j].shapes) < Len(f[k].shapes)
               /\ \A i \in Len(f[j].shapes) + 1 .. Len(f[k].shapes) :
                      \/ f[k].shapes[i].parent = index
                      \/ f[k].shapes[i].parent >= Len(f[j].shapes)
           S == {k \in Int : Sound(f[k]) /\ \A j \in 0 .. k : Rel(j, k)}
<1>0. n \in Nat /\ index \in Nat /\ \A k \in 1 .. n : Grown(f[k - 1], index, f[k])
  BY DEF Chain
<1>1. \A k : Sound(f[k]) => Len(f[k].shapes) \in Nat /\ Rel(k, k)
  <2> TAKE k
  <2> HAVE Sound(f[k])
  <2>1. f[k] \in Tables
    BY DEF Sound
  <2>2. Len(f[k].shapes) \in Nat /\ Extends(f[k], f[k]) /\ Led(f[k], f[k])
    BY <2>1, TablesHave, ExtendsSelf
  <2>3. Len(f[k].shapes) + 1 .. Len(f[k].shapes) = {}
    BY <2>2
  <2> QED
    BY <2>2, <2>3
<1>2. 0 \in S
  <2>1. Sound(f[0])
    BY DEF Chain
  <2>2. \A j \in 0 .. 0 : Rel(j, 0)
    BY <1>1, <2>1
  <2> QED
    BY <2>1, <2>2
<1>3. ASSUME NEW k \in 0 .. n - 1, k \in S PROVE k + 1 \in S
  <2> DEFINE a == f[k]
             b == f[k + 1]
             l == Len(a.shapes)
  <2>1. k + 1 \in 1 .. n /\ (k + 1) - 1 = k /\ k + 1 \in Int
    BY <1>0
  <2>2. Grown(a, index, b)
    BY <1>0, <2>1
  <2>3. Sound(b)
    BY <2>2 DEF Grown
  <2>4. l \in Nat /\ Len(b.shapes) \in Nat
    BY <1>1, <1>3, <2>3
  <2>5. ASSUME NEW j \in 0 .. k PROVE Rel(j, k + 1)
    <3> DEFINE h == Len(f[j].shapes)
    <3>1. /\ Extends(f[j], a) /\ Led(f[j], a) /\ h <= l
          /\ \A i \in h + 1 .. l : a.shapes[i].parent = index \/ a.shapes[i].parent >= h
      BY <1>3
    <3>2. f[j] \in Tables /\ h \in Nat
      BY <3>1, TablesHave DEF Extends
    <3>3. Extends(a, b) /\ Led(a, b) /\ l < Len(b.shapes)
      BY <2>2 DEF Grown
    <3>4. Extends(f[j], b) /\ Led(f[j], b)
      BY <3>1, <3>3, ExtendsTwice, LedTwice
    <3>5. \A i \in 1 .. l : b.shapes[i] = a.shapes[i]
      BY <3>3 DEF Extends
    <3>6. \A i \in l + 1 .. Len(b.shapes) : b.shapes[i].parent = index \/ b.shapes[i].parent >= l
      <4> TAKE i \in l + 1 .. Len(b.shapes)
      <4>1. i = l + 1 \/ i \in l + 2 .. Len(b.shapes)
        BY <2>4
      <4> QED
        BY <2>2, <4>1 DEF Grown
    <3>7. \A i \in l + 1 .. Len(b.shapes) : b.shapes[i].parent \in Int
      <4>1. b \in Tables /\ \A i \in l + 1 .. Len(b.shapes) : i \in 1 .. Len(b.shapes)
        BY <2>3, <2>4 DEF Sound
      <4> QED
        BY <4>1, TablesHave
    <3> HIDE DEF a, b, l, h
    <3>8. ASSUME NEW i \in h + 1 .. Len(b.shapes)
          PROVE  b.shapes[i].parent = index \/ b.shapes[i].parent >= h
      <4>1. CASE i <= l
        <5>1. i \in h + 1 .. l /\ i \in 1 .. l
          BY <2>4, <3>2, <4>1
        <5> QED
          BY <3>1, <3>5, <5>1
      <4>2. CASE i > l
        <5>1. i \in l + 1 .. Len(b.shapes)
          BY <2>4, <3>2, <4>2
        <5>2. (b.shapes[i].parent = index \/ b.shapes[i].parent >= l) /\ b.shapes[i].parent \in Int
          BY <3>6, <3>7, <5>1
        <5> QED
          BY <2>4, <3>1, <3>2, <5>2
      <4> QED
        BY <2>4, <3>2, <4>1, <4>2
    <3>9. h <= Len(b.shapes) /\ h < Len(b.shapes)
      BY <2>4, <3>1, <3>2, <3>3
    <3> QED
      BY <3>4, <3>8, <3>9 DEF a, b, l, h
  <2>6. \A j \in 0 .. k + 1 : Rel(j, k + 1)
    <3> TAKE j \in 0 .. k + 1
    <3>1. j \in 0 .. k \/ j = k + 1
      OBVIOUS
    <3> HIDE DEF Rel
    <3> QED
      BY <1>1, <2>3, <2>5, <3>1
  <2> HIDE DEF Rel
  <2> QED
    BY <2>1, <2>3, <2>6
<1> HIDE DEF Rel
<1>4. \A k \in 0 .. n : k \in S
  <2>1. 0 \in Int /\ n \in Int
    BY <1>0
  <2> HIDE DEF S
  <2> QED
    BY <1>2, <1>3, <2>1, Reaches
<1>5. \A k \in 0 .. n : Sound(f[k]) /\ Len(f[k].shapes) \in Nat /\ \A j \in 0 .. k : Rel(j, k)
  BY <1>1, <1>4
<1> QED
  BY <1>5 DEF Rel

\* Of all the shapes in the tables of the last part, those below the first are the
\* ones the parts begin with.
LEMMA ChainBelow ==
    ASSUME NEW f, NEW n, NEW index, Chain(f, n, index)
    PROVE  \A k \in 0 .. n : \A i \in 1 .. Len(f[k].shapes) :
               f[k].shapes[i].parent = index
                   <=> \E j \in 1 .. k : i = Len(f[j - 1].shapes) + 1
<1> DEFINE Right(k) == \A i \in 1 .. Len(f[k].shapes) :
                           f[k].shapes[i].parent = index
                               <=> \E j \in 1 .. k : i = Len(f[j - 1].shapes) + 1
           S == {k \in Int : Right(k)}
<1>0. n \in Nat /\ index \in Nat /\ \A k \in 1 .. n : Grown(f[k - 1], index, f[k])
  BY DEF Chain
<1>1. \A k \in 0 .. n : /\ Sound(f[k]) /\ Len(f[k].shapes) \in Nat
                        /\ \A j \in 0 .. k : Len(f[j].shapes) <= Len(f[k].shapes)
                                              /\ (j # k => Len(f[j].shapes) < Len(f[k].shapes))
  BY ChainGrows
<1>2. 0 \in S
  <2>1. Sound(f[0]) /\ Len(f[0].shapes) = index + 1 /\ f[0].shapes[index + 1].parent < index
    BY DEF Chain
  <2>2. \A i \in 1 .. index + 1 : f[0].shapes[i].parent < i - 1 /\ f[0].shapes[i].parent \in Int
    <3>1. f[0] \in Tables
      BY <2>1 DEF Sound
    <3> QED
      BY <2>1, <3>1, TablesHave DEF Sound
  <2>3. ASSUME NEW i \in 1 .. Len(f[0].shapes) PROVE f[0].shapes[i].parent # index
    <3>1. i \in 1 .. index + 1
      BY <2>1
    <3>2. f[0].shapes[i].parent < i - 1 /\ f[0].shapes[i].parent \in Int
      BY <2>2, <3>1
    <3> QED
      BY <1>0, <3>1, <3>2
  <2>4. 1 .. 0 = {}
    OBVIOUS
  <2> QED
    BY <2>3, <2>4
<1>3. ASSUME NEW k \in 0 .. n - 1, k \in S PROVE k + 1 \in S
  <2> DEFINE a == f[k]
             b == f[k + 1]
             l == Len(a.shapes)
  <2>1. k + 1 \in 1 .. n /\ (k + 1) - 1 = k /\ k + 1 \in Int /\ k + 1 \in 0 .. n /\ k \in 0 .. n
    BY <1>0
  <2>2. Grown(a, index, b)
    BY <1>0, <2>1
  <2>3. l \in Nat /\ Len(b.shapes) \in Nat /\ l < Len(b.shapes)
    BY <1>1, <2>1, <2>2 DEF Grown
  <2>4. index < l
    <3>1. Len(f[0].shapes) <= l /\ Len(f[0].shapes) = index + 1
      BY <1>1, <2>1 DEF Chain
    <3> QED
      BY <1>0, <2>3, <3>1
  <2>5. \A i \in 1 .. l : b.shapes[i] = a.shapes[i]
    BY <2>2 DEF Grown, Extends
  <2>6. b.shapes[l + 1].parent = index /\ \A i \in l + 2 .. Len(b.shapes) : b.shapes[i].parent >= l
    BY <2>2 DEF Grown
  <2>7. \A i \in 1 .. l : a.shapes[i].parent = index
                              <=> \E j \in 1 .. k : i = Len(f[j - 1].shapes) + 1
    BY <1>3
  <2>8. \A j \in 1 .. k : Len(f[j - 1].shapes) + 1 \in 1 .. l
    <3> TAKE j \in 1 .. k
    <3>0. n \in Nat /\ k \in 0 .. n
      BY <1>0, <2>1
    <3>1. j - 1 \in 0 .. k /\ j - 1 # k /\ j - 1 \in 0 .. n
      BY ONLY <3>0, j \in 1 .. k
    <3>2. Len(f[j - 1].shapes) < l /\ Len(f[j - 1].shapes) \in Nat
      BY <1>1, <2>1, <3>1
    <3> DEFINE h == Len(f[j - 1].shapes)
    <3>3. h < l /\ h \in Nat /\ l \in Nat
      BY <2>3, <3>2
    <3> HIDE DEF h, l
    <3>4. h + 1 \in 1 .. l
      BY <3>3
    <3> QED
      BY <3>4 DEF h
  <2>9. \A j : j \in 1 .. k + 1 <=> j \in 1 .. k \/ j = k + 1
    OBVIOUS
  <2>10. \A i \in l + 2 .. Len(b.shapes) : b.shapes[i].parent \in Int
    <3>1. b \in Tables /\ \A i \in l + 2 .. Len(b.shapes) : i \in 1 .. Len(b.shapes)
      BY <1>1, <2>1, <2>3 DEF Sound
    <3> QED
      BY <3>1, TablesHave
  <2>11. Len(f[(k + 1) - 1].shapes) = l
    BY <2>1
  <2> HIDE DEF a, b, l
  <2>12. ASSUME NEW i \in 1 .. Len(b.shapes)
         PROVE  b.shapes[i].parent = index
                    <=> \E j \in 1 .. k + 1 : i = Len(f[j - 1].shapes) + 1
    <3>1. (\E j \in 1 .. k + 1 : i = Len(f[j - 1].shapes) + 1)
              <=> (\E j \in 1 .. k : i = Len(f[j - 1].shapes) + 1) \/ i = l + 1
      BY <2>9, <2>11
    <3>2. CASE i <= l
      <4>1. i \in 1 .. l /\ i # l + 1
        BY <2>3, <3>2
      <4>2. b.shapes[i].parent = index <=> a.shapes[i].parent = index
        BY <2>5, <4>1
      <4>3. a.shapes[i].parent = index <=> \E j \in 1 .. k : i = Len(f[j - 1].shapes) + 1
        BY <2>7, <4>1
      <4> QED
        BY <3>1, <4>1, <4>2, <4>3
    <3>3. CASE i = l + 1
      BY <2>6, <3>1, <3>3
    <3>4. CASE i > l + 1
      <4>1. i \in l + 2 .. Len(b.shapes) /\ i \notin 1 .. l /\ i # l + 1
        BY <2>3, <3>4
      <4>2. b.shapes[i].parent # index
        BY <1>0, <2>3, <2>4, <2>6, <2>10, <4>1
      <4> QED
        BY <2>8, <3>1, <4>1, <4>2
    <3> QED
      BY <2>3, <3>2, <3>3, <3>4
  <2> QED
    BY <2>1, <2>12 DEF b
<1>4. \A k \in 0 .. n : k \in S
  <2>1. 0 \in Int /\ n \in Int
    BY <1>0
  <2> HIDE DEF S
  <2> QED
    BY <1>2, <1>3, <2>1, Reaches
<1> QED
  BY <1>4

LEMMA FirstStays ==
    ASSUME NEW t, NEW p, NEW e, Grown(t, p, e), NEW T, Extends(e, T)
    PROVE  /\ T.shapes[Len(t.shapes) + 1] = First(t, e)
           /\ Len(t.shapes) + 1 \in 1 .. Len(e.shapes)
           /\ Len(t.shapes) + 1 \in 1 .. Len(T.shapes)
           /\ Len(t.shapes) \in Nat
<1>1. Len(t.shapes) \in Nat /\ Len(e.shapes) \in Nat /\ Len(T.shapes) \in Nat
  <2>1. t \in Tables /\ e \in Tables /\ T \in Tables
    BY DEF Grown, Extends
  <2> QED
    BY <2>1, TablesHave
<1>2. Len(t.shapes) < Len(e.shapes) /\ Len(e.shapes) <= Len(T.shapes)
  BY DEF Grown, Extends
<1>3. Len(t.shapes) + 1 \in 1 .. Len(e.shapes) /\ Len(t.shapes) + 1 \in 1 .. Len(T.shapes)
  BY <1>1, <1>2
<1>4. \A i \in 1 .. Len(e.shapes) : T.shapes[i] = e.shapes[i]
  BY DEF Extends
<1> QED
  BY <1>1, <1>3, <1>4 DEF First

\* In tables that came of all the parts, the children of the shape above them are
\* the shapes the parts begin with, in their order, and what came after a part
\* follows it.
LEMMA ChainFollows ==
    ASSUME NEW f, NEW n, NEW t, NEW T, Chain(f, n, Len(t.shapes)), Follows(t, f[n], T)
    PROVE  /\ Children(Len(t.shapes) + 1, T.shapes) = [k \in 1 .. n |-> Len(f[k - 1].shapes) + 1]
           /\ \A k \in 1 .. n : /\ Follows(f[k - 1], f[k], T)
                                /\ T.shapes[Len(f[k - 1].shapes) + 1] = First(f[k - 1], f[k])
<1> DEFINE index == Len(t.shapes)
           e == f[n]
           c == [k \in 1 .. n |-> Len(f[k - 1].shapes) + 1]
           S == {i \in DOMAIN T.shapes : T.shapes[i].parent = (index + 1) - 1}
<1>0. /\ n \in Nat /\ index \in Nat
      /\ \A k \in 1 .. n : Grown(f[k - 1], index, f[k])
      /\ \A k \in 1 .. n : k - 1 \in 0 .. n /\ k \in 0 .. n
      /\ n \in 0 .. n
  <2>1. n \in Nat /\ index \in Nat /\ \A k \in 1 .. n : Grown(f[k - 1], index, f[k])
    BY DEF Chain
  <2>2. \A k \in 1 .. n : k - 1 \in 0 .. n /\ k \in 0 .. n
    BY <2>1
  <2> QED
    BY <2>1, <2>2
<1>1. /\ Sound(T) /\ Extends(e, T) /\ Led(e, T)
      /\ \A i \in Len(e.shapes) + 1 .. Len(T.shapes) :
             T.shapes[i].parent < index \/ T.shapes[i].parent >= Len(e.shapes)
  BY DEF Follows
<1>2. \A k \in 0 .. n :
          /\ Sound(f[k])
          /\ Len(f[k].shapes) \in Nat
          /\ \A j \in 0 .. k :
                 /\ Extends(f[j], f[k]) /\ Led(f[j], f[k])
                 /\ Len(f[j].shapes) <= Len(f[k].shapes)
                 /\ j # k => Len(f[j].shapes) < Len(f[k].shapes)
                 /\ \A i \in Len(f[j].shapes) + 1 .. Len(f[k].shapes) :
                        \/ f[k].shapes[i].parent = index
                        \/ f[k].shapes[i].parent >= Len(f[j].shapes)
  BY ChainGrows
<1>3. \A i \in 1 .. Len(e.shapes) :
          e.shapes[i].parent = index <=> \E j \in 1 .. n : i = Len(f[j - 1].shapes) + 1
  <2>1. Chain(f, n, index)
    OBVIOUS
  <2> HIDE DEF index
  <2>2. \A k \in 0 .. n : \A i \in 1 .. Len(f[k].shapes) :
            f[k].shapes[i].parent = index <=> \E j \in 1 .. k : i = Len(f[j - 1].shapes) + 1
    BY <2>1, ChainBelow
  <2> QED
    BY <1>0, <2>2
<1>4. /\ Len(T.shapes) \in Nat /\ Len(e.shapes) \in Nat /\ DOMAIN T.shapes = 1 .. Len(T.shapes)
      /\ \A i \in 1 .. Len(T.shapes) : T.shapes[i].parent \in Int
  <2>1. T \in Tables
    BY <1>1 DEF Sound
  <2>2. DOMAIN T.shapes = 1 .. Len(T.shapes)
    BY <2>1, TablesHave, LenProperties
  <2> QED
    BY <1>0, <1>2, <2>1, <2>2, TablesHave
<1>5. /\ Len(e.shapes) <= Len(T.shapes)
      /\ \A i \in 1 .. Len(e.shapes) : T.shapes[i] = e.shapes[i]
  BY <1>1 DEF Extends
<1>6. \A k \in 0 .. n : Len(f[k].shapes) <= Len(e.shapes)
  BY <1>0, <1>2
<1>7. index < Len(e.shapes)
  <2>1. Len(f[0].shapes) = index + 1 /\ 0 \in 0 .. n
    BY <1>0 DEF Chain
  <2> QED
    BY <1>0, <1>4, <1>6, <2>1
<1>8. \A j \in 1 .. n : Len(f[j - 1].shapes) + 1 \in 1 .. Len(e.shapes)
  <2> TAKE j \in 1 .. n
  <2>1. Grown(f[j - 1], index, f[j]) /\ Extends(f[j], e)
    BY <1>0, <1>2
  <2> QED
    BY <2>1, FirstStays
<1> HIDE DEF e, index
<1>9. \A i : i \in S <=> \E j \in 1 .. n : i = c[j]
  <2>1. ASSUME NEW i \in 1 .. Len(T.shapes)
        PROVE  T.shapes[i].parent = index <=> \E j \in 1 .. n : i = Len(f[j - 1].shapes) + 1
    <3>1. CASE i <= Len(e.shapes)
      <4>1. i \in 1 .. Len(e.shapes)
        BY <1>4, <3>1
      <4> QED
        BY <1>3, <1>5, <4>1
    <3>2. CASE i > Len(e.shapes)
      <4>1. i \in Len(e.shapes) + 1 .. Len(T.shapes) /\ i \notin 1 .. Len(e.shapes)
        BY <1>4, <3>2
      <4>2. T.shapes[i].parent # index
        <5>1. T.shapes[i].parent < index \/ T.shapes[i].parent >= Len(e.shapes)
          BY <1>1, <4>1
        <5> QED
          BY <1>0, <1>4, <1>7, <5>1
      <4> QED
        BY <1>8, <4>1, <4>2
    <3> QED
      BY <1>4, <3>1, <3>2
  <2>2. (index + 1) - 1 = index
    BY <1>0
  <2>3. \A j \in 1 .. n : c[j] = Len(f[j - 1].shapes) + 1 /\ c[j] \in 1 .. Len(T.shapes)
    <3> TAKE j \in 1 .. n
    <3>1. Len(f[j - 1].shapes) + 1 \in 1 .. Len(e.shapes)
      BY <1>8
    <3>2. \A x \in 1 .. Len(e.shapes) : x \in 1 .. Len(T.shapes)
      BY <1>4, <1>5
    <3> QED
      BY <3>1, <3>2
  <2>4. \A i : i \in S <=> i \in 1 .. Len(T.shapes) /\ T.shapes[i].parent = index
    BY <1>4, <2>2
  <2> HIDE DEF c, S
  <2> TAKE i
  <2>5. (\E j \in 1 .. n : i = c[j]) <=> (\E j \in 1 .. n : i = Len(f[j - 1].shapes) + 1)
    BY <2>3
  <2>6. (\E j \in 1 .. n : i = c[j]) => i \in 1 .. Len(T.shapes)
    BY <2>3
  <2> QED
    BY ONLY <2>1, <2>4, <2>5, <2>6
<1>10. Children(index + 1, T.shapes) = c
  <2>1. c \in [1 .. n -> Nat]
    <3>1. \A j \in 1 .. n : Len(f[j - 1].shapes) + 1 \in Nat
      BY <1>0, <1>2
    <3> QED
      BY <3>1
  <2>2. Ascends(c)
    <3> SUFFICES ASSUME NEW j \in 1 .. n, NEW k \in 1 .. n, j < k
                 PROVE  Len(f[j - 1].shapes) + 1 < Len(f[k - 1].shapes) + 1
      BY DEF Ascends
    <3>1. j - 1 \in 0 .. k - 1 /\ j - 1 # k - 1 /\ k - 1 \in 0 .. n /\ j - 1 \in 0 .. n
      BY <1>0
    <3>2. Len(f[j - 1].shapes) < Len(f[k - 1].shapes)
      BY <1>2, <3>1
    <3>3. Len(f[j - 1].shapes) \in Nat /\ Len(f[k - 1].shapes) \in Nat
      BY <1>2, <3>1
    <3> QED
      BY <3>2, <3>3
  <2> HIDE DEF c, S
  <2>3. InOrder(S) = c
    BY <1>0, <1>9, <2>1, <2>2, InOrderIs
  <2> QED
    BY <2>3 DEF Children, S
<1>11. ASSUME NEW k \in 1 .. n
       PROVE  /\ Follows(f[k - 1], f[k], T)
              /\ T.shapes[Len(f[k - 1].shapes) + 1] = First(f[k - 1], f[k])
  <2> DEFINE a == f[k - 1]
             b == f[k]
  <2>1. Grown(a, index, b) /\ Extends(b, e) /\ Led(b, e)
    BY <1>0, <1>2 DEF e
  <2>2. Extends(b, T) /\ Led(b, T)
    BY <1>1, <2>1, ExtendsTwice, LedTwice
  <2>3. Len(a.shapes) \in Nat /\ Len(b.shapes) \in Nat /\ Len(b.shapes) <= Len(e.shapes)
    BY <1>0, <1>2, <1>6
  <2>4. index < Len(a.shapes)
    <3>1. Len(f[0].shapes) = index + 1 /\ 0 \in 0 .. k - 1
      BY <1>0 DEF Chain, index
    <3>2. Len(f[0].shapes) <= Len(a.shapes)
      BY <1>0, <1>2, <3>1
    <3> QED
      BY <1>0, <2>3, <3>1, <3>2
  <2>5. \A i \in Len(b.shapes) + 1 .. Len(e.shapes) :
            e.shapes[i].parent = index \/ e.shapes[i].parent >= Len(b.shapes)
    BY <1>0, <1>2 DEF e
  <2> HIDE DEF a, b
  <2>6. ASSUME NEW i \in Len(b.shapes) + 1 .. Len(T.shapes)
        PROVE  T.shapes[i].parent < Len(a.shapes) \/ T.shapes[i].parent >= Len(b.shapes)
    <3>1. i \in 1 .. Len(T.shapes) /\ i \in Nat
      BY <1>4, <2>3
    <3>2. T.shapes[i].parent \in Int
      BY <1>4, <3>1
    <3>3. CASE i <= Len(e.shapes)
      <4>1. i \in Len(b.shapes) + 1 .. Len(e.shapes) /\ i \in 1 .. Len(e.shapes)
        BY <1>4, <2>3, <3>1, <3>3
      <4>2. T.shapes[i].parent = index \/ T.shapes[i].parent >= Len(b.shapes)
        BY <1>5, <2>5, <4>1
      <4> QED
        BY <2>4, <4>2
    <3>4. CASE i > Len(e.shapes)
      <4>1. i \in Len(e.shapes) + 1 .. Len(T.shapes)
        BY <1>4, <3>1, <3>4
      <4>2. T.shapes[i].parent < index \/ T.shapes[i].parent >= Len(e.shapes)
        BY <1>1, <4>1
      <4> QED
        BY <1>0, <1>4, <2>3, <2>4, <3>2, <4>2
    <3> QED
      BY <1>4, <3>1, <3>3, <3>4
  <2>7. T.shapes[Len(a.shapes) + 1] = First(a, b)
    BY <2>1, <2>2, FirstStays
  <2> QED
    BY <1>1, <2>2, <2>6, <2>7 DEF Follows, a, b
<1> QED
  BY <1>10, <1>11 DEF index, c

-----------------------------------------------------------------------------
(* What EncodeGeometry, BuildShape, Normal and PolygonsOf are: no prover expands
   a recursive function, so each is shown to satisfy its own equation. *)

\* The parts of a collection lie one level below it.
LEMMA PartsBelow ==
    \A n \in 0 .. MaxNesting - 1 : \A g \in NestedUpTo[n + 1] : g[1] = "collection" =>
        /\ g[2] \in Seq(NestedUpTo[n])
        /\ Len(g[2]) \in Nat
        /\ DOMAIN g[2] = 1 .. Len(g[2])
        /\ \A k \in 1 .. Len(g[2]) : g[2][k] \in NestedUpTo[n]
<1> SUFFICES ASSUME NEW n \in 0 .. MaxNesting - 1, NEW g \in NestedUpTo[n + 1], g[1] = "collection"
             PROVE  g[2] \in Seq(NestedUpTo[n])
  <2> QED
    BY LenProperties, ElementOfSeq
<1>1. n + 1 \in 0 .. MaxNesting /\ (n + 1) - 1 = n
  BY NestingAssumption
<1>2. g \notin Simple
  <2> SUFFICES ASSUME g \in Simple PROVE FALSE
    OBVIOUS
  <2> QED
    BY SimpleKinds
<1>3. PICK parts : g = <<"collection", parts>> /\ parts \in Seq(NestedUpTo[(n + 1) - 1])
  BY <1>1, <1>2, LevelHas
<1> QED
  BY <1>1, <1>3

\* No simple geometry is a collection.
LEMMA SimpleIsSimple == \A g \in Simple : g[1] # "collection"
BY SimpleKinds

Agree(E, G, g) == g[1] = "collection" => \A k \in 1 .. Len(g[2]) : E[g[2][k]] = G[g[2][k]]

\* The parts of a geometry, one after another.
Parted(E, kind, parts, tables, parent) ==
    CHOOSE encoded : encoded =
        [k \in 0 .. Len(parts) |->
            IF k = 0 THEN PushShape(tables, parent, Len(tables.figures), kind)
            ELSE EncodePart(E, kind, encoded[k - 1], Len(tables.shapes), parts[k])]

EncodesAs(E, g, place) ==
    CASE g[1] = "point"      -> EncodeStroke(place.tables, place.parent, <<g[2]>>, "point")
      [] g[1] = "line"       -> EncodeStroke(place.tables, place.parent, g[2], "linestring")
      [] g[1] = "linestring" -> EncodeLineString(place.tables, place.parent, g[2])
      [] g[1] = "polygon"    -> EncodePolygon(place.tables, place.parent, g[2])
      [] OTHER               -> EncodeParts(E, g[1], g[2], place.tables, place.parent)

LEMMA EncodePartsAre ==
    ASSUME NEW E, NEW kind, NEW parts, NEW t, NEW p
    PROVE  EncodeParts(E, kind, parts, t, p)
           = IF parts = <<>> THEN PushEmptyShape(t, p, kind)
             ELSE Parted(E, kind, parts, t, p)[Len(parts)]
BY DEF EncodeParts, Parted

LEMMA PartedIs ==
    ASSUME NEW E, NEW kind, NEW parts, NEW t, NEW p, Len(parts) \in Nat
    PROVE  /\ Parted(E, kind, parts, t, p)[0] = PushShape(t, p, Len(t.figures), kind)
           /\ \A k \in 1 .. Len(parts) :
                  Parted(E, kind, parts, t, p)[k]
                      = EncodePart(E, kind, Parted(E, kind, parts, t, p)[k - 1], Len(t.shapes),
                                    parts[k])
<1> DEFINE n == Len(parts)
           Rule(f, k) == IF k = 0 THEN PushShape(t, p, Len(t.figures), kind)
                         ELSE EncodePart(E, kind, f[k - 1], Len(t.shapes), parts[k])
           S == {m \in Nat : \E f : f = [k \in 0 .. m |-> Rule(f, k)]}
<1>1. 0 \in S
  <2> DEFINE f == [k \in 0 .. 0 |-> PushShape(t, p, Len(t.figures), kind)]
  <2>1. f = [k \in 0 .. 0 |-> Rule(f, k)]
    OBVIOUS
  <2> HIDE DEF f
  <2> QED
    BY <2>1
<1>2. ASSUME NEW m \in 0 .. n - 1, m \in S PROVE m + 1 \in S
  <2>1. PICK f : f = [k \in 0 .. m |-> Rule(f, k)]
    BY <1>2
  <2> DEFINE g == [k \in 0 .. m + 1 |-> IF k <= m THEN f[k] ELSE Rule(f, k)]
  <2>2. ASSUME NEW k \in 0 .. m + 1 PROVE g[k] = Rule(g, k)
    <3>1. k # 0 => g[k - 1] = f[k - 1]
      OBVIOUS
    <3>2. Rule(g, k) = Rule(f, k)
      BY <3>1
    <3>3. k <= m => f[k] = Rule(f, k)
      <4> HIDE DEF Rule
      <4> QED
        BY <2>1
    <3> HIDE DEF Rule
    <3> QED
      BY <3>2, <3>3
  <2>3. g = [k \in 0 .. m + 1 |-> Rule(g, k)]
    <3> HIDE DEF Rule
    <3> QED
      BY <2>2
  <2> HIDE DEF g
  <2> QED
    BY <2>3
<1>3. n \in S
  <2>1. 0 \in Int /\ n \in Int /\ n \in 0 .. n
    OBVIOUS
  <2> HIDE DEF S
  <2>2. \A m \in 0 .. n : m \in S
    BY <1>1, <1>2, <2>1, Reaches
  <2> QED
    BY <2>1, <2>2
<1> DEFINE q == Parted(E, kind, parts, t, p)
<1>4. q = [k \in 0 .. n |-> Rule(q, k)]
  BY <1>3 DEF Parted
<1> HIDE DEF q, Rule
<1>5. \A k \in 0 .. n : q[k] = Rule(q, k)
  BY <1>4
<1>6. q[0] = Rule(q, 0)
  BY <1>5
<1>7. \A k \in 1 .. n : q[k] = Rule(q, k) /\ k # 0
  BY <1>5
<1> QED
  BY <1>6, <1>7 DEF q, Rule

LEMMA PartedDepends ==
    ASSUME NEW E, NEW G, NEW kind, NEW parts, NEW t, NEW p, Len(parts) \in Nat,
           kind = "collection" => \A k \in 1 .. Len(parts) : E[parts[k]] = G[parts[k]]
    PROVE  Parted(E, kind, parts, t, p) = Parted(G, kind, parts, t, p)
<1> DEFINE Rule(H, f, k) == IF k = 0 THEN PushShape(t, p, Len(t.figures), kind)
                            ELSE EncodePart(H, kind, f[k - 1], Len(t.shapes), parts[k])
<1>1. ASSUME NEW f, NEW k \in 0 .. Len(parts) PROVE Rule(E, f, k) = Rule(G, f, k)
  <2>1. CASE k = 0
    BY <2>1
  <2>2. CASE k # 0
    <3>1. k \in 1 .. Len(parts)
      BY <2>2
    <3>2. EncodePart(E, kind, f[k - 1], Len(t.shapes), parts[k])
          = EncodePart(G, kind, f[k - 1], Len(t.shapes), parts[k])
      <4>1. CASE kind = "collection"
        BY <3>1, <4>1 DEF EncodePart
      <4>2. CASE kind # "collection"
        BY <4>2 DEF EncodePart
      <4> QED
        BY <4>1, <4>2
    <3> QED
      BY <2>2, <3>2
  <2> QED
    BY <2>1, <2>2
<1>2. /\ Parted(E, kind, parts, t, p) = CHOOSE f : f = [k \in 0 .. Len(parts) |-> Rule(E, f, k)]
      /\ Parted(G, kind, parts, t, p) = CHOOSE f : f = [k \in 0 .. Len(parts) |-> Rule(G, f, k)]
  BY DEF Parted
<1> HIDE DEF Rule
<1>3. \A f : (f = [k \in 0 .. Len(parts) |-> Rule(E, f, k)])
                 <=> (f = [k \in 0 .. Len(parts) |-> Rule(G, f, k)])
  <2> TAKE f
  <2>1. [k \in 0 .. Len(parts) |-> Rule(E, f, k)] = [k \in 0 .. Len(parts) |-> Rule(G, f, k)]
    BY <1>1
  <2> QED
    BY <2>1
<1>4. (CHOOSE f : f = [k \in 0 .. Len(parts) |-> Rule(E, f, k)])
      = (CHOOSE f : f = [k \in 0 .. Len(parts) |-> Rule(G, f, k)])
  BY <1>3
<1> QED
  BY <1>2, <1>4

LEMMA EncodesDepends ==
    ASSUME NEW n \in 0 .. MaxNesting, NEW g \in NestedUpTo[n], NEW E, NEW G, Agree(E, G, g), NEW place
    PROVE  EncodesAs(E, g, place) = EncodesAs(G, g, place)
<1>1. CASE g[1] \in {"point", "line", "linestring", "polygon"}
  BY <1>1 DEF EncodesAs
<1>2. CASE g[1] \notin {"point", "line", "linestring", "polygon"}
  <2>1. Len(g[2]) \in Nat
    <3>1. CASE g \in Simple
      <4>1. \/ \E points \in Seq(Nat) : g = <<"multipoint", points>>
            \/ \E lines \in Seq(Seq(Nat)) : g = <<"multilinestring", lines>>
            \/ \E polygons \in Seq(PolygonType) : g = <<"multipolygon", polygons>>
        BY <1>2, <3>1, SimpleKinds
      <4> QED
        BY <4>1, LenProperties
    <3>2. CASE g \notin Simple
      <4>1. PICK parts : g = <<"collection", parts>> /\ parts \in Seq(NestedUpTo[n - 1])
        BY <3>2, LevelHas
      <4> QED
        BY <4>1, LenProperties
    <3> QED
      BY <3>1, <3>2
  <2>2. Parted(E, g[1], g[2], place.tables, place.parent)
        = Parted(G, g[1], g[2], place.tables, place.parent)
    BY <2>1, PartedDepends DEF Agree
  <2> QED
    BY <1>2, <2>2, EncodePartsAre DEF EncodesAs
<1> QED
  BY <1>1, <1>2

LEMMA EncodeGeometryIs ==
    EncodeGeometry = [g \in Geometries |-> [place \in Places |-> EncodesAs(EncodeGeometry, g, place)]]
<1> DEFINE Rule(E, g) == [place \in Places |-> EncodesAs(E, g, place)]
           L(n) == NestedUpTo[n]
           S == {n \in Int : \E E : E = [g \in L(n) |-> Rule(E, g)]}
<1>0. MaxNesting \in Nat
  BY NestingAssumption
<1>1. 0 \in S
  <2> DEFINE E == [g \in L(0) |-> Rule(0, g)]
  <2>1. ASSUME NEW g \in L(0) PROVE Rule(0, g) = Rule(E, g)
    <3>1. g \in Simple
      BY LevelAbove
    <3>2. Agree(0, E, g) /\ 0 \in 0 .. MaxNesting
      BY <1>0, <3>1, SimpleIsSimple DEF Agree
    <3> HIDE DEF E
    <3>3. \A place : EncodesAs(0, g, place) = EncodesAs(E, g, place)
      BY <3>2, EncodesDepends
    <3> QED
      BY <3>3
  <2>2. E = [g \in L(0) |-> Rule(E, g)]
    <3> HIDE DEF Rule, L
    <3> QED
      BY <2>1
  <2> HIDE DEF E, Rule, L
  <2> QED
    BY <2>2
<1>2. ASSUME NEW n \in 0 .. MaxNesting - 1, n \in S PROVE n + 1 \in S
  <2>0. n + 1 \in 0 .. MaxNesting /\ n + 1 \in Int
    BY <1>0
  <2>1. PICK E : E = [g \in L(n) |-> Rule(E, g)]
    BY <1>2
  <2> DEFINE G == [g \in L(n + 1) |-> IF g \in L(n) THEN E[g] ELSE Rule(E, g)]
  <2>2. \A g \in L(n) : g \in L(n + 1)
    BY LevelAbove
  <2>3. \A g \in L(n) : G[g] = E[g]
    <3> HIDE DEF Rule, L
    <3> QED
      BY <2>2
  <2>4. \A g \in L(n) : E[g] = Rule(E, g)
    <3> HIDE DEF Rule, L
    <3> QED
      BY <2>1
  <2>5. \A g \in L(n + 1) : G[g] = Rule(E, g)
    <3> HIDE DEF Rule, L
    <3> QED
      BY <2>4
  <2> HIDE DEF G
  <2>6. ASSUME NEW g \in L(n + 1) PROVE Rule(E, g) = Rule(G, g)
    <3>1. Agree(E, G, g)
      BY <2>3, PartsBelow DEF Agree
    <3>2. \A place : EncodesAs(E, g, place) = EncodesAs(G, g, place)
      BY <2>0, <3>1, EncodesDepends
    <3> QED
      BY <3>2
  <2>7. G = [g \in L(n + 1) |-> Rule(G, g)]
    <3> HIDE DEF Rule, L
    <3>1. G = [g \in L(n + 1) |-> G[g]]
      BY DEF G
    <3> QED
      BY <2>5, <2>6, <3>1
  <2> HIDE DEF Rule, L
  <2> QED
    BY <2>0, <2>7
<1>3. \A n \in 0 .. MaxNesting : n \in S
  <2>1. 0 \in Int /\ MaxNesting \in Int
    BY <1>0
  <2> HIDE DEF S
  <2> QED
    BY <1>1, <1>2, <2>1, Reaches
<1>4. \E E : E = [g \in Geometries |-> Rule(E, g)]
  <2>1. MaxNesting \in S
    BY <1>0, <1>3
  <2> HIDE DEF Rule
  <2> QED
    BY <2>1 DEF Geometries
<1>5. EncodeGeometry = CHOOSE E : E = [g \in Geometries |-> Rule(E, g)]
  BY DEF EncodeGeometry, EncodesAs
<1> HIDE DEF Rule
<1>6. EncodeGeometry = [g \in Geometries |-> Rule(EncodeGeometry, g)]
  BY <1>4, <1>5
<1> QED
  BY <1>6 DEF Rule

ShapesOf(T) == CHOOSE build : build = [index \in DOMAIN T.shapes |-> ShapeAt(index, T, build)]

\* The children of a shape come after it.
LEMMA ChildrenComeAfter ==
    ASSUME NEW T, Sound(T), NEW i \in 1 .. Len(T.shapes)
    PROVE  \A k \in DOMAIN Children(i, T.shapes) : Children(i, T.shapes)[k] \in i + 1 .. Len(T.shapes)
<1> DEFINE n == Len(T.shapes)
           S == {c \in DOMAIN T.shapes : T.shapes[c].parent = i - 1}
<1>1. n \in Nat /\ DOMAIN T.shapes = 1 .. n
  <2>1. T \in Tables
    BY DEF Sound
  <2> QED
    BY <2>1, TablesHave, LenProperties
<1>2. \A c \in S : c \in i + 1 .. n
  <2> TAKE c \in S
  <2>1. c \in 1 .. n /\ T.shapes[c].parent = i - 1
    BY <1>1
  <2>2. T.shapes[c].parent < c - 1
    BY <2>1 DEF Sound
  <2> HIDE DEF S, n
  <2> QED
    BY <1>1, <2>1, <2>2
<1>3. S \in SUBSET (1 .. n)
  BY <1>1
<1> HIDE DEF S
<1>4. InOrder(S) \in [1 .. Cardinality(S) -> S]
  BY <1>1, <1>3, InOrderLists
<1>5. Children(i, T.shapes) = InOrder(S)
  BY DEF Children, S
<1> QED
  BY <1>2, <1>4, <1>5

LEMMA ShapeAtDepends ==
    ASSUME NEW T, Sound(T), NEW i \in 1 .. Len(T.shapes), NEW b, NEW d,
           \A c \in i + 1 .. Len(T.shapes) : b[c] = d[c]
    PROVE  ShapeAt(i, T, b) = ShapeAt(i, T, d)
<1>1. \A k \in DOMAIN Children(i, T.shapes) :
          b[Children(i, T.shapes)[k]] = d[Children(i, T.shapes)[k]]
  BY ChildrenComeAfter
<1>2. [k \in DOMAIN Children(i, T.shapes) |-> b[Children(i, T.shapes)[k]]]
      = [k \in DOMAIN Children(i, T.shapes) |-> d[Children(i, T.shapes)[k]]]
  BY <1>1
<1> QED
  BY <1>2, Zenon DEF ShapeAt

LEMMA BuildShapeIs ==
    ASSUME NEW T, Sound(T), NEW i \in 1 .. Len(T.shapes)
    PROVE  /\ BuildShape(i, T) = ShapesOf(T)[i]
           /\ BuildShape(i, T) = ShapeAt(i, T, ShapesOf(T))
<1> DEFINE n == Len(T.shapes)
           From(m) == {x \in 1 .. n : x > n - m}
           S == {m \in Int : \E f : f = [x \in From(m) |-> ShapeAt(x, T, f)]}
<1>0. n \in Nat /\ DOMAIN T.shapes = 1 .. n
  <2>1. T \in Tables
    BY DEF Sound
  <2> QED
    BY <2>1, TablesHave, LenProperties
<1>1. 0 \in S
  <2> DEFINE f == [x \in From(0) |-> 0]
  <2>1. From(0) = {}
    BY <1>0
  <2>2. f = [x \in From(0) |-> ShapeAt(x, T, f)]
    BY <2>1
  <2> HIDE DEF f, From
  <2>3. 0 \in Int
    OBVIOUS
  <2> QED
    BY <2>2, <2>3
<1>2. ASSUME NEW m \in 0 .. n - 1, m \in S PROVE m + 1 \in S
  <2>1. PICK f : f = [x \in From(m) |-> ShapeAt(x, T, f)]
    BY <1>2
  <2> DEFINE g == [x \in From(m + 1) |-> IF x \in From(m) THEN f[x] ELSE ShapeAt(x, T, f)]
  <2>2. \A x \in From(m) : x \in From(m + 1)
    BY <1>0
  <2>3. \A x \in From(m + 1) : \A c \in x + 1 .. n : c \in From(m)
    BY <1>0
  <2>4. \A x \in From(m + 1) : x \in 1 .. Len(T.shapes)
    OBVIOUS
  <2> HIDE DEF From, n
  <2>5. \A x \in From(m) : f[x] = ShapeAt(x, T, f)
    BY <2>1
  <2>6. \A x \in From(m + 1) : g[x] = ShapeAt(x, T, f)
    BY <2>5
  <2>7. \A x \in From(m) : g[x] = f[x]
    BY <2>2
  <2>8. g = [x \in From(m + 1) |-> g[x]]
    OBVIOUS
  <2> HIDE DEF g
  <2>9. ASSUME NEW x \in From(m + 1) PROVE ShapeAt(x, T, f) = ShapeAt(x, T, g)
    <3>1. \A c \in x + 1 .. Len(T.shapes) : f[c] = g[c]
      BY <2>3, <2>7 DEF n
    <3> QED
      BY <2>4, <3>1, ShapeAtDepends
  <2>10. g = [x \in From(m + 1) |-> ShapeAt(x, T, g)]
    BY <2>6, <2>8, <2>9
  <2>11. m + 1 \in Int
    OBVIOUS
  <2> QED
    BY <2>10, <2>11
<1>3. \A m \in 0 .. n : m \in S
  <2>1. 0 \in Int /\ n \in Int
    BY <1>0
  <2> HIDE DEF S
  <2> QED
    BY <1>1, <1>2, <2>1, Reaches
<1>4. \E f : f = [x \in DOMAIN T.shapes |-> ShapeAt(x, T, f)]
  <2>1. n \in S
    <3> HIDE DEF S, n
    <3>1. n \in 0 .. n
      BY <1>0
    <3> QED
      BY <1>3, <3>1
  <2>2. From(n) = DOMAIN T.shapes
    BY <1>0
  <2> HIDE DEF From
  <2> QED
    BY <2>1, <2>2
<1>5. ShapesOf(T) = [x \in DOMAIN T.shapes |-> ShapeAt(x, T, ShapesOf(T))]
  BY <1>4 DEF ShapesOf
<1>6. BuildShape(i, T) = ShapesOf(T)[i]
  BY DEF BuildShape, ShapesOf
<1> QED
  BY <1>0, <1>5, <1>6

NormalOf(N, g) ==
    CASE g[1] = "line"         -> <<"linestring", g[2]>>
      [] g[1] = "polygon"      -> <<g[1], NormalPolygon(g[2])>>
      [] g[1] = "multipolygon" -> <<g[1], [i \in DOMAIN g[2] |-> NormalPolygon(g[2][i])]>>
      [] g[1] \in {"point", "linestring", "multipoint", "multilinestring"} -> g
      [] OTHER                 -> <<g[1], [i \in DOMAIN g[2] |-> N[g[2][i]]]>>

AllPolygons(P, g) ==
    CASE g[1] = "polygon"      -> {g[2]}
      [] g[1] = "multipolygon" -> Range(g[2])
      [] g[1] \notin {"polygon", "multipolygon", "collection"} -> {}
      [] OTHER                 -> UNION {P[h] : h \in Range(g[2])}

\* The parts of a collection, from either end of the levels.
LEMMA CollectionHas ==
    ASSUME NEW n \in 0 .. MaxNesting, NEW g \in NestedUpTo[n], g[1] = "collection"
    PROVE  DOMAIN g[2] = 1 .. Len(g[2])
<1>1. g \notin Simple
  BY SimpleIsSimple
<1>2. PICK parts : g = <<"collection", parts>> /\ parts \in Seq(NestedUpTo[n - 1])
  BY <1>1, LevelHas
<1> QED
  BY <1>2, LenProperties

LEMMA NormalOfDepends ==
    ASSUME NEW n \in 0 .. MaxNesting, NEW g \in NestedUpTo[n], NEW E, NEW G, Agree(E, G, g)
    PROVE  NormalOf(E, g) = NormalOf(G, g)
<1>1. CASE g[1] = "collection"
  <2>1. \A i \in DOMAIN g[2] : E[g[2][i]] = G[g[2][i]]
    BY <1>1, CollectionHas DEF Agree
  <2>2. [i \in DOMAIN g[2] |-> E[g[2][i]]] = [i \in DOMAIN g[2] |-> G[g[2][i]]]
    BY <2>1
  <2> QED
    BY <1>1, <2>2 DEF NormalOf
<1>2. CASE g[1] # "collection"
  <2>1. g \in Simple
    BY <1>2, LevelHas
  <2>2. g[1] \in {"line", "polygon", "multipolygon", "point", "linestring", "multipoint",
                  "multilinestring"}
    BY <2>1, SimpleKinds
  <2> QED
    BY <1>2, <2>2 DEF NormalOf
<1> QED
  BY <1>1, <1>2

LEMMA AllPolygonsDepends ==
    ASSUME NEW n \in 0 .. MaxNesting, NEW g \in NestedUpTo[n], NEW E, NEW G, Agree(E, G, g)
    PROVE  AllPolygons(E, g) = AllPolygons(G, g)
<1>1. CASE g[1] = "collection"
  <2>1. \A h \in Range(g[2]) : E[h] = G[h]
    BY <1>1, CollectionHas DEF Agree, Range
  <2>2. {E[h] : h \in Range(g[2])} = {G[h] : h \in Range(g[2])}
    BY <2>1
  <2> QED
    BY <1>1, <2>2 DEF AllPolygons
<1>2. CASE g[1] # "collection"
  BY <1>2 DEF AllPolygons
<1> QED
  BY <1>1, <1>2

LEMMA NormalIs == Normal = [g \in Geometries |-> NormalOf(Normal, g)]
<1> DEFINE L(n) == NestedUpTo[n]
           S == {n \in Int : \E E : E = [g \in L(n) |-> NormalOf(E, g)]}
<1>0. MaxNesting \in Nat
  BY NestingAssumption
<1>1. 0 \in S
  <2> DEFINE E == [g \in L(0) |-> NormalOf(0, g)]
  <2>1. \A g \in L(0) : NormalOf(0, g) = NormalOf(E, g)
    <3> TAKE g \in L(0)
    <3>1. Agree(0, E, g) /\ 0 \in 0 .. MaxNesting
      BY <1>0, LevelAbove, SimpleIsSimple DEF Agree
    <3> HIDE DEF E
    <3> QED
      BY <3>1, NormalOfDepends
  <2>2. E = [g \in L(0) |-> NormalOf(E, g)]
    <3> HIDE DEF L
    <3> QED
      BY <2>1
  <2> HIDE DEF E, L
  <2> QED
    BY <2>2
<1>2. ASSUME NEW n \in 0 .. MaxNesting - 1, n \in S PROVE n + 1 \in S
  <2>0. n + 1 \in 0 .. MaxNesting /\ n + 1 \in Int
    BY <1>0
  <2>1. PICK E : E = [g \in L(n) |-> NormalOf(E, g)]
    BY <1>2
  <2> DEFINE G == [g \in L(n + 1) |-> IF g \in L(n) THEN E[g] ELSE NormalOf(E, g)]
  <2>2. \A g \in L(n) : g \in L(n + 1)
    BY LevelAbove
  <2>3. \A g \in L(n) : G[g] = E[g]
    <3> HIDE DEF L
    <3> QED
      BY <2>2
  <2>4. \A g \in L(n) : E[g] = NormalOf(E, g)
    <3> HIDE DEF L
    <3> QED
      BY <2>1
  <2>5. \A g \in L(n + 1) : G[g] = NormalOf(E, g)
    <3> HIDE DEF L
    <3> QED
      BY <2>4
  <2> HIDE DEF G
  <2>6. \A g \in L(n + 1) : NormalOf(E, g) = NormalOf(G, g)
    <3> TAKE g \in L(n + 1)
    <3>1. Agree(E, G, g)
      BY <2>3, PartsBelow DEF Agree
    <3> QED
      BY <2>0, <3>1, NormalOfDepends
  <2>7. G = [g \in L(n + 1) |-> NormalOf(G, g)]
    <3> HIDE DEF L
    <3>1. G = [g \in L(n + 1) |-> G[g]]
      BY DEF G
    <3> QED
      BY <2>5, <2>6, <3>1
  <2> HIDE DEF L
  <2> QED
    BY <2>0, <2>7
<1>3. \A n \in 0 .. MaxNesting : n \in S
  <2>1. 0 \in Int /\ MaxNesting \in Int
    BY <1>0
  <2> HIDE DEF S
  <2> QED
    BY <1>1, <1>2, <2>1, Reaches
<1>4. \E E : E = [g \in Geometries |-> NormalOf(E, g)]
  <2>1. MaxNesting \in S
    BY <1>0, <1>3
  <2> QED
    BY <2>1 DEF Geometries
<1>5. Normal = CHOOSE E : E = [g \in Geometries |-> NormalOf(E, g)]
  BY DEF Normal, NormalOf
<1> QED
  BY <1>4, <1>5

LEMMA PolygonsOfIs == PolygonsOf = [g \in Geometries |-> AllPolygons(PolygonsOf, g)]
<1> DEFINE L(n) == NestedUpTo[n]
           S == {n \in Int : \E E : E = [g \in L(n) |-> AllPolygons(E, g)]}
<1>0. MaxNesting \in Nat
  BY NestingAssumption
<1>1. 0 \in S
  <2> DEFINE E == [g \in L(0) |-> AllPolygons(0, g)]
  <2>1. \A g \in L(0) : AllPolygons(0, g) = AllPolygons(E, g)
    <3> TAKE g \in L(0)
    <3>1. Agree(0, E, g) /\ 0 \in 0 .. MaxNesting
      BY <1>0, LevelAbove, SimpleIsSimple DEF Agree
    <3> HIDE DEF E
    <3> QED
      BY <3>1, AllPolygonsDepends
  <2>2. E = [g \in L(0) |-> AllPolygons(E, g)]
    <3> HIDE DEF L
    <3> QED
      BY <2>1
  <2> HIDE DEF E, L
  <2> QED
    BY <2>2
<1>2. ASSUME NEW n \in 0 .. MaxNesting - 1, n \in S PROVE n + 1 \in S
  <2>0. n + 1 \in 0 .. MaxNesting /\ n + 1 \in Int
    BY <1>0
  <2>1. PICK E : E = [g \in L(n) |-> AllPolygons(E, g)]
    BY <1>2
  <2> DEFINE G == [g \in L(n + 1) |-> IF g \in L(n) THEN E[g] ELSE AllPolygons(E, g)]
  <2>2. \A g \in L(n) : g \in L(n + 1)
    BY LevelAbove
  <2>3. \A g \in L(n) : G[g] = E[g]
    <3> HIDE DEF L
    <3> QED
      BY <2>2
  <2>4. \A g \in L(n) : E[g] = AllPolygons(E, g)
    <3> HIDE DEF L
    <3> QED
      BY <2>1
  <2>5. \A g \in L(n + 1) : G[g] = AllPolygons(E, g)
    <3> HIDE DEF L
    <3> QED
      BY <2>4
  <2> HIDE DEF G
  <2>6. \A g \in L(n + 1) : AllPolygons(E, g) = AllPolygons(G, g)
    <3> TAKE g \in L(n + 1)
    <3>1. Agree(E, G, g)
      BY <2>3, PartsBelow DEF Agree
    <3> QED
      BY <2>0, <3>1, AllPolygonsDepends
  <2>7. G = [g \in L(n + 1) |-> AllPolygons(G, g)]
    <3> HIDE DEF L
    <3>1. G = [g \in L(n + 1) |-> G[g]]
      BY DEF G
    <3> QED
      BY <2>5, <2>6, <3>1
  <2> HIDE DEF L
  <2> QED
    BY <2>0, <2>7
<1>3. \A n \in 0 .. MaxNesting : n \in S
  <2>1. 0 \in Int /\ MaxNesting \in Int
    BY <1>0
  <2> HIDE DEF S
  <2> QED
    BY <1>1, <1>2, <2>1, Reaches
<1>4. \E E : E = [g \in Geometries |-> AllPolygons(E, g)]
  <2>1. MaxNesting \in S
    BY <1>0, <1>3
  <2> QED
    BY <2>1 DEF Geometries
<1>5. PolygonsOf = CHOOSE E : E = [g \in Geometries |-> AllPolygons(E, g)]
  BY DEF PolygonsOf, AllPolygons
<1> QED
  BY <1>4, <1>5

-----------------------------------------------------------------------------
(* The shape of a whole is read with its parts. *)

\* Parts that each grow on what came before are a chain.
LEMMA ChainIs ==
    ASSUME NEW f, NEW n \in Nat, NEW t, NEW p, NEW kind, Single(t, p, kind, f[0]), p < Len(t.shapes),
           \A k \in 1 .. n : Sound(f[k - 1]) /\ Len(t.shapes) < Len(f[k - 1].shapes)
                                 => Grown(f[k - 1], Len(t.shapes), f[k])
    PROVE  /\ Chain(f, n, Len(t.shapes))
           /\ \A k \in 1 .. n : Sound(f[k - 1]) /\ Len(t.shapes) < Len(f[k - 1].shapes)
<1> DEFINE index == Len(t.shapes)
           S == {k \in Int : Sound(f[k]) /\ index < Len(f[k].shapes)}
<1>1. /\ Sound(f[0]) /\ Len(f[0].shapes) = index + 1 /\ f[0].shapes[index + 1].parent = p
      /\ t \in Tables
  BY DEF Single, Grown, Extends
<1>2. index \in Nat
  BY <1>1, TablesHave
<1>3. 0 \in S
  BY <1>1, <1>2
<1>4. ASSUME NEW k \in 0 .. n - 1, k \in S PROVE k + 1 \in S
  <2>1. k + 1 \in 1 .. n /\ (k + 1) - 1 = k /\ k + 1 \in Int
    OBVIOUS
  <2>2. Sound(f[k]) /\ index < Len(f[k].shapes)
    BY <1>4
  <2>3. Grown(f[k], index, f[k + 1])
    BY <2>1, <2>2
  <2>4. Sound(f[k + 1]) /\ Len(f[k].shapes) < Len(f[k + 1].shapes)
    BY <2>3 DEF Grown
  <2>5. Len(f[k].shapes) \in Nat /\ Len(f[k + 1].shapes) \in Nat
    BY <2>2, <2>4, TablesHave DEF Sound
  <2>6. index < Len(f[k + 1].shapes)
    BY <1>2, <2>2, <2>4, <2>5
  <2> QED
    BY <2>1, <2>4, <2>6
<1>5. \A k \in 0 .. n : k \in S
  <2>1. 0 \in Int /\ n \in Int
    OBVIOUS
  <2> HIDE DEF S
  <2> QED
    BY <1>3, <1>4, <2>1, Reaches
<1>6. \A k \in 1 .. n : Sound(f[k - 1]) /\ index < Len(f[k - 1].shapes)
  <2> TAKE k \in 1 .. n
  <2>1. k - 1 \in 0 .. n
    OBVIOUS
  <2> QED
    BY <1>5, <2>1
<1>7. Chain(f, n, index)
  <2>1. \A k \in 1 .. n : Grown(f[k - 1], index, f[k])
    BY <1>6
  <2>2. f[0].shapes[index + 1].parent < index
    BY <1>1
  <2> HIDE DEF index
  <2> QED
    BY <1>1, <1>2, <2>1, <2>2 DEF Chain
<1> QED
  BY <1>6, <1>7

\* A shape with its parts is as good as a shape alone.
LEMMA ChainIsGrown ==
    ASSUME NEW f, NEW n, NEW t, NEW p, NEW kind, Single(t, p, kind, f[0]), Chain(f, n, Len(t.shapes))
    PROVE  /\ Grown(t, p, f[n])
           /\ First(t, f[n]).type = kind
<1> DEFINE index == Len(t.shapes)
           e == f[n]
<1>1. /\ Extends(t, f[0]) /\ Led(t, f[0]) /\ t \in Tables
      /\ Len(f[0].shapes) = index + 1
      /\ f[0].shapes[index + 1].parent = p /\ f[0].shapes[index + 1].type = kind
  BY DEF Single, Grown, Extends, First
<1>2. n \in Nat /\ 0 \in 0 .. n /\ n \in 0 .. n /\ index \in Nat
  <2>1. n \in Nat /\ index \in Nat
    BY DEF Chain
  <2> QED
    BY <2>1
<1>3. /\ Sound(e) /\ Len(e.shapes) \in Nat
      /\ Extends(f[0], e) /\ Led(f[0], e)
      /\ Len(f[0].shapes) <= Len(e.shapes)
      /\ \A i \in Len(f[0].shapes) + 1 .. Len(e.shapes) :
             e.shapes[i].parent = index \/ e.shapes[i].parent >= Len(f[0].shapes)
  <2> HIDE DEF index
  <2>1. Chain(f, n, index)
    BY DEF index
  <2> QED
    BY <1>2, <2>1, ChainGrows
<1> HIDE DEF e, index
<1>4. Extends(t, e) /\ Led(t, e)
  BY <1>1, <1>3, ExtendsTwice, LedTwice
<1>5. e.shapes[index + 1] = f[0].shapes[index + 1]
  <2>1. index + 1 \in 1 .. Len(f[0].shapes)
    BY <1>1, <1>2
  <2> QED
    BY <1>3, <2>1 DEF Extends
<1>6. \A i \in index + 2 .. Len(e.shapes) : e.shapes[i].parent >= index
  <2> TAKE i \in index + 2 .. Len(e.shapes)
  <2>1. i \in Len(f[0].shapes) + 1 .. Len(e.shapes) /\ i \in 1 .. Len(e.shapes)
    BY <1>1, <1>2
  <2>2. e.shapes[i].parent = index \/ e.shapes[i].parent >= index + 1
    BY <1>1, <1>3, <2>1
  <2>3. e.shapes[i].parent \in Int
    BY <1>3, <2>1, TablesHave DEF Sound
  <2> QED
    BY <1>2, <2>2, <2>3
<1>7. index < Len(e.shapes)
  BY <1>1, <1>2, <1>3
<1> QED
  BY <1>1, <1>3, <1>4, <1>5, <1>6, <1>7 DEF Grown, First, e, index

\* What EncodeParts does, part by part.
LEMMA PartsAre ==
    ASSUME NEW t, Sound(t), NEW p \in Int, p < Len(t.shapes), NEW kind \in ShapeTypes, NEW E,
           NEW X, NEW parts \in Seq(X)
    PROVE  \E f : /\ EncodeParts(E, kind, parts, t, p) = f[Len(parts)]
                  /\ Single(t, p, kind, f[0])
                  /\ \A k \in 1 .. Len(parts) :
                         f[k] = EncodePart(E, kind, f[k - 1], Len(t.shapes), parts[k])
<1>1. Len(parts) \in Nat
  BY LenProperties
<1>2. CASE parts = <<>>
  <2> DEFINE f == [k \in 0 .. 0 |-> PushEmptyShape(t, p, kind)]
  <2>1. Single(t, p, kind, f[0])
    BY EncodesEmpty
  <2>2. Len(parts) = 0
    BY <1>2
  <2>3. EncodeParts(E, kind, parts, t, p) = f[Len(parts)]
    BY <1>2, <2>2, EncodePartsAre
  <2> HIDE DEF f
  <2>4. \A k \in 1 .. Len(parts) :
            f[k] = EncodePart(E, kind, f[k - 1], Len(t.shapes), parts[k])
    BY <2>2
  <2> QED
    BY <2>1, <2>3, <2>4
<1>3. CASE parts # <<>>
  <2> DEFINE f == Parted(E, kind, parts, t, p)
  <2>1. f[0] = PushShape(t, p, Len(t.figures), kind)
    BY <1>1, PartedIs
  <2>2. Single(t, p, kind, f[0])
    <3>1. Extends(t, t) /\ Led(t, t) /\ Len(t.figures) \in Int
      BY ExtendsSelf, TablesHave DEF Sound
    <3> HIDE DEF f
    <3> QED
      BY <2>1, <3>1, ShapeIsSingle
  <2>3. EncodeParts(E, kind, parts, t, p) = f[Len(parts)]
    BY <1>3, EncodePartsAre
  <2>4. \A k \in 1 .. Len(parts) :
            f[k] = EncodePart(E, kind, f[k - 1], Len(t.shapes), parts[k])
    BY <1>1, PartedIs
  <2> QED
    BY <2>2, <2>3, <2>4
<1> QED
  BY <1>2, <1>3

\* Parts that each grow on what came before, after a shape for the whole.
Grows(f, n, t, p, kind) ==
    /\ n \in Nat /\ p < Len(t.shapes)
    /\ Single(t, p, kind, f[0])
    /\ \A k \in 1 .. n : Sound(f[k - 1]) /\ Len(t.shapes) < Len(f[k - 1].shapes)
                             => Grown(f[k - 1], Len(t.shapes), f[k])

\* The whole then grows too, and its children are where they were put.
LEMMA PartsAreRead ==
    ASSUME NEW f, NEW n, NEW t, NEW p, NEW kind, Grows(f, n, t, p, kind)
    PROVE  /\ Grown(t, p, f[n])
           /\ \A k \in 1 .. n : Sound(f[k - 1]) /\ Len(t.shapes) < Len(f[k - 1].shapes)
           /\ \A T : Follows(t, f[n], T) =>
                  LET i == Len(t.shapes) + 1
                      children == Children(i, T.shapes)
                  IN  /\ i \in 1 .. Len(T.shapes)
                      /\ T.shapes[i].type = kind
                      /\ DOMAIN children = 1 .. n
                      /\ \A k \in 1 .. n :
                             /\ Follows(f[k - 1], f[k], T)
                             /\ children[k] = Len(f[k - 1].shapes) + 1
                             /\ T.shapes[children[k]] = First(f[k - 1], f[k])
<1>1. /\ Chain(f, n, Len(t.shapes))
      /\ \A k \in 1 .. n : Sound(f[k - 1]) /\ Len(t.shapes) < Len(f[k - 1].shapes)
  BY ChainIs DEF Grows
<1>2. Grown(t, p, f[n]) /\ First(t, f[n]).type = kind
  BY <1>1, ChainIsGrown DEF Grows
<1>3. ASSUME NEW T, Follows(t, f[n], T)
      PROVE  LET i == Len(t.shapes) + 1
                 children == Children(i, T.shapes)
             IN  /\ i \in 1 .. Len(T.shapes)
                 /\ T.shapes[i].type = kind
                 /\ DOMAIN children = 1 .. n
                 /\ \A k \in 1 .. n :
                        /\ Follows(f[k - 1], f[k], T)
                        /\ children[k] = Len(f[k - 1].shapes) + 1
                        /\ T.shapes[children[k]] = First(f[k - 1], f[k])
  <2> DEFINE c == [k \in 1 .. n |-> Len(f[k - 1].shapes) + 1]
  <2>1. Extends(f[n], T)
    BY <1>3 DEF Follows
  <2>2. T.shapes[Len(t.shapes) + 1] = First(t, f[n]) /\ Len(t.shapes) + 1 \in 1 .. Len(T.shapes)
    BY <1>2, <2>1, FirstStays
  <2>3. /\ Children(Len(t.shapes) + 1, T.shapes) = c
        /\ \A k \in 1 .. n : /\ Follows(f[k - 1], f[k], T)
                             /\ T.shapes[Len(f[k - 1].shapes) + 1] = First(f[k - 1], f[k])
    BY <1>1, <1>3, ChainFollows
  <2>4. DOMAIN c = 1 .. n /\ \A k \in 1 .. n : c[k] = Len(f[k - 1].shapes) + 1
    OBVIOUS
  <2> HIDE DEF c
  <2> QED
    BY <1>2, <2>2, <2>3, <2>4
<1> QED
  BY <1>1, <1>2, <1>3

\* The children's offsets in the table of figures, and what a collection is made of.
OffsetsAt(i, T) ==
    [k \in DOMAIN Children(i, T.shapes) |-> T.shapes[Children(i, T.shapes)[k]].figure_offset]

\* What a shape is built as, type by type.
LEMMA ShapesAre ==
    ASSUME NEW T, Sound(T), NEW i \in 1 .. Len(T.shapes), NEW x
    PROVE  LET shape == T.shapes[i]
               children == Children(i, T.shapes)
               offsets == OffsetsAt(i, T)
           IN  (\/ shape.type = "point" /\ FirstCoord(shape.figure_offset, T) = Built(x)
                \/ shape.type = "linestring" /\ FigureCoords(shape.figure_offset, T) = Built(x)
                \/ shape.type = "polygon" /\ BuildPolygon(shape.figure_offset, T) = Built(x)
                \/ shape.type = "multipoint" /\
                       Collected([k \in DOMAIN children |-> FirstCoord(offsets[k], T)]) = Built(x)
                \/ shape.type = "multilinestring" /\
                       Collected([k \in DOMAIN children |-> FigureCoords(offsets[k], T)]) = Built(x)
                \/ shape.type = "multipolygon" /\
                       Collected([k \in DOMAIN children |-> BuildPolygon(offsets[k], T)]) = Built(x)
                \/ shape.type = "collection" /\
                       Collected([k \in DOMAIN children |-> ShapesOf(T)[children[k]]]) = Built(x))
               => BuildShape(i, T) = Built(<<shape.type, x>>)
<1> DEFINE shape == T.shapes[i]
           children == Children(i, T.shapes)
           offsets == OffsetsAt(i, T)
           parts ==
               CASE shape.type = "point" -> FirstCoord(shape.figure_offset, T)
                 [] shape.type = "linestring" -> FigureCoords(shape.figure_offset, T)
                 [] shape.type = "polygon" -> BuildPolygon(shape.figure_offset, T)
                 [] shape.type = "multipoint" ->
                       Collected([k \in DOMAIN children |-> FirstCoord(offsets[k], T)])
                 [] shape.type = "multilinestring" ->
                       Collected([k \in DOMAIN children |-> FigureCoords(offsets[k], T)])
                 [] shape.type = "multipolygon" ->
                       Collected([k \in DOMAIN children |-> BuildPolygon(offsets[k], T)])
                 [] shape.type = "collection" ->
                       Collected([k \in DOMAIN children |-> ShapesOf(T)[children[k]]])
                 [] OTHER -> Broken
<1>1. BuildShape(i, T) = ShapeAt(i, T, ShapesOf(T))
  BY BuildShapeIs
<1>2. ShapeAt(i, T, ShapesOf(T)) = IF parts = Broken THEN Broken ELSE Built(<<shape.type, parts[1]>>)
  BY DEF ShapeAt, OffsetsAt
<1>3. \A y : Built(y) # Broken /\ Built(y)[1] = y
  BY DEF Built, Broken
<1> SUFFICES ASSUME \/ shape.type = "point" /\ FirstCoord(shape.figure_offset, T) = Built(x)
                    \/ shape.type = "linestring" /\ FigureCoords(shape.figure_offset, T) = Built(x)
                    \/ shape.type = "polygon" /\ BuildPolygon(shape.figure_offset, T) = Built(x)
                    \/ shape.type = "multipoint" /\
                         Collected([k \in DOMAIN children |-> FirstCoord(offsets[k], T)]) = Built(x)
                    \/ shape.type = "multilinestring" /\
                         Collected([k \in DOMAIN children |-> FigureCoords(offsets[k], T)]) = Built(x)
                    \/ shape.type = "multipolygon" /\
                         Collected([k \in DOMAIN children |-> BuildPolygon(offsets[k], T)]) = Built(x)
                    \/ shape.type = "collection" /\
                         Collected([k \in DOMAIN children |-> ShapesOf(T)[children[k]]]) = Built(x)
             PROVE  parts = Built(x)
  <2> HIDE DEF parts
  <2> QED
    BY <1>1, <1>2, <1>3
<1>4. CASE shape.type = "point" /\ FirstCoord(shape.figure_offset, T) = Built(x)
  BY <1>4
<1>5. CASE shape.type = "linestring" /\ FigureCoords(shape.figure_offset, T) = Built(x)
  BY <1>5
<1>6. CASE shape.type = "polygon" /\ BuildPolygon(shape.figure_offset, T) = Built(x)
  BY <1>6
<1>7. CASE shape.type = "multipoint" /\
               Collected([k \in DOMAIN children |-> FirstCoord(offsets[k], T)]) = Built(x)
  BY <1>7
<1>8. CASE shape.type = "multilinestring" /\
               Collected([k \in DOMAIN children |-> FigureCoords(offsets[k], T)]) = Built(x)
  BY <1>8
<1>9. CASE shape.type = "multipolygon" /\
               Collected([k \in DOMAIN children |-> BuildPolygon(offsets[k], T)]) = Built(x)
  BY <1>9
<1>10. CASE shape.type = "collection" /\
                Collected([k \in DOMAIN children |-> ShapesOf(T)[children[k]]]) = Built(x)
  BY <1>10
<1> HIDE DEF parts, shape, children, offsets
<1> QED
  BY <1>4, <1>5, <1>6, <1>7, <1>8, <1>9, <1>10

\* A geometry that went into tables e comes out of all that came of them.
ComesOut(t, p, e, type, x) ==
    /\ Grown(t, p, e)
    /\ \A T : Follows(t, e, T) => BuildShape(Len(t.shapes) + 1, T) = Built(<<type, x>>)

LEMMA SingleIsRead ==
    ASSUME NEW t, NEW p, NEW type, NEW e, Single(t, p, type, e), NEW T, Follows(t, e, T)
    PROVE  /\ Sound(T) /\ Extends(e, T) /\ Led(e, T)
           /\ Len(t.shapes) + 1 \in 1 .. Len(T.shapes)
           /\ T.shapes[Len(t.shapes) + 1].type = type
           /\ T.shapes[Len(t.shapes) + 1].figure_offset = First(t, e).figure_offset
<1>1. Sound(T) /\ Extends(e, T) /\ Led(e, T)
  BY DEF Follows
<1>2. Grown(t, p, e) /\ First(t, e).type = type
  BY DEF Single
<1> QED
  BY <1>1, <1>2, FirstStays

LEMMA PointComesOut ==
    ASSUME NEW t, Sound(t), NEW p \in Int, p < Len(t.shapes), NEW point \in Nat
    PROVE  ComesOut(t, p, EncodeStroke(t, p, <<point>>, "point"), "point", point)
<1> DEFINE e == EncodeStroke(t, p, <<point>>, "point")
<1>1. /\ Single(t, p, "point", e)
      /\ \A T : Sound(T) /\ Extends(e, T) => FirstCoord(First(t, e).figure_offset, T) = Built(point)
  BY EncodesPoint
<1> HIDE DEF e
<1>2. ASSUME NEW T, Follows(t, e, T) PROVE BuildShape(Len(t.shapes) + 1, T) = Built(<<"point", point>>)
  <2>1. /\ Sound(T) /\ Extends(e, T)
        /\ Len(t.shapes) + 1 \in 1 .. Len(T.shapes)
        /\ T.shapes[Len(t.shapes) + 1].type = "point"
        /\ T.shapes[Len(t.shapes) + 1].figure_offset = First(t, e).figure_offset
    BY <1>1, <1>2, SingleIsRead
  <2>2. FirstCoord(T.shapes[Len(t.shapes) + 1].figure_offset, T) = Built(point)
    BY <1>1, <2>1
  <2> QED
    BY <2>1, <2>2, ShapesAre
<1> QED
  BY <1>1, <1>2 DEF ComesOut, Single, e

LEMMA FigureComesOut ==
    ASSUME NEW t, NEW p, NEW e, NEW points, Single(t, p, "linestring", e),
           \A T : Sound(T) /\ Extends(e, T) => FigureCoords(First(t, e).figure_offset, T) = Built(points)
    PROVE  ComesOut(t, p, e, "linestring", points)
<1>1. ASSUME NEW T, Follows(t, e, T)
      PROVE  BuildShape(Len(t.shapes) + 1, T) = Built(<<"linestring", points>>)
  <2>1. /\ Sound(T) /\ Extends(e, T)
        /\ Len(t.shapes) + 1 \in 1 .. Len(T.shapes)
        /\ T.shapes[Len(t.shapes) + 1].type = "linestring"
        /\ T.shapes[Len(t.shapes) + 1].figure_offset = First(t, e).figure_offset
    BY <1>1, SingleIsRead
  <2>2. FigureCoords(T.shapes[Len(t.shapes) + 1].figure_offset, T) = Built(points)
    BY <2>1
  <2> QED
    BY <2>1, <2>2, ShapesAre
<1> QED
  BY <1>1 DEF ComesOut, Single

LEMMA PolygonComesOut ==
    ASSUME NEW t, Sound(t), NEW p \in Int, p < Len(t.shapes), NEW polygon \in PolygonType,
           HasExterior(polygon)
    PROVE  ComesOut(t, p, EncodePolygon(t, p, polygon), "polygon", NormalPolygon(polygon))
<1> DEFINE e == EncodePolygon(t, p, polygon)
<1>1. /\ Single(t, p, "polygon", e)
      /\ \A T : Sound(T) /\ Extends(e, T) /\ Led(e, T) =>
             BuildPolygon(First(t, e).figure_offset, T) = Built(NormalPolygon(polygon))
  BY EncodesPolygon
<1> HIDE DEF e
<1>2. ASSUME NEW T, Follows(t, e, T)
      PROVE  BuildShape(Len(t.shapes) + 1, T) = Built(<<"polygon", NormalPolygon(polygon)>>)
  <2>1. /\ Sound(T) /\ Extends(e, T) /\ Led(e, T)
        /\ Len(t.shapes) + 1 \in 1 .. Len(T.shapes)
        /\ T.shapes[Len(t.shapes) + 1].type = "polygon"
        /\ T.shapes[Len(t.shapes) + 1].figure_offset = First(t, e).figure_offset
    BY <1>1, <1>2, SingleIsRead
  <2>2. BuildPolygon(T.shapes[Len(t.shapes) + 1].figure_offset, T) = Built(NormalPolygon(polygon))
    BY <1>1, <2>1
  <2> QED
    BY <2>1, <2>2, ShapesAre
<1> QED
  BY <1>1, <1>2 DEF ComesOut, Single, e

\* The children of shape i begin where the parts of f begin.
ReadsParts(f, n, i, T) ==
    \A k \in 1 .. n : /\ Extends(f[k], T) /\ Led(f[k], T)
                      /\ OffsetsAt(i, T)[k] = First(f[k - 1], f[k]).figure_offset

\* The same of a shape with its parts: its children are where they lie, their
\* offsets the ones they were given.
LEMMA OffsetsAre ==
    ASSUME NEW f, NEW n, NEW t, NEW p, NEW kind, Grows(f, n, t, p, kind), NEW T, Follows(t, f[n], T)
    PROVE  LET i == Len(t.shapes) + 1
           IN  /\ Sound(T) /\ i \in 1 .. Len(T.shapes) /\ T.shapes[i].type = kind
               /\ DOMAIN Children(i, T.shapes) = 1 .. n
               /\ \A k \in 1 .. n : Sound(f[k - 1]) /\ Len(t.shapes) < Len(f[k - 1].shapes)
               /\ ReadsParts(f, n, i, T)
<1> DEFINE i == Len(t.shapes) + 1
           children == Children(i, T.shapes)
<1>1. \A k \in 1 .. n : Sound(f[k - 1]) /\ Len(t.shapes) < Len(f[k - 1].shapes)
  BY PartsAreRead
<1>2. /\ i \in 1 .. Len(T.shapes)
      /\ T.shapes[i].type = kind
      /\ DOMAIN children = 1 .. n
      /\ \A k \in 1 .. n : /\ Follows(f[k - 1], f[k], T)
                           /\ T.shapes[children[k]] = First(f[k - 1], f[k])
  BY PartsAreRead
<1>3. Sound(T)
  BY DEF Follows
<1> HIDE DEF i
<1>4. ReadsParts(f, n, i, T)
  <2> SUFFICES ASSUME NEW k \in 1 .. n
               PROVE  /\ Extends(f[k], T) /\ Led(f[k], T)
                      /\ OffsetsAt(i, T)[k] = First(f[k - 1], f[k]).figure_offset
    BY DEF ReadsParts
  <2>1. Extends(f[k], T) /\ Led(f[k], T)
    BY <1>2 DEF Follows
  <2>2. k \in DOMAIN Children(i, T.shapes) /\ T.shapes[Children(i, T.shapes)[k]] = First(f[k - 1], f[k])
    BY <1>2
  <2> QED
    BY <2>1, <2>2 DEF OffsetsAt
<1> QED
  BY <1>1, <1>2, <1>3, <1>4 DEF i

\* Three kinds of parts that are read by their offsets alone.
LEMMA PointsComeOut ==
    ASSUME NEW t, Sound(t), NEW p \in Int, p < Len(t.shapes), NEW E, NEW points \in Seq(Nat)
    PROVE  ComesOut(t, p, EncodeParts(E, "multipoint", points, t, p), "multipoint", points)
<1> DEFINE n == Len(points)
           index == Len(t.shapes)
<1>0. /\ n \in Nat /\ points = [k \in 1 .. n |-> points[k]] /\ \A k \in 1 .. n : points[k] \in Nat
  BY LenProperties, ElementOfSeq
<1>1. "multipoint" \in ShapeTypes /\ index \in Int
  BY TablesHave DEF ShapeTypes, Sound
<1>2. PICK f : /\ EncodeParts(E, "multipoint", points, t, p) = f[Len(points)]
               /\ Single(t, p, "multipoint", f[0])
               /\ \A k \in 1 .. Len(points) :
                      f[k] = EncodePart(E, "multipoint", f[k - 1], Len(t.shapes), points[k])
  BY <1>1, PartsAre
<1> HIDE DEF n, index
<1>3. \A k \in 1 .. n : f[k] = EncodeStroke(f[k - 1], index, <<points[k]>>, "point")
  BY <1>2 DEF EncodePart, n, index
<1>4. ASSUME NEW k \in 1 .. n, Sound(f[k - 1]), index < Len(f[k - 1].shapes)
      PROVE  /\ Grown(f[k - 1], index, f[k])
             /\ \A T : Sound(T) /\ Extends(f[k], T) =>
                    FirstCoord(First(f[k - 1], f[k]).figure_offset, T) = Built(points[k])
  <2> DEFINE a == f[k - 1]
             x == points[k]
             e == EncodeStroke(a, index, <<x>>, "point")
  <2>1. Sound(a) /\ index < Len(a.shapes) /\ x \in Nat /\ f[k] = e
    BY <1>0, <1>3, <1>4
  <2> HIDE DEF a, x
  <2>2. /\ Single(a, index, "point", e)
        /\ \A T : Sound(T) /\ Extends(e, T) => FirstCoord(First(a, e).figure_offset, T) = Built(x)
    BY <1>1, <2>1, EncodesPoint
  <2> HIDE DEF e
  <2> QED
    BY <2>1, <2>2 DEF Single, a, x
<1>5. Grows(f, n, t, p, "multipoint")
  BY <1>0, <1>2, <1>4 DEF Grows, index
<1>6. Grown(t, p, f[n])
  BY <1>5, PartsAreRead
<1>7. ASSUME NEW T, Follows(t, f[n], T) PROVE BuildShape(index + 1, T) = Built(<<"multipoint", points>>)
  <2> DEFINE i == Len(t.shapes) + 1
             results == [k \in DOMAIN Children(i, T.shapes) |-> FirstCoord(OffsetsAt(i, T)[k], T)]
  <2>1. /\ Sound(T) /\ i \in 1 .. Len(T.shapes) /\ T.shapes[i].type = "multipoint"
        /\ DOMAIN Children(i, T.shapes) = 1 .. n
        /\ \A k \in 1 .. n : Sound(f[k - 1]) /\ Len(t.shapes) < Len(f[k - 1].shapes)
        /\ ReadsParts(f, n, i, T)
    <3> HIDE DEF results
    <3> QED
      BY <1>5, <1>7, OffsetsAre
  <2> HIDE DEF i
  <2>2. \A k \in 1 .. n : FirstCoord(OffsetsAt(i, T)[k], T) = Built(points[k])
    BY <1>4, <2>1 DEF index, ReadsParts
  <2>3. results = [k \in 1 .. n |-> results[k]] /\ \A k \in 1 .. n : results[k] = Built(points[k])
    BY <2>1, <2>2
  <2> HIDE DEF results
  <2>4. Collected(results) = Built(points)
    BY <1>0, <2>3, CollectedIs
  <2>5. BuildShape(i, T) = Built(<<T.shapes[i].type, points>>)
    BY <2>1, <2>4, ShapesAre DEF results
  <2> QED
    BY <2>1, <2>5 DEF i, index
<1> QED
  BY <1>2, <1>6, <1>7 DEF ComesOut, index, n

LEMMA LinesComeOut ==
    ASSUME NEW t, Sound(t), NEW p \in Int, p < Len(t.shapes), NEW E, NEW lines \in Seq(Seq(Nat))
    PROVE  ComesOut(t, p, EncodeParts(E, "multilinestring", lines, t, p), "multilinestring", lines)
<1> DEFINE n == Len(lines)
           index == Len(t.shapes)
<1>0. /\ n \in Nat /\ lines = [k \in 1 .. n |-> lines[k]] /\ \A k \in 1 .. n : lines[k] \in Seq(Nat)
  BY LenProperties, ElementOfSeq
<1>1. "multilinestring" \in ShapeTypes /\ index \in Int
  BY TablesHave DEF ShapeTypes, Sound
<1>2. PICK f : /\ EncodeParts(E, "multilinestring", lines, t, p) = f[Len(lines)]
               /\ Single(t, p, "multilinestring", f[0])
               /\ \A k \in 1 .. Len(lines) :
                      f[k] = EncodePart(E, "multilinestring", f[k - 1], Len(t.shapes), lines[k])
  BY <1>1, PartsAre
<1> HIDE DEF n, index
<1>3. \A k \in 1 .. n : f[k] = EncodeLineString(f[k - 1], index, lines[k])
  BY <1>2 DEF EncodePart, n, index
<1>4. ASSUME NEW k \in 1 .. n, Sound(f[k - 1]), index < Len(f[k - 1].shapes)
      PROVE  /\ Grown(f[k - 1], index, f[k])
             /\ \A T : Sound(T) /\ Extends(f[k], T) =>
                    FigureCoords(First(f[k - 1], f[k]).figure_offset, T) = Built(lines[k])
  <2> DEFINE a == f[k - 1]
             x == lines[k]
             e == EncodeLineString(a, index, x)
  <2>1. Sound(a) /\ index < Len(a.shapes) /\ x \in Seq(Nat) /\ f[k] = e
    BY <1>0, <1>3, <1>4
  <2> HIDE DEF a, x
  <2>2. /\ Single(a, index, "linestring", e)
        /\ \A T : Sound(T) /\ Extends(e, T) => FigureCoords(First(a, e).figure_offset, T) = Built(x)
    BY <1>1, <2>1, EncodesLine
  <2> HIDE DEF e
  <2> QED
    BY <2>1, <2>2 DEF Single, a, x
<1>5. Grows(f, n, t, p, "multilinestring")
  BY <1>0, <1>2, <1>4 DEF Grows, index
<1>6. Grown(t, p, f[n])
  BY <1>5, PartsAreRead
<1>7. ASSUME NEW T, Follows(t, f[n], T) PROVE BuildShape(index + 1, T) = Built(<<"multilinestring", lines>>)
  <2> DEFINE i == Len(t.shapes) + 1
             results == [k \in DOMAIN Children(i, T.shapes) |-> FigureCoords(OffsetsAt(i, T)[k], T)]
  <2>1. /\ Sound(T) /\ i \in 1 .. Len(T.shapes) /\ T.shapes[i].type = "multilinestring"
        /\ DOMAIN Children(i, T.shapes) = 1 .. n
        /\ \A k \in 1 .. n : Sound(f[k - 1]) /\ Len(t.shapes) < Len(f[k - 1].shapes)
        /\ ReadsParts(f, n, i, T)
    <3> HIDE DEF results
    <3> QED
      BY <1>5, <1>7, OffsetsAre
  <2> HIDE DEF i
  <2>2. \A k \in 1 .. n : FigureCoords(OffsetsAt(i, T)[k], T) = Built(lines[k])
    BY <1>4, <2>1 DEF index, ReadsParts
  <2>3. results = [k \in 1 .. n |-> results[k]] /\ \A k \in 1 .. n : results[k] = Built(lines[k])
    BY <2>1, <2>2
  <2> HIDE DEF results
  <2>4. Collected(results) = Built(lines)
    BY <1>0, <2>3, CollectedIs
  <2>5. BuildShape(i, T) = Built(<<T.shapes[i].type, lines>>)
    BY <2>1, <2>4, ShapesAre DEF results
  <2> QED
    BY <2>1, <2>5 DEF i, index
<1> QED
  BY <1>2, <1>6, <1>7 DEF ComesOut, index, n

LEMMA PolygonsComeOut ==
    ASSUME NEW t, Sound(t), NEW p \in Int, p < Len(t.shapes), NEW E, NEW polygons \in Seq(PolygonType),
           \A k \in 1 .. Len(polygons) : HasExterior(polygons[k])
    PROVE  ComesOut(t, p, EncodeParts(E, "multipolygon", polygons, t, p), "multipolygon",
                    [k \in 1 .. Len(polygons) |-> NormalPolygon(polygons[k])])
<1> DEFINE n == Len(polygons)
           index == Len(t.shapes)
           normal == [k \in 1 .. n |-> NormalPolygon(polygons[k])]
<1>0. /\ n \in Nat /\ normal = [k \in 1 .. n |-> normal[k]]
      /\ \A k \in 1 .. n : normal[k] = NormalPolygon(polygons[k])
      /\ \A k \in 1 .. n : polygons[k] \in PolygonType /\ HasExterior(polygons[k])
  BY LenProperties, ElementOfSeq
<1>1. "multipolygon" \in ShapeTypes /\ index \in Int
  BY TablesHave DEF ShapeTypes, Sound
<1>2. PICK f : /\ EncodeParts(E, "multipolygon", polygons, t, p) = f[Len(polygons)]
               /\ Single(t, p, "multipolygon", f[0])
               /\ \A k \in 1 .. Len(polygons) :
                      f[k] = EncodePart(E, "multipolygon", f[k - 1], Len(t.shapes), polygons[k])
  BY <1>1, PartsAre
<1> HIDE DEF n, index, normal
<1>3. \A k \in 1 .. n : f[k] = EncodePolygon(f[k - 1], index, polygons[k])
  BY <1>2 DEF EncodePart, n, index
<1>4. ASSUME NEW k \in 1 .. n, Sound(f[k - 1]), index < Len(f[k - 1].shapes)
      PROVE  /\ Grown(f[k - 1], index, f[k])
             /\ \A T : Sound(T) /\ Extends(f[k], T) /\ Led(f[k], T) =>
                    BuildPolygon(First(f[k - 1], f[k]).figure_offset, T) = Built(normal[k])
  <2> DEFINE a == f[k - 1]
             x == polygons[k]
             e == EncodePolygon(a, index, x)
  <2>1. Sound(a) /\ index < Len(a.shapes) /\ x \in PolygonType /\ HasExterior(x) /\ f[k] = e
    BY <1>0, <1>3, <1>4
  <2> HIDE DEF a, x
  <2>2. /\ Single(a, index, "polygon", e)
        /\ \A T : Sound(T) /\ Extends(e, T) /\ Led(e, T) =>
               BuildPolygon(First(a, e).figure_offset, T) = Built(NormalPolygon(x))
    BY <1>1, <2>1, EncodesPolygon
  <2> HIDE DEF e
  <2> QED
    BY <1>0, <2>1, <2>2 DEF Single, a, x
<1>5. Grows(f, n, t, p, "multipolygon")
  BY <1>0, <1>2, <1>4 DEF Grows, index
<1>6. Grown(t, p, f[n])
  BY <1>5, PartsAreRead
<1>7. ASSUME NEW T, Follows(t, f[n], T) PROVE BuildShape(index + 1, T) = Built(<<"multipolygon", normal>>)
  <2> DEFINE i == Len(t.shapes) + 1
             results == [k \in DOMAIN Children(i, T.shapes) |-> BuildPolygon(OffsetsAt(i, T)[k], T)]
  <2>1. /\ Sound(T) /\ i \in 1 .. Len(T.shapes) /\ T.shapes[i].type = "multipolygon"
        /\ DOMAIN Children(i, T.shapes) = 1 .. n
        /\ \A k \in 1 .. n : Sound(f[k - 1]) /\ Len(t.shapes) < Len(f[k - 1].shapes)
        /\ ReadsParts(f, n, i, T)
    <3> HIDE DEF results
    <3> QED
      BY <1>5, <1>7, OffsetsAre
  <2> HIDE DEF i
  <2>2. \A k \in 1 .. n : BuildPolygon(OffsetsAt(i, T)[k], T) = Built(normal[k])
    BY <1>4, <2>1 DEF index, ReadsParts
  <2>3. results = [k \in 1 .. n |-> results[k]] /\ \A k \in 1 .. n : results[k] = Built(normal[k])
    BY <2>1, <2>2
  <2> HIDE DEF results
  <2>4. Collected(results) = Built(normal)
    BY <1>0, <2>3, CollectedIs
  <2>5. BuildShape(i, T) = Built(<<T.shapes[i].type, normal>>)
    BY <2>1, <2>4, ShapesAre DEF results
  <2> QED
    BY <2>1, <2>5 DEF i, index
<1> QED
  BY <1>2, <1>6, <1>7 DEF ComesOut, index, n, normal

\* A geometry comes back as y wherever it is put.
ComesBackAs(g, y) ==
    \A t, p : Sound(t) /\ p \in Int /\ p < Len(t.shapes) =>
        LET e == EncodeGeometry[g][Place(t, p)]
        IN  /\ Grown(t, p, e)
            /\ \A T : Follows(t, e, T) => BuildShape(Len(t.shapes) + 1, T) = Built(y)

LEMMA PartOfCollectionComesOut ==
    ASSUME NEW g, NEW y, ComesBackAs(g, y), NEW a, Sound(a), NEW q \in Int, q < Len(a.shapes)
    PROVE  LET e == EncodePart(EncodeGeometry, "collection", a, q, g)
           IN  /\ Grown(a, q, e)
               /\ \A T : Follows(a, e, T) => BuildShape(Len(a.shapes) + 1, T) = Built(y)
<1>1. EncodePart(EncodeGeometry, "collection", a, q, g) = EncodeGeometry[g][Place(a, q)]
  BY DEF EncodePart
<1> QED
  BY <1>1 DEF ComesBackAs

LEMMA CollectionComesOut ==
    ASSUME NEW t, Sound(t), NEW p \in Int, p < Len(t.shapes), NEW X, NEW parts \in Seq(X), NEW y,
           y = [k \in 1 .. Len(parts) |-> y[k]],
           \A k \in 1 .. Len(parts) : ComesBackAs(parts[k], y[k])
    PROVE  ComesOut(t, p, EncodeParts(EncodeGeometry, "collection", parts, t, p), "collection", y)
<1> DEFINE n == Len(parts)
           index == Len(t.shapes)
<1>0. n \in Nat
  BY LenProperties
<1>1. "collection" \in ShapeTypes /\ index \in Int
  BY TablesHave DEF ShapeTypes, Sound
<1>2. PICK f : /\ EncodeParts(EncodeGeometry, "collection", parts, t, p) = f[Len(parts)]
               /\ Single(t, p, "collection", f[0])
               /\ \A k \in 1 .. Len(parts) :
                      f[k] = EncodePart(EncodeGeometry, "collection", f[k - 1], Len(t.shapes), parts[k])
  BY <1>1, PartsAre
<1>3. /\ y = [k \in 1 .. n |-> y[k]]
      /\ \A k \in 1 .. n : ComesBackAs(parts[k], y[k])
  OBVIOUS
<1> HIDE DEF n, index
<1>4. ASSUME NEW k \in 1 .. n, Sound(f[k - 1]), index < Len(f[k - 1].shapes)
      PROVE  /\ Grown(f[k - 1], index, f[k])
             /\ \A T : Follows(f[k - 1], f[k], T) =>
                    BuildShape(Len(f[k - 1].shapes) + 1, T) = Built(y[k])
  <2> DEFINE a == f[k - 1]
             x == parts[k]
             z == y[k]
             e == EncodePart(EncodeGeometry, "collection", a, index, x)
  <2>1. Sound(a) /\ index < Len(a.shapes) /\ ComesBackAs(x, z)
    BY <1>3, <1>4
  <2>2. f[k] = e
    BY <1>2 DEF n, index
  <2> HIDE DEF a, x, z
  <2>3. /\ Grown(a, index, e)
        /\ \A T : Follows(a, e, T) => BuildShape(Len(a.shapes) + 1, T) = Built(z)
    BY <1>1, <2>1, PartOfCollectionComesOut
  <2> HIDE DEF e
  <2> QED
    BY <2>2, <2>3 DEF a, z
<1>5. Grows(f, n, t, p, "collection")
  BY <1>0, <1>2, <1>4 DEF Grows, index
<1>6. Grown(t, p, f[n])
  BY <1>5, PartsAreRead
<1>7. ASSUME NEW T, Follows(t, f[n], T) PROVE BuildShape(index + 1, T) = Built(<<"collection", y>>)
  <2> DEFINE i == Len(t.shapes) + 1
             children == Children(i, T.shapes)
             results == [k \in DOMAIN children |-> ShapesOf(T)[children[k]]]
  <2>0. Sound(T)
    BY <1>7 DEF Follows
  <2>1. \A k \in 1 .. n : Sound(f[k - 1]) /\ index < Len(f[k - 1].shapes)
    BY <1>5, PartsAreRead DEF index
  <2>2. /\ i \in 1 .. Len(T.shapes)
        /\ T.shapes[i].type = "collection"
        /\ DOMAIN children = 1 .. n
        /\ \A k \in 1 .. n : /\ Follows(f[k - 1], f[k], T)
                             /\ children[k] = Len(f[k - 1].shapes) + 1
    <3> HIDE DEF results
    <3> QED
      BY <1>5, <1>7, PartsAreRead
  <2>3. \A k \in 1 .. n : BuildShape(children[k], T) = Built(y[k])
    <3> HIDE DEF children, results, i
    <3> QED
      BY <1>4, <2>1, <2>2
  <2>4. \A k \in 1 .. n : ShapesOf(T)[children[k]] = BuildShape(children[k], T)
    <3> TAKE k \in 1 .. n
    <3>1. children[k] \in i + 1 .. Len(T.shapes)
      <4> HIDE DEF i, results
      <4> QED
        BY <2>0, <2>2, ChildrenComeAfter
    <3>2. Len(T.shapes) \in Nat
      BY <2>0, TablesHave DEF Sound
    <3>3. children[k] \in 1 .. Len(T.shapes)
      <4> HIDE DEF i, children, results
      <4> QED
        BY <2>2, <3>1, <3>2
    <3> HIDE DEF children, results
    <3> QED
      BY <2>0, <3>3, BuildShapeIs
  <2>5. results = [k \in 1 .. n |-> results[k]] /\ \A k \in 1 .. n : results[k] = Built(y[k])
    <3> HIDE DEF i
    <3> QED
      BY <2>2, <2>3, <2>4
  <2>6. Collected(results) = Built(y)
    <3> HIDE DEF results
    <3> QED
      BY <1>0, <1>3, <2>5, CollectedIs
  <2>7. BuildShape(i, T) = Built(<<T.shapes[i].type, y>>)
    BY <2>0, <2>2, <2>6, ShapesAre
  <2> HIDE DEF children, results
  <2> QED
    BY <2>2, <2>7 DEF i, index
<1> QED
  BY <1>2, <1>6, <1>7 DEF ComesOut, index, n

-----------------------------------------------------------------------------
(* Every geometry comes back, by induction on its nesting. *)

LEMMA EncodesAt ==
    ASSUME NEW g \in Geometries, NEW t \in Tables, NEW p \in Int
    PROVE  EncodeGeometry[g][Place(t, p)] = EncodesAs(EncodeGeometry, g, Place(t, p))
<1>1. Place(t, p) \in Places
  BY DEF Places, Place
<1> QED
  BY <1>1, EncodeGeometryIs

LEMMA EncodesByKind ==
    ASSUME NEW g \in Geometries, NEW t \in Tables, NEW p \in Int
    PROVE  LET e == EncodeGeometry[g][Place(t, p)]
           IN  /\ g[1] = "point" => e = EncodeStroke(t, p, <<g[2]>>, "point")
               /\ g[1] = "line" => e = EncodeStroke(t, p, g[2], "linestring")
               /\ g[1] = "linestring" => e = EncodeLineString(t, p, g[2])
               /\ g[1] = "polygon" => e = EncodePolygon(t, p, g[2])
               /\ g[1] \in {"multipoint", "multilinestring", "multipolygon", "collection"} =>
                      e = EncodeParts(EncodeGeometry, g[1], g[2], t, p)
<1>1. Place(t, p).tables = t /\ Place(t, p).parent = p
  BY DEF Place
<1>2. EncodeGeometry[g][Place(t, p)] = EncodesAs(EncodeGeometry, g, Place(t, p))
  BY EncodesAt
<1> DEFINE place == Place(t, p)
<1> HIDE DEF place
<1>3. /\ g[1] = "point" => EncodesAs(EncodeGeometry, g, place)
             = EncodeStroke(place.tables, place.parent, <<g[2]>>, "point")
      /\ g[1] = "line" => EncodesAs(EncodeGeometry, g, place)
             = EncodeStroke(place.tables, place.parent, g[2], "linestring")
      /\ g[1] = "linestring" => EncodesAs(EncodeGeometry, g, place)
             = EncodeLineString(place.tables, place.parent, g[2])
      /\ g[1] = "polygon" => EncodesAs(EncodeGeometry, g, place)
             = EncodePolygon(place.tables, place.parent, g[2])
      /\ g[1] \in {"multipoint", "multilinestring", "multipolygon", "collection"} =>
             EncodesAs(EncodeGeometry, g, place)
             = EncodeParts(EncodeGeometry, g[1], g[2], place.tables, place.parent)
  BY DEF EncodesAs
<1> QED
  BY <1>1, <1>2, <1>3 DEF place

LEMMA EncodesWithParts ==
    ASSUME NEW g \in Geometries, NEW t \in Tables, NEW p \in Int,
           g[1] \in {"multipoint", "multilinestring", "multipolygon", "collection"}
    PROVE  EncodeGeometry[g][Place(t, p)] = EncodeParts(EncodeGeometry, g[1], g[2], t, p)
BY EncodesByKind

LEMMA HasExteriors ==
    ASSUME NEW g \in Geometries, ~NoExterior(g)
    PROVE  \A polygon \in PolygonsOf[g] : HasExterior(polygon)
<1>1. \A polygon : NormalPolygon(polygon).interiors = NonEmpty(polygon.interiors)
  BY DEF NormalPolygon, Polygon
<1> QED
  BY <1>1 DEF NoExterior, HasExterior, NormalPolygon

\* What comes back in a table that follows.
LEMMA ComesOutIs ==
    ASSUME NEW g, NEW kind, NEW x,
           \A t, p : Sound(t) /\ p \in Int /\ p < Len(t.shapes) =>
               ComesOut(t, p, EncodeGeometry[g][Place(t, p)], kind, x)
    PROVE  ComesBackAs(g, <<kind, x>>)
BY DEF ComesBackAs, ComesOut

LEMMA StrokeComesOut ==
    ASSUME NEW t, Sound(t), NEW p \in Int, p < Len(t.shapes), NEW points \in Seq(Nat), points # <<>>
    PROVE  ComesOut(t, p, EncodeStroke(t, p, points, "linestring"), "linestring", points)
<1> DEFINE e == EncodeStroke(t, p, points, "linestring")
<1>1. "linestring" \in ShapeTypes
  BY DEF ShapeTypes
<1>2. /\ Single(t, p, "linestring", e)
      /\ \A T : Sound(T) /\ Extends(e, T) => FigureCoords(First(t, e).figure_offset, T) = Built(points)
  BY <1>1, EncodesStroke
<1> HIDE DEF e
<1>3. ComesOut(t, p, e, "linestring", points)
  BY <1>2, FigureComesOut
<1> QED
  BY <1>3 DEF e

LEMMA LineStringComesOut ==
    ASSUME NEW t, Sound(t), NEW p \in Int, p < Len(t.shapes), NEW points \in Seq(Nat)
    PROVE  ComesOut(t, p, EncodeLineString(t, p, points), "linestring", points)
<1> DEFINE e == EncodeLineString(t, p, points)
<1>2. /\ Single(t, p, "linestring", e)
      /\ \A T : Sound(T) /\ Extends(e, T) => FigureCoords(First(t, e).figure_offset, T) = Built(points)
  BY EncodesLine
<1> HIDE DEF e
<1>3. ComesOut(t, p, e, "linestring", points)
  BY <1>2, FigureComesOut
<1> QED
  BY <1>3 DEF e

LEMMA SimpleComesBack ==
    ASSUME NEW g \in Simple, g \in Geometries, ~NoExterior(g)
    PROVE  ComesBackAs(g, Normal[g])
<1>1. Normal[g] = NormalOf(Normal, g)
  BY NormalIs
<1>2. PolygonsOf[g] = AllPolygons(PolygonsOf, g)
  BY PolygonsOfIs
<1>3. \A t : Sound(t) => t \in Tables
  BY DEF Sound
<1>4. CASE \E x \in Nat : g = <<"point", x>>
  <2>1. PICK x \in Nat : g = <<"point", x>>
    BY <1>4
  <2>2. Normal[g] = <<"point", x>>
    BY <1>1, <2>1 DEF NormalOf
  <2>3. \A t, p : Sound(t) /\ p \in Int /\ p < Len(t.shapes) =>
            ComesOut(t, p, EncodeGeometry[g][Place(t, p)], "point", x)
    BY <1>3, <2>1, EncodesByKind, PointComesOut
  <2> QED
    BY <2>2, <2>3, ComesOutIs
<1>5. CASE \E a, b \in Nat : g = <<"line", <<a, b>>>>
  <2>1. PICK a \in Nat, b \in Nat : g = <<"line", <<a, b>>>>
    BY <1>5
  <2>2. Normal[g] = <<"linestring", <<a, b>>>>
    BY <1>1, <2>1 DEF NormalOf
  <2> DEFINE points == <<a, b>>
  <2>3. points \in Seq(Nat) /\ points # <<>> /\ g[1] = "line" /\ g[2] = points
    BY <2>1
  <2> HIDE DEF points
  <2>4. \A t, p : Sound(t) /\ p \in Int /\ p < Len(t.shapes) =>
            ComesOut(t, p, EncodeStroke(t, p, points, "linestring"), "linestring", points)
    BY <2>3, StrokeComesOut
  <2>5. \A t, p : Sound(t) /\ p \in Int =>
            EncodeGeometry[g][Place(t, p)] = EncodeStroke(t, p, points, "linestring")
    BY <1>3, <2>3, EncodesByKind
  <2>6. \A t, p : Sound(t) /\ p \in Int /\ p < Len(t.shapes) =>
            ComesOut(t, p, EncodeGeometry[g][Place(t, p)], "linestring", points)
    BY <2>4, <2>5
  <2> QED
    BY <2>2, <2>6, ComesOutIs DEF points
<1>6. CASE \E points \in Seq(Nat) : g = <<"linestring", points>>
  <2>1. PICK points \in Seq(Nat) : g = <<"linestring", points>>
    BY <1>6
  <2>2. Normal[g] = <<"linestring", points>>
    BY <1>1, <2>1 DEF NormalOf
  <2>3. \A t, p : Sound(t) /\ p \in Int /\ p < Len(t.shapes) =>
            ComesOut(t, p, EncodeGeometry[g][Place(t, p)], "linestring", points)
    BY <1>3, <2>1, EncodesByKind, LineStringComesOut
  <2> QED
    BY <2>2, <2>3, ComesOutIs
<1>7. CASE \E polygon \in PolygonType : g = <<"polygon", polygon>>
  <2>1. PICK polygon \in PolygonType : g = <<"polygon", polygon>>
    BY <1>7
  <2>2. polygon \in PolygonsOf[g]
    BY <1>2, <2>1 DEF AllPolygons
  <2>3. HasExterior(polygon)
    BY <2>2, HasExteriors
  <2>4. Normal[g] = <<"polygon", NormalPolygon(polygon)>>
    BY <1>1, <2>1, <2>3 DEF NormalOf
  <2>5. \A t, p : Sound(t) /\ p \in Int /\ p < Len(t.shapes) =>
            ComesOut(t, p, EncodeGeometry[g][Place(t, p)], "polygon", NormalPolygon(polygon))
    BY <1>3, <2>1, <2>3, EncodesByKind, PolygonComesOut
  <2> QED
    BY <2>4, <2>5, ComesOutIs
<1>8. CASE \E points \in Seq(Nat) : g = <<"multipoint", points>>
  <2>1. PICK points \in Seq(Nat) : g = <<"multipoint", points>>
    BY <1>8
  <2>2. Normal[g] = <<"multipoint", points>>
    BY <1>1, <2>1 DEF NormalOf
  <2>3. \A t, p : Sound(t) /\ p \in Int /\ p < Len(t.shapes) =>
            ComesOut(t, p, EncodeParts(EncodeGeometry, "multipoint", points, t, p), "multipoint", points)
    BY PointsComeOut
  <2>4. \A t, p : Sound(t) /\ p \in Int =>
            EncodeGeometry[g][Place(t, p)] = EncodeParts(EncodeGeometry, "multipoint", points, t, p)
    BY <1>3, <2>1, EncodesByKind
  <2>5. \A t, p : Sound(t) /\ p \in Int /\ p < Len(t.shapes) =>
            ComesOut(t, p, EncodeGeometry[g][Place(t, p)], "multipoint", points)
    BY <2>3, <2>4
  <2> QED
    BY <2>2, <2>5, ComesOutIs
<1>9. CASE \E lines \in Seq(Seq(Nat)) : g = <<"multilinestring", lines>>
  <2>1. PICK lines \in Seq(Seq(Nat)) : g = <<"multilinestring", lines>>
    BY <1>9
  <2>2. Normal[g] = <<"multilinestring", lines>>
    BY <1>1, <2>1 DEF NormalOf
  <2>3. \A t, p : Sound(t) /\ p \in Int /\ p < Len(t.shapes) =>
            ComesOut(t, p, EncodeParts(EncodeGeometry, "multilinestring", lines, t, p), "multilinestring", lines)
    BY LinesComeOut
  <2>4. \A t, p : Sound(t) /\ p \in Int =>
            EncodeGeometry[g][Place(t, p)] = EncodeParts(EncodeGeometry, "multilinestring", lines, t, p)
    BY <1>3, <2>1, EncodesByKind
  <2>5. \A t, p : Sound(t) /\ p \in Int /\ p < Len(t.shapes) =>
            ComesOut(t, p, EncodeGeometry[g][Place(t, p)], "multilinestring", lines)
    BY <2>3, <2>4
  <2> QED
    BY <2>2, <2>5, ComesOutIs
<1>10. CASE \E polygons \in Seq(PolygonType) : g = <<"multipolygon", polygons>>
  <2>1. PICK polygons \in Seq(PolygonType) : g = <<"multipolygon", polygons>>
    BY <1>10
  <2>2. DOMAIN polygons = 1 .. Len(polygons)
    BY LenProperties
  <2>3. \A k \in 1 .. Len(polygons) : polygons[k] \in PolygonsOf[g]
    BY <1>2, <2>1, <2>2 DEF AllPolygons, Range
  <2>4. \A k \in 1 .. Len(polygons) :
            HasExterior(polygons[k])
    BY <2>3, HasExteriors
  <2> DEFINE y == [k \in 1 .. Len(polygons) |-> NormalPolygon(polygons[k])]
  <2>5. y = [k \in DOMAIN polygons |-> NormalPolygon(polygons[k])]
    BY <2>2, <2>4
  <2>6. Normal[g] = <<"multipolygon", [k \in DOMAIN polygons |-> NormalPolygon(polygons[k])]>>
    BY <1>1, <2>1 DEF NormalOf
  <2>7. \A t, p : Sound(t) /\ p \in Int /\ p < Len(t.shapes) =>
            ComesOut(t, p, EncodeParts(EncodeGeometry, "multipolygon", polygons, t, p), "multipolygon", y)
    BY <2>4, PolygonsComeOut
  <2> HIDE DEF y
  <2>8. \A t, p : Sound(t) /\ p \in Int =>
            EncodeGeometry[g][Place(t, p)] = EncodeParts(EncodeGeometry, "multipolygon", polygons, t, p)
    BY <1>3, <2>1, EncodesByKind
  <2>9. \A t, p : Sound(t) /\ p \in Int /\ p < Len(t.shapes) =>
            ComesOut(t, p, EncodeGeometry[g][Place(t, p)], "multipolygon", y)
    BY <2>7, <2>8
  <2> QED
    BY <2>5, <2>6, <2>9, ComesOutIs
<1> QED
  BY <1>4, <1>5, <1>6, <1>7, <1>8, <1>9, <1>10, SimpleKinds

LEMMA CollectionComesBack ==
    ASSUME NEW n \in 0 .. MaxNesting - 1, NEW parts \in Seq(NestedUpTo[n]),
           \A g \in NestedUpTo[n] : ~NoExterior(g) => ComesBackAs(g, Normal[g])
    PROVE  LET g == <<"collection", parts>>
           IN  g \in Geometries /\ (~NoExterior(g) => ComesBackAs(g, Normal[g]))
<1> DEFINE g == <<"collection", parts>>
           y == [k \in 1 .. Len(parts) |-> Normal[parts[k]]]
<1>1. g \in Geometries
  <2>1. n + 1 \in 0 .. MaxNesting
    BY NestingAssumption
  <2>2. g \in NestedUpTo[n + 1]
    BY LevelAbove
  <2> QED
    BY <2>1, <2>2, LevelsAscend
<1>2. /\ Len(parts) \in Nat /\ DOMAIN parts = 1 .. Len(parts)
      /\ \A k \in 1 .. Len(parts) : parts[k] \in NestedUpTo[n]
  BY LenProperties, ElementOfSeq
<1>3. Normal[g] = <<"collection", y>>
  <2>1. Normal[g] = NormalOf(Normal, g)
    BY <1>1, NormalIs
  <2>2. NormalOf(Normal, g) = <<"collection", [k \in DOMAIN parts |-> Normal[parts[k]]]>>
    BY DEF NormalOf
  <2> QED
    BY <1>2, <2>1, <2>2
<1>4. PolygonsOf[g] = UNION {PolygonsOf[h] : h \in Range(parts)}
  <2>1. PolygonsOf[g] = AllPolygons(PolygonsOf, g)
    BY <1>1, PolygonsOfIs
  <2>2. AllPolygons(PolygonsOf, g) = UNION {PolygonsOf[h] : h \in Range(parts)}
    BY DEF AllPolygons
  <2> QED
    BY <2>1, <2>2
<1>5. ASSUME ~NoExterior(g) PROVE \A k \in 1 .. Len(parts) : ComesBackAs(parts[k], Normal[parts[k]])
  <2> TAKE k \in 1 .. Len(parts)
  <2>1. parts[k] \in Range(parts)
    BY <1>2 DEF Range
  <2>2. \A polygon \in PolygonsOf[parts[k]] : polygon \in PolygonsOf[g]
    BY <1>4, <2>1
  <2> HIDE DEF g
  <2>3. ~NoExterior(parts[k])
    BY <1>5, <2>2 DEF NoExterior
  <2> QED
    BY <1>2, <2>3
<1>6. ASSUME ~NoExterior(g) PROVE ComesBackAs(g, Normal[g])
  <2>1. \A k \in 1 .. Len(parts) : ComesBackAs(parts[k], y[k])
    BY <1>5, <1>6
  <2>2. y = [k \in 1 .. Len(parts) |-> y[k]]
    OBVIOUS
  <2>3. g[1] = "collection" /\ g[2] = parts
    OBVIOUS
  <2> HIDE DEF y, g
  <2>4. \A t, p : Sound(t) /\ p \in Int /\ p < Len(t.shapes) =>
            ComesOut(t, p, EncodeParts(EncodeGeometry, "collection", parts, t, p), "collection", y)
    BY <2>1, <2>2, CollectionComesOut
  <2>5. \A t, p : Sound(t) /\ p \in Int =>
            EncodeGeometry[g][Place(t, p)] = EncodeParts(EncodeGeometry, "collection", parts, t, p)
    BY <1>1, <2>3, EncodesByKind DEF Sound
  <2>6. \A t, p : Sound(t) /\ p \in Int /\ p < Len(t.shapes) =>
            ComesOut(t, p, EncodeGeometry[g][Place(t, p)], "collection", y)
    BY <2>4, <2>5
  <2> QED
    BY <1>3, <2>6, ComesOutIs
<1> HIDE DEF g
<1> QED
  BY <1>1, <1>6 DEF g

\* Every geometry comes back wherever it is put: what encode_geometry writes after
\* whatever else the tables hold, build_shape rebuilds from them, and from all
\* tables that go on from these.
THEOREM GeometryComesBack ==
    \A g \in Geometries : ~NoExterior(g) => ComesBackAs(g, Normal[g])
<1> DEFINE P == {g \in Geometries : ~NoExterior(g) => ComesBackAs(g, Normal[g])}
<1>1. Simple \subseteq P
  <2> SUFFICES ASSUME NEW g \in Simple PROVE g \in P
    OBVIOUS
  <2>1. g \in Geometries
    BY LevelAbove, LevelsAscend, NestingAssumption, 0 \in 0 .. MaxNesting
  <2> QED
    BY <2>1, SimpleComesBack
<1>2. ASSUME NEW n \in 0 .. MaxNesting - 1, NestedUpTo[n] \subseteq P, NEW parts \in Seq(NestedUpTo[n])
      PROVE  <<"collection", parts>> \in P
  <2> DEFINE g == <<"collection", parts>>
  <2>1. \A h \in NestedUpTo[n] : ~NoExterior(h) => ComesBackAs(h, Normal[h])
    BY <1>2
  <2>2. g \in Geometries /\ (~NoExterior(g) => ComesBackAs(g, Normal[g]))
    BY <2>1, CollectionComesBack
  <2> HIDE DEF g
  <2>3. g \in P
    BY <2>2
  <2> QED
    BY <2>3 DEF g
<1> HIDE DEF P
<1>3. \A n \in 0 .. MaxNesting : NestedUpTo[n] \subseteq P
  BY <1>1, <1>2, GeometryInduction
<1>4. MaxNesting \in 0 .. MaxNesting
  BY NestingAssumption
<1>5. Geometries \subseteq P
  BY <1>3, <1>4 DEF Geometries
<1> QED
  BY <1>5 DEF P

-----------------------------------------------------------------------------
(* The only geometry in its tables. *)

\* What a geometry makes when it is the only one.
Alone(g) == EncodeGeometry[g][Place(NoTables, -1)]

LEMMA NothingIsSound == Sound(NoTables) /\ Len(NoTables.shapes) = 0 /\ Len(NoTables.figures) = 0
<1>1. NoTables \in Tables
  BY DEF NoTables, Tables
<1>2. Len(NoTables.shapes) = 0 /\ Len(NoTables.figures) = 0
  BY DEF NoTables
<1> QED
  BY <1>1, <1>2 DEF Sound

LEMMA AloneIsRead ==
    ASSUME NEW g \in Geometries, ~NoExterior(g)
    PROVE  /\ Sound(Alone(g))
           /\ 1 \in 1 .. Len(Alone(g).shapes)
           /\ Alone(g).shapes[1].parent = -1
           /\ BuildShape(1, Alone(g)) = Built(Normal[g])
<1> DEFINE e == Alone(g)
<1>1. /\ Grown(NoTables, -1, e)
      /\ \A T : Follows(NoTables, e, T) => BuildShape(Len(NoTables.shapes) + 1, T) = Built(Normal[g])
  <2>1. ComesBackAs(g, Normal[g])
    BY GeometryComesBack
  <2>2. Sound(NoTables) /\ -1 \in Int /\ -1 < Len(NoTables.shapes)
    BY NothingIsSound
  <2> QED
    BY <2>1, <2>2 DEF ComesBackAs, Alone
<1> HIDE DEF e
<1>2. Sound(e) /\ 0 < Len(e.shapes) /\ e.shapes[1].parent = -1
  BY <1>1, NothingIsSound DEF Grown
<1>3. e \in Tables /\ Len(e.shapes) \in Nat
  BY <1>2, TablesHave DEF Sound
<1>4. Follows(NoTables, e, e)
  <2>1. Extends(e, e) /\ Led(e, e)
    BY <1>3, ExtendsSelf
  <2>2. Len(e.shapes) + 1 .. Len(e.shapes) = {}
    BY <1>3
  <2> QED
    BY <1>2, <2>1, <2>2 DEF Follows
<1>5. BuildShape(1, e) = Built(Normal[g])
  BY <1>1, <1>4, NothingIsSound
<1> QED
  BY <1>2, <1>3, <1>5 DEF e

LEMMA ShapeHasItsType ==
    ASSUME NEW T, Sound(T), NEW i \in 1 .. Len(T.shapes), NEW y, BuildShape(i, T) = Built(y)
    PROVE  y[1] = T.shapes[i].type
<1>1. ShapeAt(i, T, ShapesOf(T)) = Built(y)
  BY BuildShapeIs
<1>2. \E parts : ShapeAt(i, T, ShapesOf(T))
                     = IF parts = Broken THEN Broken ELSE Built(<<T.shapes[i].type, parts[1]>>)
  BY Zenon DEF ShapeAt
<1> QED
  BY <1>1, <1>2 DEF Built, Broken

LEMMA KindsAre ==
    ASSUME NEW g \in Geometries
    PROVE  /\ Normal[g][1] = "point" => \E x \in Nat : g = <<"point", x>>
           /\ Normal[g][1] = "linestring" =>
                  \/ \E a, b \in Nat : g = <<"line", <<a, b>>>>
                  \/ \E points \in Seq(Nat) : g = <<"linestring", points>>
<1>1. Normal[g] = NormalOf(Normal, g)
  BY NormalIs
<1>2. \A h : NormalOf(Normal, h)[1] = IF h[1] = "line" THEN "linestring" ELSE h[1]
  BY DEF NormalOf
<1>3. MaxNesting \in 0 .. MaxNesting
  BY NestingAssumption
<1>4. g \in Simple \/ g[1] = "collection"
  BY <1>3, LevelHas DEF Geometries
<1>5. CASE g \in Simple
  BY <1>1, <1>2, <1>5, SimpleKinds
<1>6. CASE g[1] = "collection"
  BY <1>1, <1>2, <1>6
<1> QED
  BY <1>4, <1>5, <1>6

\* The short forms stand for the tables they are short for.
LEMMA PointIsItsPoints ==
    ASSUME NEW g \in Geometries, NEW x \in Nat, g = <<"point", x>>
    PROVE  Alone(g) = EncodeStroke(NoTables, -1, Alone(g).points, "point")
<1>1. NoTables \in Tables /\ g[1] = "point" /\ g[2] = x
  BY NothingIsSound DEF Sound
<1>2. Alone(g) = EncodeStroke(NoTables, -1, <<x>>, "point")
  BY <1>1, EncodesByKind DEF Alone
<1>3. EncodeStroke(NoTables, -1, <<x>>, "point").points = <<x>>
  BY DEF EncodeStroke, PushShape, PushFigure, NoTables
<1> QED
  BY <1>2, <1>3

LEMMA StrokeIsItsPoints ==
    ASSUME NEW points \in Seq(Nat)
    PROVE  EncodeStroke(NoTables, -1, points, "linestring").points = points
BY DEF EncodeStroke, PushShape, PushFigure, NoTables

LEMMA LineIsItsPoints ==
    ASSUME NEW g \in Geometries,
           \/ \E a, b \in Nat : g = <<"line", <<a, b>>>>
           \/ \E points \in Seq(Nat) : g = <<"linestring", points>>,
           Len(Alone(g).points) = 2
    PROVE  Alone(g) = EncodeStroke(NoTables, -1, Alone(g).points, "linestring")
<1>0. NoTables \in Tables /\ -1 \in Int
  BY NothingIsSound DEF Sound
<1>1. CASE \E a, b \in Nat : g = <<"line", <<a, b>>>>
  <2>1. PICK a \in Nat, b \in Nat : g = <<"line", <<a, b>>>>
    BY <1>1
  <2> DEFINE points == <<a, b>>
  <2>2. points \in Seq(Nat) /\ g[1] = "line" /\ g[2] = points
    BY <2>1
  <2> HIDE DEF points
  <2>3. Alone(g) = EncodeStroke(NoTables, -1, points, "linestring")
    BY <1>0, <2>2, EncodesByKind DEF Alone
  <2> QED
    BY <2>2, <2>3, StrokeIsItsPoints
<1>2. CASE \E points \in Seq(Nat) : g = <<"linestring", points>>
  <2>1. PICK points \in Seq(Nat) : g = <<"linestring", points>>
    BY <1>2
  <2>2. g[1] = "linestring" /\ g[2] = points
    BY <2>1
  <2>3. Alone(g) = EncodeLineString(NoTables, -1, points)
    BY <1>0, <2>2, EncodesByKind DEF Alone
  <2>4. CASE points = <<>>
    <3>1. Alone(g) = PushEmptyShape(NoTables, -1, "linestring")
      BY <2>3, <2>4 DEF EncodeLineString
    <3>2. Alone(g).points = <<>>
      BY <3>1 DEF PushEmptyShape, PushShape, NoTables
    <3> QED
      BY <3>2
  <2>5. CASE points # <<>>
    <3>1. Alone(g) = EncodeStroke(NoTables, -1, points, "linestring")
      BY <2>3, <2>5 DEF EncodeLineString
    <3> QED
      BY <3>1, StrokeIsItsPoints
  <2> QED
    BY <2>4, <2>5
<1> QED
  BY <1>1, <1>2

-----------------------------------------------------------------------------
(* What a geometry comes back as is encoded as it was. *)

\* Rings none of which is empty are all kept.
LEMMA NonEmptyAgain ==
    ASSUME NEW rings \in FullRings
    PROVE  NonEmpty(rings) = rings
<1> DEFINE n == Len(rings)
           c == [k \in 1 .. n |-> k]
           S == {i \in DOMAIN rings : rings[i] # <<>>}
<1>1. /\ n \in Nat /\ DOMAIN rings = 1 .. n /\ rings = [k \in 1 .. n |-> rings[k]]
      /\ \A k \in 1 .. n : rings[k] # <<>>
  BY FullRingsHave
<1>2. NonEmpty(rings) = [k \in DOMAIN InOrder(S) |-> rings[InOrder(S)[k]]]
  BY DEF NonEmpty
<1> HIDE DEF n
<1>3. c \in [1 .. n -> Nat] /\ Ascends(c) /\ DOMAIN c = 1 .. n /\ \A k \in 1 .. n : c[k] = k
  BY <1>1 DEF Ascends
<1>4. \A x : x \in S <=> \E i \in 1 .. n : x = c[i]
  BY <1>1
<1> HIDE DEF S, c
<1>5. InOrder(S) = c
  BY <1>1, <1>3, <1>4, InOrderIs
<1> QED
  BY <1>1, <1>2, <1>3, <1>5

\* A polygon is encoded by its exterior ring and the rings that are kept.
LEMMA EncodesRings ==
    ASSUME NEW t, NEW p, NEW polygon
    PROVE  LET exterior == polygon.exterior
               rings == NonEmpty(polygon.interiors)
           IN  EncodePolygon(t, p, polygon)
               = IF exterior = <<>> /\ rings = <<>> THEN PushEmptyShape(t, p, "polygon")
                 ELSE PushShape(Pushed(t, exterior, rings)[Len(rings)], p, Len(t.figures), "polygon")
BY DEF EncodePolygon, Pushed

LEMMA NormalPolygonIs ==
    ASSUME NEW polygon \in PolygonType
    PROVE  /\ NormalPolygon(polygon) \in PolygonType
           /\ \A t, p : EncodePolygon(t, p, NormalPolygon(polygon)) = EncodePolygon(t, p, polygon)
<1> DEFINE normal == NormalPolygon(polygon)
           rings == NonEmpty(polygon.interiors)
<1>1. polygon.exterior \in Rings /\ polygon.interiors \in Seq(Rings)
  BY DEF PolygonType
<1>2. rings \in Seq(Rings) /\ rings \in FullRings
  BY <1>1, NonEmptyIs DEF FullRings
<1>3. normal.exterior = polygon.exterior /\ normal.interiors = rings
  BY DEF NormalPolygon, Polygon
<1>4. normal \in PolygonType
  BY <1>1, <1>2 DEF NormalPolygon, Polygon, PolygonType
<1>5. NonEmpty(normal.interiors) = rings
  BY <1>2, <1>3, NonEmptyAgain
<1> HIDE DEF normal, rings
<1>6. \A t, p : EncodePolygon(t, p, normal) = EncodePolygon(t, p, polygon)
  <2> TAKE t, p
  <2>1. EncodePolygon(t, p, normal)
        = IF normal.exterior = <<>> /\ rings = <<>> THEN PushEmptyShape(t, p, "polygon")
          ELSE PushShape(Pushed(t, normal.exterior, rings)[Len(rings)], p, Len(t.figures), "polygon")
    BY <1>5, EncodesRings
  <2>2. EncodePolygon(t, p, polygon)
        = IF polygon.exterior = <<>> /\ rings = <<>> THEN PushEmptyShape(t, p, "polygon")
          ELSE PushShape(Pushed(t, polygon.exterior, rings)[Len(rings)], p, Len(t.figures), "polygon")
    BY EncodesRings DEF rings
  <2> QED
    BY <1>3, <2>1, <2>2
<1> QED
  BY <1>4, <1>6 DEF normal

\* Parts that are encoded alike make a whole that is.
LEMMA PartsAlike ==
    ASSUME NEW E, NEW kind, NEW parts, NEW others, Len(parts) \in Nat, Len(others) = Len(parts),
           (parts = <<>>) <=> (others = <<>>),
           \A k \in 1 .. Len(parts) : \A t, i :
               EncodePart(E, kind, t, i, others[k]) = EncodePart(E, kind, t, i, parts[k]),
           NEW t, NEW p
    PROVE  EncodeParts(E, kind, others, t, p) = EncodeParts(E, kind, parts, t, p)
<1> DEFINE n == Len(parts)
           Rule(q, f, k) == IF k = 0 THEN PushShape(t, p, Len(t.figures), kind)
                            ELSE EncodePart(E, kind, f[k - 1], Len(t.shapes), q[k])
<1>1. ASSUME NEW f, NEW k \in 0 .. n PROVE Rule(others, f, k) = Rule(parts, f, k)
  <2>1. k = 0 \/ k \in 1 .. n
    OBVIOUS
  <2> QED
    BY <2>1
<1>2. /\ Parted(E, kind, others, t, p) = CHOOSE f : f = [k \in 0 .. n |-> Rule(others, f, k)]
      /\ Parted(E, kind, parts, t, p) = CHOOSE f : f = [k \in 0 .. n |-> Rule(parts, f, k)]
  BY DEF Parted
<1> HIDE DEF Rule, n
<1>3. \A f : (f = [k \in 0 .. n |-> Rule(others, f, k)]) <=> (f = [k \in 0 .. n |-> Rule(parts, f, k)])
  <2> TAKE f
  <2>1. [k \in 0 .. n |-> Rule(others, f, k)] = [k \in 0 .. n |-> Rule(parts, f, k)]
    BY <1>1
  <2> QED
    BY <2>1
<1>4. (CHOOSE f : f = [k \in 0 .. n |-> Rule(others, f, k)])
      = (CHOOSE f : f = [k \in 0 .. n |-> Rule(parts, f, k)])
  BY <1>3
<1>5. Parted(E, kind, others, t, p) = Parted(E, kind, parts, t, p)
  BY <1>2, <1>4
<1> QED
  BY <1>5, EncodePartsAre

\* A geometry and what it comes back as are encoded alike.
Alike(g, h) == \A t \in Tables, p \in Int : EncodeGeometry[h][Place(t, p)] = EncodeGeometry[g][Place(t, p)]

LEMMA AlikeIsSame ==
    ASSUME NEW g \in Geometries, NEW h \in Geometries, Alike(g, h)
    PROVE  EncodeGeometry[h] = EncodeGeometry[g]
<1>1. /\ EncodeGeometry[g] = [place \in Places |-> EncodesAs(EncodeGeometry, g, place)]
      /\ EncodeGeometry[h] = [place \in Places |-> EncodesAs(EncodeGeometry, h, place)]
  BY EncodeGeometryIs
<1>2. ASSUME NEW place \in Places
      PROVE  EncodesAs(EncodeGeometry, h, place) = EncodesAs(EncodeGeometry, g, place)
  <2>1. place.tables \in Tables /\ place.parent \in Int /\ place = Place(place.tables, place.parent)
    BY DEF Places, Place
  <2>2. EncodeGeometry[h][place] = EncodeGeometry[g][place]
    BY <2>1 DEF Alike
  <2> QED
    BY <1>1, <2>2
<1> QED
  BY <1>1, <1>2

\* Parts that are replaced one by one.
LEMMA Replaced ==
    ASSUME NEW X, NEW Y, NEW parts \in Seq(X),
           NEW others \in [1 .. Len(parts) -> Y]
    PROVE  /\ others \in Seq(Y) /\ Len(parts) \in Nat /\ Len(others) = Len(parts)
           /\ (parts = <<>>) <=> (others = <<>>)
           /\ DOMAIN parts = 1 .. Len(parts)
           /\ \A k \in 1 .. Len(parts) : parts[k] \in X
<1>1. Len(parts) \in Nat /\ DOMAIN parts = 1 .. Len(parts) /\ \A k \in 1 .. Len(parts) : parts[k] \in X
  BY LenProperties, ElementOfSeq
<1> DEFINE n == Len(parts)
<1> HIDE DEF n
<1>2. others \in [1 .. n -> Y] /\ n \in Nat
  BY <1>1 DEF n
<1>3. others \in Seq(Y)
  BY <1>2, IsASeq
<1>4. DOMAIN others = 1 .. n /\ DOMAIN others = 1 .. Len(others) /\ Len(others) \in Nat
  BY <1>2, <1>3, LenProperties
<1>5. Len(others) = n
  BY <1>2, <1>3, <1>4, LenProperties
<1>6. parts = <<>> <=> n = 0
  BY <1>1, EmptySeq DEF n
<1>7. others = <<>> <=> n = 0
  BY <1>3, <1>5, EmptySeq
<1> QED
  BY <1>1, <1>3, <1>5, <1>6, <1>7 DEF n

LEMMA SimpleNormal ==
    ASSUME NEW g \in Simple, g \in Geometries, Simple \subseteq Geometries
    PROVE  Normal[g] \in Simple /\ Alike(g, Normal[g])
<1>1. Normal[g] = NormalOf(Normal, g)
  BY NormalIs
<1>2. \A h \in Simple : h \in Geometries
  OBVIOUS
<1>3. CASE g[1] \in {"point", "linestring", "multipoint", "multilinestring"}
  <2>1. Normal[g] = g
    BY <1>1, <1>3 DEF NormalOf
  <2> QED
    BY <2>1 DEF Alike
<1>4. CASE \E a, b \in Nat : g = <<"line", <<a, b>>>>
  <2>1. PICK a \in Nat, b \in Nat : g = <<"line", <<a, b>>>>
    BY <1>4
  <2> DEFINE points == <<a, b>>
             h == <<"linestring", points>>
  <2>2. points \in Seq(Nat) /\ points # <<>> /\ g[1] = "line" /\ g[2] = points
    BY <2>1
  <2>3. Normal[g] = h
    BY <1>1, <2>1 DEF NormalOf
  <2> HIDE DEF points
  <2>4. h \in Simple
    BY <2>2 DEF Simple
  <2>5. h \in Geometries /\ h[1] = "linestring" /\ h[2] = points
    BY <1>2, <2>4
  <2> HIDE DEF h
  <2>6. \A t \in Tables, p \in Int :
            /\ EncodeGeometry[g][Place(t, p)] = EncodeStroke(t, p, points, "linestring")
            /\ EncodeGeometry[h][Place(t, p)] = EncodeLineString(t, p, points)
    BY <2>2, <2>5, EncodesByKind
  <2>7. \A t, p : EncodeLineString(t, p, points) = EncodeStroke(t, p, points, "linestring")
    BY <2>2 DEF EncodeLineString
  <2> QED
    BY <2>3, <2>4, <2>6, <2>7 DEF Alike
<1>5. CASE \E polygon \in PolygonType : g = <<"polygon", polygon>>
  <2>1. PICK polygon \in PolygonType : g = <<"polygon", polygon>>
    BY <1>5
  <2> DEFINE normal == NormalPolygon(polygon)
             h == <<"polygon", normal>>
  <2>2. normal \in PolygonType /\ \A t, p : EncodePolygon(t, p, normal) = EncodePolygon(t, p, polygon)
    BY NormalPolygonIs
  <2>3. Normal[g] = h /\ g[1] = "polygon" /\ g[2] = polygon
    BY <1>1, <2>1 DEF NormalOf
  <2> HIDE DEF normal
  <2>4. h \in Simple
    BY <2>2 DEF Simple
  <2>5. h \in Geometries /\ h[1] = "polygon" /\ h[2] = normal
    BY <1>2, <2>4
  <2> HIDE DEF h
  <2>6. \A t \in Tables, p \in Int :
            /\ EncodeGeometry[g][Place(t, p)] = EncodePolygon(t, p, polygon)
            /\ EncodeGeometry[h][Place(t, p)] = EncodePolygon(t, p, normal)
    BY <2>3, <2>5, EncodesByKind
  <2> QED
    BY <2>2, <2>3, <2>4, <2>6 DEF Alike
<1>6. CASE \E polygons \in Seq(PolygonType) : g = <<"multipolygon", polygons>>
  <2>1. PICK polygons \in Seq(PolygonType) : g = <<"multipolygon", polygons>>
    BY <1>6
  <2> DEFINE normal == [k \in DOMAIN polygons |-> NormalPolygon(polygons[k])]
             h == <<"multipolygon", normal>>
  <2>2. Normal[g] = h /\ g[1] = "multipolygon" /\ g[2] = polygons
    BY <1>1, <2>1 DEF NormalOf
  <2>3. /\ DOMAIN polygons = 1 .. Len(polygons)
        /\ \A k \in 1 .. Len(polygons) : polygons[k] \in PolygonType
    BY LenProperties, ElementOfSeq
  <2>4. \A k \in 1 .. Len(polygons) :
            /\ normal[k] \in PolygonType
            /\ \A t, p : EncodePolygon(t, p, normal[k]) = EncodePolygon(t, p, polygons[k])
    BY <2>3, NormalPolygonIs
  <2>5. normal = [k \in DOMAIN polygons |-> normal[k]]
    OBVIOUS
  <2> HIDE DEF normal
  <2>6. /\ normal \in Seq(PolygonType) /\ Len(polygons) \in Nat /\ Len(normal) = Len(polygons)
        /\ (polygons = <<>>) <=> (normal = <<>>)
    <3>1. normal \in [1 .. Len(polygons) -> PolygonType]
      <4>1. \A k \in 1 .. Len(polygons) : normal[k] \in PolygonType
        BY <2>4
      <4> QED
        BY <2>3, <2>5, <4>1
    <3> HIDE DEF h
    <3> QED
      BY <3>1, Replaced
  <2>7. h \in Simple
    BY <2>6 DEF Simple
  <2>8. h \in Geometries /\ h[1] = "multipolygon" /\ h[2] = normal
    BY <1>2, <2>7
  <2>9. \A k \in 1 .. Len(polygons) : \A t, i :
            EncodePart(EncodeGeometry, "multipolygon", t, i, normal[k])
                = EncodePart(EncodeGeometry, "multipolygon", t, i, polygons[k])
    BY <2>4 DEF EncodePart
  <2>10. \A t, p : EncodeParts(EncodeGeometry, "multipolygon", normal, t, p)
                       = EncodeParts(EncodeGeometry, "multipolygon", polygons, t, p)
    BY <2>6, <2>9, PartsAlike
  <2> HIDE DEF h
  <2>11. \A t \in Tables, p \in Int :
             EncodeGeometry[g][Place(t, p)] = EncodeParts(EncodeGeometry, "multipolygon", polygons, t, p)
    BY <2>2, EncodesByKind
  <2>12. \A t \in Tables, p \in Int :
             EncodeGeometry[h][Place(t, p)] = EncodeParts(EncodeGeometry, "multipolygon", normal, t, p)
    BY <2>8, EncodesByKind
  <2> QED
    BY <2>2, <2>7, <2>10, <2>11, <2>12 DEF Alike
<1> QED
  BY <1>3, <1>4, <1>5, <1>6, SimpleKinds

LEMMA CollectionNormal ==
    ASSUME NEW n \in 0 .. MaxNesting - 1, NEW parts \in Seq(NestedUpTo[n]),
           \A h \in NestedUpTo[n] :
               Normal[h] \in NestedUpTo[n] /\ EncodeGeometry[Normal[h]] = EncodeGeometry[h]
    PROVE  LET g == <<"collection", parts>>
           IN  Normal[g] \in NestedUpTo[n + 1] /\ Alike(g, Normal[g])
<1> DEFINE g == <<"collection", parts>>
           normal == [k \in DOMAIN parts |-> Normal[parts[k]]]
           h == <<"collection", normal>>
<1>0. n + 1 \in 0 .. MaxNesting
  BY NestingAssumption
<1>1. /\ DOMAIN parts = 1 .. Len(parts)
      /\ \A k \in 1 .. Len(parts) : parts[k] \in NestedUpTo[n]
  BY LenProperties, ElementOfSeq
<1>2. g \in NestedUpTo[n + 1]
  BY LevelAbove
<1>3. g \in Geometries /\ g[1] = "collection" /\ g[2] = parts
  BY <1>0, <1>2, LevelsAscend
<1>4. Normal[g] = h
  <2>1. Normal[g] = NormalOf(Normal, g)
    BY <1>3, NormalIs
  <2> QED
    BY <2>1 DEF NormalOf
<1>5. normal = [k \in DOMAIN parts |-> normal[k]]
  OBVIOUS
<1>6. \A k \in 1 .. Len(parts) :
          /\ normal[k] \in NestedUpTo[n]
          /\ EncodeGeometry[normal[k]] = EncodeGeometry[parts[k]]
  BY <1>1
<1> HIDE DEF normal, g
<1>7. /\ normal \in Seq(NestedUpTo[n]) /\ Len(parts) \in Nat /\ Len(normal) = Len(parts)
      /\ (parts = <<>>) <=> (normal = <<>>)
  <2>1. normal \in [1 .. Len(parts) -> NestedUpTo[n]]
    BY <1>1, <1>5, <1>6
  <2> HIDE DEF h
  <2> QED
    BY <2>1, Replaced
<1>8. h \in NestedUpTo[n + 1]
  BY <1>7, LevelAbove
<1>9. h \in Geometries /\ h[1] = "collection" /\ h[2] = normal
  BY <1>0, <1>8, LevelsAscend
<1>10. \A k \in 1 .. Len(parts) : \A t, i :
           EncodePart(EncodeGeometry, "collection", t, i, normal[k])
               = EncodePart(EncodeGeometry, "collection", t, i, parts[k])
  BY <1>6 DEF EncodePart
<1> HIDE DEF h
<1>11. \A t, p : EncodeParts(EncodeGeometry, "collection", normal, t, p)
                     = EncodeParts(EncodeGeometry, "collection", parts, t, p)
  BY <1>7, <1>10, PartsAlike
<1>12. \A t \in Tables, p \in Int :
           EncodeGeometry[g][Place(t, p)] = EncodeParts(EncodeGeometry, "collection", parts, t, p)
  <2> SUFFICES ASSUME NEW t \in Tables, NEW p \in Int
               PROVE  EncodeGeometry[g][Place(t, p)]
                          = EncodeParts(EncodeGeometry, "collection", parts, t, p)
    OBVIOUS
  <2>1. EncodeGeometry[g][Place(t, p)] = EncodeParts(EncodeGeometry, g[1], g[2], t, p)
    BY <1>3, EncodesWithParts
  <2> QED
    BY <1>3, <2>1
<1>13. \A t \in Tables, p \in Int :
           EncodeGeometry[h][Place(t, p)] = EncodeParts(EncodeGeometry, "collection", normal, t, p)
  <2> SUFFICES ASSUME NEW t \in Tables, NEW p \in Int
               PROVE  EncodeGeometry[h][Place(t, p)]
                          = EncodeParts(EncodeGeometry, "collection", normal, t, p)
    OBVIOUS
  <2>1. EncodeGeometry[h][Place(t, p)] = EncodeParts(EncodeGeometry, h[1], h[2], t, p)
    BY <1>9, EncodesWithParts
  <2> QED
    BY <1>9, <2>1
<1>14. Normal[g] \in NestedUpTo[n + 1] /\ Alike(g, Normal[g])
  BY <1>4, <1>8, <1>11, <1>12, <1>13 DEF Alike
<1> QED
  BY <1>14 DEF g

\* Whatever a geometry comes back as is a geometry, and is encoded as it was.
THEOREM NormalIsSame ==
    \A g \in Geometries : Normal[g] \in Geometries /\ EncodeGeometry[Normal[g]] = EncodeGeometry[g]
<1> DEFINE Good(n) == \A g \in NestedUpTo[n] :
                          Normal[g] \in NestedUpTo[n] /\ EncodeGeometry[Normal[g]] = EncodeGeometry[g]
           S == {n \in Int : Good(n)}
<1>0. MaxNesting \in Nat /\ \A n \in 0 .. MaxNesting : NestedUpTo[n] \subseteq Geometries
  BY NestingAssumption, LevelsAscend
<1>1. Simple \subseteq Geometries /\ NestedUpTo[0] = Simple
  BY <1>0, LevelAbove, 0 \in 0 .. MaxNesting
<1>2. \A g \in Simple : Normal[g] \in Simple /\ EncodeGeometry[Normal[g]] = EncodeGeometry[g]
  <2> TAKE g \in Simple
  <2>1. g \in Geometries /\ Normal[g] \in Simple /\ Alike(g, Normal[g])
    BY <1>1, SimpleNormal
  <2>2. Normal[g] \in Geometries
    BY <1>1, <2>1
  <2> QED
    BY <2>1, <2>2, AlikeIsSame
<1>3. 0 \in S
  BY <1>1, <1>2
<1>4. ASSUME NEW n \in 0 .. MaxNesting - 1, n \in S PROVE n + 1 \in S
  <2>1. n + 1 \in 0 .. MaxNesting /\ n + 1 \in Int /\ n \in 0 .. MaxNesting
    BY <1>0
  <2>2. \A h \in NestedUpTo[n] :
            Normal[h] \in NestedUpTo[n] /\ EncodeGeometry[Normal[h]] = EncodeGeometry[h]
    BY <1>4
  <2>3. NestedUpTo[n + 1] = NestedUpTo[n] \cup ({"collection"} \X Seq(NestedUpTo[n]))
    BY LevelAbove
  <2>4. \A parts \in Seq(NestedUpTo[n]) :
            LET g == <<"collection", parts>>
            IN  Normal[g] \in NestedUpTo[n + 1] /\ Alike(g, Normal[g])
    BY <2>2, CollectionNormal
  <2>5. ASSUME NEW g \in NestedUpTo[n + 1]
        PROVE  Normal[g] \in NestedUpTo[n + 1] /\ EncodeGeometry[Normal[g]] = EncodeGeometry[g]
    <3>1. CASE g \in NestedUpTo[n]
      BY <2>2, <2>3, <3>1
    <3>2. CASE g \in {"collection"} \X Seq(NestedUpTo[n])
      <4>1. PICK parts \in Seq(NestedUpTo[n]) : g = <<"collection", parts>>
        BY <3>2
      <4>2. Normal[g] \in NestedUpTo[n + 1] /\ Alike(g, Normal[g])
        BY <2>4, <4>1
      <4>3. g \in Geometries /\ Normal[g] \in Geometries
        BY <1>0, <2>1, <4>2
      <4> QED
        BY <4>2, <4>3, AlikeIsSame
    <3> QED
      BY <2>3, <3>1, <3>2
  <2> QED
    BY <2>1, <2>5
<1>5. \A n \in 0 .. MaxNesting : n \in S
  <2>1. 0 \in Int /\ MaxNesting \in Int
    BY <1>0
  <2> HIDE DEF S
  <2> QED
    BY <1>3, <1>4, <2>1, Reaches
<1>6. Good(MaxNesting)
  BY <1>0, <1>5
<1> QED
  BY <1>6 DEF Geometries

=============================================================================
