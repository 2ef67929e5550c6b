--------------------------- MODULE DescribeProofs ---------------------------
(***************************************************************************)
(* Proofs about Describe and TypeInference, for any statements and any     *)
(* builds.                                                                 *)
(*                                                                         *)
(* Which Rust type the query macros take: they look for the first entry of *)
(* a list that is exactly the type, then for the first compatible one;     *)
(* what they take follows from the places of the kinds in the lists,       *)
(* whatever sections the build leaves out.                                 *)
(*                                                                         *)
(* What describe collects: whatever the order of the server's answers,     *)
(* sorting by ordinal gives the one ascending list of the parameters it    *)
(* sees; and when it sees as many as there are markers, that list is       *)
(* 1, 2, 3, ..., so the k-th type is the k-th marker's.                    *)
(***************************************************************************)
EXTENDS Describe, Extremes, FiniteSetTheorems

-----------------------------------------------------------------------------
(* Which Rust type the macros take. *)

\* The kinds of the main list that every build has, and those of its shapes.
Std == <<"bool", "i8", "i16", "i32", "i64", "f32", "f64", "string", "bytes">>
Shapes == <<"geometry", "geography", "wkb">>

\* What the kinds of the lists are encoded as.
LEMMA OwnTypes ==
    /\ FromSystemTypeName(OwnType["bool"]) = [name |-> "bit", tds |-> "Bit"]
    /\ FromSystemTypeName(OwnType["i8"]) = [name |-> "tinyint", tds |-> "Int1"]
    /\ FromSystemTypeName(OwnType["i16"]) = [name |-> "smallint", tds |-> "Int2"]
    /\ FromSystemTypeName(OwnType["i32"]) = [name |-> "int", tds |-> "Int4"]
    /\ FromSystemTypeName(OwnType["i64"]) = [name |-> "bigint", tds |-> "Int8"]
    /\ FromSystemTypeName(OwnType["f32"]) = [name |-> "real", tds |-> "Flt4"]
    /\ FromSystemTypeName(OwnType["f64"]) = [name |-> "float", tds |-> "Flt8"]
    /\ FromSystemTypeName(OwnType["string"]) = [name |-> "nvarchar", tds |-> "NVarChar"]
    /\ FromSystemTypeName(OwnType["bytes"]) = [name |-> "varbinary", tds |-> "BigVarBinary"]
    /\ FromSystemTypeName(OwnType["geometry"]) = [name |-> "geometry", tds |-> "Udt"]
    /\ FromSystemTypeName(OwnType["geography"]) = [name |-> "geography", tds |-> "Udt"]
    /\ FromSystemTypeName(OwnType["wkb"]) = [name |-> "varbinary", tds |-> "BigVarBinary"]
    /\ FromSystemTypeName(OwnType["uuid"]) = [name |-> "uniqueidentifier", tds |-> "Guid"]
    /\ FromSystemTypeName(OwnType["date"]) = [name |-> "date", tds |-> "DateN"]
    /\ FromSystemTypeName(OwnType["time"]) = [name |-> "time", tds |-> "TimeN"]
    /\ FromSystemTypeName(OwnType["datetime"]) = [name |-> "datetime2", tds |-> "DateTime2N"]
    /\ FromSystemTypeName(OwnType["timestamp"]) =
           [name |-> "datetimeoffset", tds |-> "DateTimeOffsetN"]
    /\ FromSystemTypeName(OwnType["decimal"]) = [name |-> "decimal", tds |-> "DecimalN"]
BY DEF FromSystemTypeName, TypeInfo, OwnType, SystemTypes


\* A kind is encoded as the type info describes.
IsOwn(kind, info) == SameType(FromSystemTypeName(OwnType[kind]), info)
Hits(kind, info) == IsOwn(kind, info) \/ Compatible(kind, info)

\* Which types those are.
LEMMA OwnKinds ==
    ASSUME NEW info
    PROVE  /\ IsOwn("bool", info) <=> info.tds = "Bit"
           /\ IsOwn("i8", info) <=> info.tds = "Int1"
           /\ IsOwn("i16", info) <=> info.tds = "Int2"
           /\ IsOwn("i32", info) <=> info.tds = "Int4"
           /\ IsOwn("i64", info) <=> info.tds = "Int8"
           /\ IsOwn("f32", info) <=> info.tds = "Flt4"
           /\ IsOwn("f64", info) <=> info.tds = "Flt8"
           /\ IsOwn("string", info) <=> info.tds = "NVarChar"
           /\ IsOwn("bytes", info) <=> info.tds = "BigVarBinary"
           /\ IsOwn("geometry", info) <=> info.tds = "Udt" /\ info.name = "geometry"
           /\ IsOwn("geography", info) <=> info.tds = "Udt" /\ info.name = "geography"
           /\ IsOwn("wkb", info) <=> info.tds = "BigVarBinary"
           /\ IsOwn("uuid", info) <=> info.tds = "Guid"
           /\ IsOwn("date", info) <=> info.tds = "DateN"
           /\ IsOwn("time", info) <=> info.tds = "TimeN"
           /\ IsOwn("datetime", info) <=> info.tds = "DateTime2N"
           /\ IsOwn("timestamp", info) <=> info.tds = "DateTimeOffsetN"
           /\ IsOwn("decimal", info) <=> info.tds = "DecimalN"
BY OwnTypes DEF IsOwn, SameType

\* And which types a kind accepts.
LEMMA CompatibleKinds ==
    ASSUME NEW info
    PROVE  /\ Compatible("bool", info) <=> info.tds \in {"Bit", "BitN"}
           /\ \A k \in {"i8", "i16", "i32", "i64", "f32", "f64"} :
                  Compatible(k, info) <=> info.tds \in Numeric
           /\ Compatible("string", info) <=> info.tds \in Character
           /\ Compatible("bytes", info) <=> info.tds \in Binary
           /\ Compatible("geometry", info) <=> info.tds = "Udt" /\ info.name = "geometry"
           /\ Compatible("geography", info) <=> info.tds = "Udt" /\ info.name = "geography"
           /\ Compatible("wkb", info) <=> info.tds \in Binary
           /\ Compatible("uuid", info) <=> info.tds = "Guid"
           /\ Compatible("date", info) <=> info.tds = "DateN"
           /\ Compatible("time", info) <=> info.tds = "TimeN"
           /\ Compatible("datetime", info) <=> info.tds \in NaiveDateTime
           /\ Compatible("timestamp", info) <=>
                  info.tds \in NaiveDateTime \cup {"DateTimeOffsetN"}
           /\ Compatible("decimal", info) <=> info.tds \in Numeric \cup Character
BY DEF Compatible, IsUdt

-----------------------------------------------------------------------------
(* Where a list has a type. *)

\* The least of a set of numbers, given that it is in it and none is less.
LEMMA LeastIs ==
    ASSUME NEW n \in Nat, NEW S \in SUBSET (1 .. n), NEW k \in S, \A i \in S : k <= i
    PROVE  Min(S) = k
<1>1. Min(S) \in S /\ \A i \in S : Min(S) <= i
  BY MinIsLeast
<1>2. Min(S) <= k /\ k <= Min(S)
  BY <1>1
<1>3. Min(S) \in Int /\ k \in Int
  <2>1. \A i \in S : i \in Int
    OBVIOUS
  <2> QED
    BY <1>1, <2>1
<1> QED
  BY <1>2, <1>3

\* The first entry that is exactly the type, if there is one.
LEMMA MatchesOwn ==
    ASSUME NEW list, Len(list) \in Nat, NEW info, NEW k \in 1 .. Len(list),
           IsOwn(list[k].kind, info), \A i \in 1 .. k - 1 : ~IsOwn(list[i].kind, info)
    PROVE  Match(list, info) = k
<1> DEFINE S == {i \in 1 .. Len(list) : IsOwn(list[i].kind, info)}
<1>1. Min(S) = k
  <2>1. S \in SUBSET (1 .. Len(list)) /\ k \in S
    OBVIOUS
  <2>2. \A i \in S : k <= i
    OBVIOUS
  <2> HIDE DEF S
  <2> QED
    BY <2>1, <2>2, LeastIs
<1>2. S # {}
  OBVIOUS
<1>3. S = {i \in 1 .. Len(list) : SameType(FromSystemTypeName(OwnType[list[i].kind]), info)}
  BY DEF IsOwn
<1> HIDE DEF S
<1>4. k # 0
  OBVIOUS
<1> QED
  BY <1>1, <1>2, <1>3, <1>4 DEF Match, SelectInSeq

\* Or else the first one compatible with it.
LEMMA MatchesCompatible ==
    ASSUME NEW list, Len(list) \in Nat, NEW info, NEW k \in 1 .. Len(list),
           Compatible(list[k].kind, info), \A i \in 1 .. Len(list) : ~IsOwn(list[i].kind, info),
           \A i \in 1 .. k - 1 : ~Compatible(list[i].kind, info)
    PROVE  Match(list, info) = k
<1> DEFINE S == {i \in 1 .. Len(list) : Compatible(list[i].kind, info)}
           T == {i \in 1 .. Len(list) : SameType(FromSystemTypeName(OwnType[list[i].kind]), info)}
<1>1. Min(S) = k
  <2>1. S \in SUBSET (1 .. Len(list)) /\ k \in S
    OBVIOUS
  <2>2. \A i \in S : k <= i
    OBVIOUS
  <2> HIDE DEF S
  <2> QED
    BY <2>1, <2>2, LeastIs
<1>2. S # {}
  OBVIOUS
<1>3. T = {}
  BY DEF IsOwn
<1> QED
  BY <1>1, <1>2, <1>3 DEF Match, SelectInSeq

\* Or else nothing.
LEMMA MatchesNothing ==
    ASSUME NEW list, NEW info, \A i \in 1 .. Len(list) : ~Hits(list[i].kind, info)
    PROVE  Match(list, info) = 0
<1>1. {i \in 1 .. Len(list) : SameType(FromSystemTypeName(OwnType[list[i].kind]), info)} = {}
  BY DEF Hits, IsOwn
<1>2. {i \in 1 .. Len(list) : Compatible(list[i].kind, info)} = {}
  BY DEF Hits
<1> QED
  BY <1>1, <1>2 DEF Match, SelectInSeq

\* The first list that has the type decides.
LEMMA ResolvedBy ==
    ASSUME NEW info, NEW build, NEW n \in 1 .. 5, Match(Lists(build)[n], info) # 0,
           \A i \in 1 .. n - 1 : Match(Lists(build)[i], info) = 0
    PROVE  Resolve(info, build) = Lists(build)[n][Match(Lists(build)[n], info)].kind
<1> DEFINE lists == Lists(build)
           S == {i \in 1 .. Len(lists) : Match(lists[i], info) # 0}
<1>1. Len(lists) = 5
  BY DEF Lists
<1> HIDE DEF lists
<1>2. S \in SUBSET (1 .. 5) /\ n \in S /\ \A i \in S : n <= i
  BY <1>1 DEF lists
<1>3. Min(S) = n /\ S # {} /\ n # 0
  <2> HIDE DEF S
  <2> QED
    BY <1>2, LeastIs
<1> QED
  BY <1>3 DEF Resolve, SelectInSeq, lists

\* If none has it, there is none.
LEMMA ResolvedByNone ==
    ASSUME NEW info, NEW build, \A i \in 1 .. 5 : Match(Lists(build)[i], info) = 0
    PROVE  Resolve(info, build) = "none"
<1> DEFINE lists == Lists(build)
<1>1. Len(lists) = 5
  BY DEF Lists
<1> HIDE DEF lists
<1>2. {i \in 1 .. Len(lists) : Match(lists[i], info) # 0} = {}
  BY <1>1 DEF lists
<1> QED
  BY <1>2 DEF Resolve, SelectInSeq, lists

-----------------------------------------------------------------------------
(* The lists. *)

\* What a section of a list holds.
Entries(crate, kinds) == {[crate |-> crate, kind |-> kinds[i]] : i \in DOMAIN kinds}

LEMMA FromKinds ==
    ASSUME NEW crate, NEW kinds, Len(kinds) \in Nat, DOMAIN kinds = 1 .. Len(kinds)
    PROVE  /\ From(crate, kinds) \in Seq(Entries(crate, kinds))
           /\ Len(From(crate, kinds)) = Len(kinds)
           /\ \A i \in 1 .. Len(kinds) : From(crate, kinds)[i].kind = kinds[i]
<1> DEFINE E == Entries(crate, kinds)
<1>1. From(crate, kinds) = [i \in 1 .. Len(kinds) |-> [crate |-> crate, kind |-> kinds[i]]]
  BY DEF From
<1>2. \A i \in 1 .. Len(kinds) : [crate |-> crate, kind |-> kinds[i]] \in E
  BY DEF Entries
<1>3. From(crate, kinds) \in [1 .. Len(kinds) -> E]
  <2> HIDE DEF E
  <2> QED
    BY <1>1, <1>2
<1> HIDE DEF E
<1>4. From(crate, kinds) \in Seq(E) /\ Len(From(crate, kinds)) = Len(kinds)
  BY <1>3
<1> QED
  BY <1>1, <1>4 DEF E

\* An optional section: nothing, or its kinds.
LEMMA GatedKinds ==
    ASSUME NEW feature, NEW build, NEW kinds, Len(kinds) \in Nat, DOMAIN kinds = 1 .. Len(kinds)
    PROVE  /\ Gated(feature, build, kinds) \in Seq(Entries(feature, kinds))
           /\ Len(Gated(feature, build, kinds)) = IF feature \in build THEN Len(kinds) ELSE 0
           /\ feature \in build =>
                  \A i \in 1 .. Len(kinds) : Gated(feature, build, kinds)[i].kind = kinds[i]
<1>1. CASE feature \in build
  <2>1. Gated(feature, build, kinds) = From(feature, kinds)
    BY <1>1 DEF Gated
  <2> QED
    BY <1>1, <2>1, FromKinds
<1>2. CASE feature \notin build
  <2>1. Gated(feature, build, kinds) = <<>>
    BY <1>2 DEF Gated
  <2>2. <<>> \in Seq(Entries(feature, kinds)) /\ Len(<<>>) = 0
    OBVIOUS
  <2> QED
    BY <1>2, <2>1, <2>2
<1> QED
  BY <1>1, <1>2

\* Two lists, one after the other.
LEMMA Joined ==
    ASSUME NEW D, NEW E, NEW s \in Seq(D), NEW t \in Seq(E)
    PROVE  /\ s \o t \in Seq(D \cup E)
           /\ Len(s \o t) = Len(s) + Len(t)
           /\ \A i \in 1 .. Len(s) : (s \o t)[i] = s[i]
           /\ \A i \in Len(s) + 1 .. Len(s) + Len(t) : (s \o t)[i] = t[i - Len(s)]
OBVIOUS

\* How far the main list's standard and spatial types, and its UUID, reach.
Spatial(build) == IF "spatial" \in build THEN 12 ELSE 9
Ids(build) == Spatial(build) + (IF "uuid" \in build THEN 1 ELSE 0)
Total(build) == Ids(build) + (IF "jiff" \in build THEN 4 ELSE 0)

\* What stands where in the main list.
LEMMA MainKinds ==
    ASSUME NEW build
    PROVE  /\ Len(MainList(build)) = Total(build)
           /\ \A i \in 1 .. 9 : MainList(build)[i].kind = Std[i]
           /\ \A i \in 10 .. Spatial(build) : MainList(build)[i].kind = Shapes[i - 9]
           /\ \A i \in Spatial(build) + 1 .. Ids(build) : MainList(build)[i].kind = "uuid"
           /\ \A i \in Ids(build) + 1 .. Total(build) :
                  MainList(build)[i].kind = Temporal[i - Ids(build)]
<1> DEFINE a == From("std", Std)
           b == Gated("spatial", build, Shapes)
           c == Gated("uuid", build, <<"uuid">>)
           d == Gated("jiff", build, Temporal)
           A == Entries("std", Std)
           B == Entries("spatial", Shapes)
           C == Entries("uuid", <<"uuid">>)
           D == Entries("jiff", Temporal)
<1>1. MainList(build) = ((a \o b) \o c) \o d
  BY DEF MainList, Std, Shapes
<1>2. a \in Seq(A) /\ Len(a) = 9 /\ \A i \in 1 .. 9 : a[i].kind = Std[i]
  <2>1. Len(Std) = 9 /\ DOMAIN Std = 1 .. Len(Std)
    BY DEF Std
  <2> QED
    BY <2>1, FromKinds
<1>3. /\ b \in Seq(B) /\ Len(b) = IF "spatial" \in build THEN 3 ELSE 0
      /\ "spatial" \in build => \A i \in 1 .. 3 : b[i].kind = Shapes[i]
  <2>1. Len(Shapes) = 3 /\ DOMAIN Shapes = 1 .. Len(Shapes)
    BY DEF Shapes
  <2> QED
    BY <2>1, GatedKinds
<1>4. /\ c \in Seq(C) /\ Len(c) = IF "uuid" \in build THEN 1 ELSE 0
      /\ "uuid" \in build => c[1].kind = "uuid"
  <2> DEFINE one == <<"uuid">>
  <2>1. Len(one) = 1 /\ DOMAIN one = 1 .. Len(one) /\ one[1] = "uuid" /\ 1 \in 1 .. 1
    OBVIOUS
  <2> HIDE DEF one
  <2>2. /\ Gated("uuid", build, one) \in Seq(Entries("uuid", one))
        /\ Len(Gated("uuid", build, one)) = IF "uuid" \in build THEN 1 ELSE 0
        /\ "uuid" \in build => \A i \in 1 .. 1 : Gated("uuid", build, one)[i].kind = one[i]
    BY <2>1, GatedKinds
  <2> QED
    BY <2>1, <2>2 DEF one
<1>5. /\ d \in Seq(D) /\ Len(d) = IF "jiff" \in build THEN 4 ELSE 0
      /\ "jiff" \in build => \A i \in 1 .. 4 : d[i].kind = Temporal[i]
  <2>1. Len(Temporal) = 4 /\ DOMAIN Temporal = 1 .. Len(Temporal)
    BY DEF Temporal
  <2> QED
    BY <2>1, GatedKinds
<1> HIDE DEF a, b, c, d, A, B, C, D
<1> DEFINE ab == a \o b
<1>6. /\ ab \in Seq(A \cup B) /\ Len(ab) = Len(a) + Len(b)
      /\ \A i \in 1 .. Len(a) : ab[i] = a[i]
      /\ \A i \in Len(a) + 1 .. Len(a) + Len(b) : ab[i] = b[i - Len(a)]
  <2>1. a \in Seq(A) /\ b \in Seq(B)
    BY <1>2, <1>3
  <2> QED
    BY <2>1, Joined
<1> HIDE DEF ab
<1>7. Spatial(build) \in {9, 12}
  BY DEF Spatial
<1>8. /\ Len(ab) = Spatial(build)
      /\ \A i \in 1 .. 9 : ab[i].kind = Std[i]
      /\ \A i \in 10 .. Spatial(build) : ab[i].kind = Shapes[i - 9]
  <2>1. CASE "spatial" \in build
    BY <1>2, <1>3, <1>6, <2>1 DEF Spatial
  <2>2. CASE "spatial" \notin build
    BY <1>2, <1>3, <1>6, <2>2 DEF Spatial
  <2> QED
    BY <2>1, <2>2
<1> DEFINE abc == ab \o c
<1>9. /\ abc \in Seq((A \cup B) \cup C) /\ Len(abc) = Len(ab) + Len(c)
      /\ \A i \in 1 .. Len(ab) : abc[i] = ab[i]
      /\ \A i \in Len(ab) + 1 .. Len(ab) + Len(c) : abc[i] = c[i - Len(ab)]
  <2>1. ab \in Seq(A \cup B) /\ c \in Seq(C)
    BY <1>4, <1>6
  <2> QED
    BY <2>1, Joined
<1> HIDE DEF abc
<1>10. /\ Len(abc) = Ids(build) /\ Ids(build) \in Spatial(build) .. Spatial(build) + 1
       /\ \A i \in Spatial(build) + 1 .. Ids(build) : abc[i].kind = "uuid"
  <2>1. CASE "uuid" \in build
    <3>1. Ids(build) = Spatial(build) + 1 /\ Len(c) = 1
      BY <1>4, <2>1 DEF Ids
    <3>2. \A i \in Spatial(build) + 1 .. Ids(build) : i - Len(ab) = 1
      BY <1>7, <1>8, <3>1
    <3> QED
      BY <1>4, <1>7, <1>8, <1>9, <2>1, <3>1, <3>2
  <2>2. CASE "uuid" \notin build
    BY <1>4, <1>7, <1>8, <1>9, <2>2 DEF Ids
  <2> QED
    BY <2>1, <2>2
<1> DEFINE abcd == abc \o d
<1>11. /\ Len(abcd) = Len(abc) + Len(d)
       /\ \A i \in 1 .. Len(abc) : abcd[i] = abc[i]
       /\ \A i \in Len(abc) + 1 .. Len(abc) + Len(d) : abcd[i] = d[i - Len(abc)]
  <2>1. abc \in Seq((A \cup B) \cup C) /\ d \in Seq(D)
    BY <1>5, <1>9
  <2> QED
    BY <2>1, Joined
<1> HIDE DEF abcd
<1>12. /\ Len(abcd) = Total(build)
       /\ \A i \in Ids(build) + 1 .. Total(build) : abcd[i].kind = Temporal[i - Ids(build)]
  <2>1. CASE "jiff" \in build
    <3>1. Total(build) = Ids(build) + 4 /\ Len(d) = 4
      BY <1>5, <2>1 DEF Total
    <3>2. \A i \in Ids(build) + 1 .. Total(build) : i - Ids(build) \in 1 .. 4
      BY <1>7, <1>10, <3>1
    <3> QED
      BY <1>5, <1>7, <1>10, <1>11, <2>1, <3>1, <3>2
  <2>2. CASE "jiff" \notin build
    BY <1>5, <1>7, <1>10, <1>11, <2>2 DEF Total
  <2> QED
    BY <2>1, <2>2
<1>13. MainList(build) = abcd
  BY <1>1 DEF abcd, abc, ab
<1>14. /\ \A i \in 1 .. 9 : abcd[i] = ab[i]
       /\ \A i \in 10 .. Spatial(build) : abcd[i] = ab[i]
       /\ \A i \in Spatial(build) + 1 .. Ids(build) : abcd[i] = abc[i]
  <2>1. \A i \in 1 .. Spatial(build) : i \in 1 .. Len(ab) /\ i \in 1 .. Len(abc)
    BY <1>7, <1>8, <1>10
  <2>2. \A i \in 1 .. Ids(build) : i \in 1 .. Len(abc)
    BY <1>10
  <2>3. \A i \in 1 .. Spatial(build) : abcd[i] = ab[i]
    BY <1>9, <1>11, <2>1
  <2>4. \A i \in 1 .. Ids(build) : abcd[i] = abc[i]
    BY <1>11, <2>2
  <2> QED
    BY <1>7, <1>10, <2>3, <2>4
<1> QED
  BY <1>8, <1>10, <1>12, <1>13, <1>14

\* The lists, one by one.
LEMMA ListsAre ==
    ASSUME NEW build
    PROVE  /\ Lists(build)[1] = MainList(build)
           /\ Lists(build)[2] = Gated("time", build, Temporal)
           /\ Lists(build)[3] = Gated("chrono", build, Temporal)
           /\ Lists(build)[4] = Gated("bigdecimal", build, <<"decimal">>)
           /\ Lists(build)[5] = Gated("rust_decimal", build, <<"decimal">>)
BY DEF Lists

\* The kinds a build has, list by list.
StdKinds == {"bool", "i8", "i16", "i32", "i64", "f32", "f64", "string", "bytes"}
MainOffers(build) ==
    StdKinds \cup (IF "spatial" \in build THEN {"geometry", "geography", "wkb"} ELSE {})
             \cup (IF "uuid" \in build THEN {"uuid"} ELSE {})
             \cup (IF "jiff" \in build THEN {"date", "time", "datetime", "timestamp"} ELSE {})

\* The main list has no other kinds.
LEMMA MainHas ==
    ASSUME NEW build
    PROVE  \A i \in 1 .. Len(MainList(build)) : MainList(build)[i].kind \in MainOffers(build)
<1> SUFFICES ASSUME NEW i \in 1 .. Total(build)
             PROVE  MainList(build)[i].kind \in MainOffers(build)
  BY MainKinds
<1>1. Spatial(build) \in {9, 12} /\ Ids(build) \in Spatial(build) .. Spatial(build) + 1
  BY DEF Spatial, Ids
<1>2. CASE i \in 1 .. 9
  <2>1. MainList(build)[i].kind = Std[i]
    BY <1>2, MainKinds
  <2>2. Std[i] \in StdKinds
    BY <1>2 DEF Std, StdKinds
  <2> QED
    BY <2>1, <2>2 DEF MainOffers
<1>3. CASE i \in 10 .. Spatial(build)
  <2>1. MainList(build)[i].kind = Shapes[i - 9]
    BY <1>3, MainKinds
  <2>3. "spatial" \in build /\ i - 9 \in 1 .. 3
    BY <1>3 DEF Spatial
  <2>2. \A k \in 1 .. 3 : Shapes[k] \in {"geometry", "geography", "wkb"}
    BY DEF Shapes
  <2> QED
    BY <2>1, <2>2, <2>3 DEF MainOffers
<1>4. CASE i \in Spatial(build) + 1 .. Ids(build)
  <2>1. MainList(build)[i].kind = "uuid"
    BY <1>4, MainKinds
  <2>2. "uuid" \in build
    BY <1>1, <1>4 DEF Ids
  <2> QED
    BY <2>1, <2>2 DEF MainOffers
<1>5. CASE i \in Ids(build) + 1 .. Total(build)
  <2>1. MainList(build)[i].kind = Temporal[i - Ids(build)]
    BY <1>5, MainKinds
  <2>2. "jiff" \in build /\ i - Ids(build) \in 1 .. 4
    BY <1>1, <1>5 DEF Total
  <2>3. \A k \in 1 .. 4 : Temporal[k] \in {"date", "time", "datetime", "timestamp"}
    BY DEF Temporal
  <2> QED
    BY <2>1, <2>2, <2>3 DEF MainOffers
<1> QED
  BY <1>1, <1>2, <1>3, <1>4, <1>5

\* A section, where the build has it, and where it does not.
LEMMA SectionHas ==
    ASSUME NEW build, NEW feature
    PROVE  /\ LET list == Gated(feature, build, Temporal)
              IN  /\ Len(list) = IF feature \in build THEN 4 ELSE 0
                  /\ \A i \in 1 .. Len(list) : list[i].kind = Temporal[i]
           /\ \A i \in 1 .. Len(Gated(feature, build, <<"decimal">>)) :
                  Gated(feature, build, <<"decimal">>)[i].kind = "decimal"
<1>1. /\ Len(Gated(feature, build, Temporal)) = IF feature \in build THEN 4 ELSE 0
      /\ feature \in build =>
             \A i \in 1 .. 4 : Gated(feature, build, Temporal)[i].kind = Temporal[i]
  <2>1. Len(Temporal) = 4 /\ DOMAIN Temporal = 1 .. Len(Temporal)
    BY DEF Temporal
  <2> QED
    BY <2>1, GatedKinds
<1>2. \A i \in 1 .. Len(Gated(feature, build, <<"decimal">>)) :
          Gated(feature, build, <<"decimal">>)[i].kind = "decimal"
  <2> DEFINE one == <<"decimal">>
  <2>1. Len(one) = 1 /\ DOMAIN one = 1 .. Len(one) /\ one[1] = "decimal"
    OBVIOUS
  <2> HIDE DEF one
  <2>2. /\ Len(Gated(feature, build, one)) = IF feature \in build THEN 1 ELSE 0
        /\ feature \in build => \A i \in 1 .. 1 : Gated(feature, build, one)[i].kind = one[i]
    BY <2>1, GatedKinds
  <2>3. \A i \in 1 .. Len(Gated(feature, build, one)) :
            Gated(feature, build, one)[i].kind = "decimal"
    BY <2>1, <2>2
  <2> QED
    BY <2>3 DEF one
<1> QED
  BY <1>1, <1>2

-----------------------------------------------------------------------------
(* The kind that is taken. *)

\* A type that is a standard kind's own, or that none has for its own.
LEMMA TakenFromStd ==
    ASSUME NEW build, NEW info, NEW k \in 1 .. 9,
           \/ IsOwn(Std[k], info) /\ \A i \in 1 .. k - 1 : ~IsOwn(Std[i], info)
           \/ /\ Compatible(Std[k], info) /\ \A i \in 1 .. k - 1 : ~Compatible(Std[i], info)
              /\ \A kind \in MainOffers(build) : ~IsOwn(kind, info)
    PROVE  Resolve(info, build) = Std[k]
<1> DEFINE list == MainList(build)
<1>1. /\ Len(list) \in Nat /\ 9 <= Len(list)
      /\ \A i \in 1 .. 9 : list[i].kind = Std[i]
  <2>1. Total(build) \in Nat /\ 9 <= Total(build)
    BY DEF Total, Ids, Spatial
  <2> QED
    BY <2>1, MainKinds
<1>2. \A i \in 1 .. Len(list) : list[i].kind \in MainOffers(build)
  BY MainHas
<1> HIDE DEF list
<1>3. /\ k \in 1 .. Len(list) /\ list[k].kind = Std[k]
      /\ \A i \in 1 .. k - 1 : list[i].kind = Std[i]
  BY <1>1
<1>4. Match(list, info) = k
  <2>1. CASE IsOwn(Std[k], info) /\ \A i \in 1 .. k - 1 : ~IsOwn(Std[i], info)
    <3>1. IsOwn(list[k].kind, info) /\ \A i \in 1 .. k - 1 : ~IsOwn(list[i].kind, info)
      BY <1>3, <2>1
    <3> QED
      BY <1>1, <1>3, <3>1, MatchesOwn
  <2>2. CASE /\ Compatible(Std[k], info) /\ \A i \in 1 .. k - 1 : ~Compatible(Std[i], info)
             /\ \A kind \in MainOffers(build) : ~IsOwn(kind, info)
    <3>1. /\ Compatible(list[k].kind, info)
          /\ \A i \in 1 .. k - 1 : ~Compatible(list[i].kind, info)
          /\ \A i \in 1 .. Len(list) : ~IsOwn(list[i].kind, info)
      BY <1>2, <1>3, <2>2
    <3> QED
      BY <1>1, <1>3, <3>1, MatchesCompatible
  <2> QED
    BY <2>1, <2>2
<1>5. Lists(build)[1] = list
  BY ListsAre DEF list
<1>6. k # 0 /\ 1 \in 1 .. 5 /\ \A i \in 1 .. 1 - 1 : FALSE
  OBVIOUS
<1>7. Resolve(info, build) = Lists(build)[1][Match(Lists(build)[1], info)].kind
  BY <1>4, <1>5, <1>6, ResolvedBy
<1> QED
  BY <1>3, <1>4, <1>5, <1>7

\* A type of the main list that none before it has: a shape or the UUID.
LEMMA TakenFromMain ==
    ASSUME NEW build, NEW info, NEW k \in 1 .. Total(build),
           IsOwn(MainList(build)[k].kind, info),
           \A i \in 1 .. k - 1 : ~IsOwn(MainList(build)[i].kind, info)
    PROVE  Resolve(info, build) = MainList(build)[k].kind
<1> DEFINE list == MainList(build)
<1>1. Len(list) \in Nat /\ k \in 1 .. Len(list)
  <2>1. Total(build) \in Nat
    BY DEF Total, Ids, Spatial
  <2> QED
    BY <2>1, MainKinds
<1>2. Match(list, info) = k
  <2> HIDE DEF list
  <2>1. IsOwn(list[k].kind, info) /\ \A i \in 1 .. k - 1 : ~IsOwn(list[i].kind, info)
    BY DEF list
  <2> QED
    BY <1>1, <2>1, MatchesOwn
<1> HIDE DEF list
<1>3. Lists(build)[1] = list
  BY ListsAre DEF list
<1>4. k # 0 /\ 1 \in 1 .. 5 /\ \A i \in 1 .. 1 - 1 : FALSE
  OBVIOUS
<1>5. Resolve(info, build) = Lists(build)[1][Match(Lists(build)[1], info)].kind
  BY <1>2, <1>3, <1>4, ResolvedBy
<1> QED
  BY <1>2, <1>3, <1>5 DEF list

\* A type no kind of the build has.
LEMMA TakenFromNowhere ==
    ASSUME NEW build, NEW info, \A kind \in MainOffers(build) : ~Hits(kind, info),
           \/ build \cap {"jiff", "chrono", "time"} = {}
           \/ \A i \in 1 .. 4 : ~Hits(Temporal[i], info),
           ~Hits("decimal", info)
    PROVE  Resolve(info, build) = "none"
<1>1. Match(Lists(build)[1], info) = 0
  <2>1. \A i \in 1 .. Len(MainList(build)) : ~Hits(MainList(build)[i].kind, info)
    BY MainHas
  <2> QED
    BY <2>1, ListsAre, MatchesNothing
<1>2. ASSUME NEW f \in {"time", "chrono"} PROVE Match(Gated(f, build, Temporal), info) = 0
  <2> DEFINE list == Gated(f, build, Temporal)
  <2>1. /\ Len(list) = IF f \in build THEN 4 ELSE 0
        /\ \A i \in 1 .. Len(list) : list[i].kind = Temporal[i]
    BY SectionHas
  <2> HIDE DEF list
  <2>2. \A i \in 1 .. Len(list) : ~Hits(list[i].kind, info)
    <3>1. CASE f \in build
      <4>1. \A i \in 1 .. 4 : ~Hits(Temporal[i], info)
        BY <3>1
      <4> QED
        BY <2>1, <3>1, <4>1
    <3>2. CASE f \notin build
      BY <2>1, <3>2
    <3> QED
      BY <3>1, <3>2
  <2>3. Match(list, info) = 0
    BY <2>2, MatchesNothing
  <2> QED
    BY <2>3 DEF list
<1>3. ASSUME NEW f PROVE Match(Gated(f, build, <<"decimal">>), info) = 0
  <2> DEFINE list == Gated(f, build, <<"decimal">>)
  <2>1. \A i \in 1 .. Len(list) : list[i].kind = "decimal"
    BY SectionHas
  <2> HIDE DEF list
  <2>2. \A i \in 1 .. Len(list) : ~Hits(list[i].kind, info)
    BY <2>1
  <2>3. Match(list, info) = 0
    BY <2>2, MatchesNothing
  <2> QED
    BY <2>3 DEF list
<1>4. /\ Match(Lists(build)[2], info) = 0 /\ Match(Lists(build)[3], info) = 0
      /\ Match(Lists(build)[4], info) = 0 /\ Match(Lists(build)[5], info) = 0
  BY <1>2, <1>3, ListsAre
<1>5. \A i \in 1 .. 5 : i \in {1, 2, 3, 4, 5}
  OBVIOUS
<1>6. \A i \in 1 .. 5 : Match(Lists(build)[i], info) = 0
  BY <1>1, <1>4, <1>5
<1> QED
  BY <1>6, ResolvedByNone

\* Where one of the temporal kinds is the first to have a type.
FirstOfTemporal(j, info) ==
    \/ IsOwn(Temporal[j], info) /\ \A i \in 1 .. j - 1 : ~IsOwn(Temporal[i], info)
    \/ /\ Compatible(Temporal[j], info) /\ \A i \in 1 .. j - 1 : ~Compatible(Temporal[i], info)
       /\ \A i \in 1 .. 4 : ~IsOwn(Temporal[i], info)

\* It is taken from the end of a list whose other kinds do not have the type.
LEMMA MatchesTemporal ==
    ASSUME NEW list, NEW n \in Nat, Len(list) = n + 4, NEW info, NEW j \in 1 .. 4,
           \A i \in 1 .. n : ~Hits(list[i].kind, info),
           \A i \in n + 1 .. n + 4 : list[i].kind = Temporal[i - n],
           FirstOfTemporal(j, info)
    PROVE  Match(list, info) = n + j /\ list[n + j].kind = Temporal[j]
<1>1. /\ n + j \in 1 .. Len(list) /\ Len(list) \in Nat
      /\ \A i \in 1 .. n + 4 : i \in 1 .. n \/ (i \in n + 1 .. n + 4 /\ i - n \in 1 .. 4)
      /\ \A i \in n + 1 .. n + j - 1 : i - n \in 1 .. j - 1
  OBVIOUS
<1>2. list[n + j].kind = Temporal[j]
  <2>1. n + j \in n + 1 .. n + 4 /\ (n + j) - n = j
    OBVIOUS
  <2> QED
    BY <2>1
<1>3. \A i \in 1 .. n + j - 1 : i \in 1 .. n \/ i \in n + 1 .. n + j - 1
  OBVIOUS
<1>4. \A i \in n + 1 .. n + j - 1 : list[i].kind = Temporal[i - n] /\ i - n \in 1 .. j - 1
  BY <1>1
<1>5. CASE IsOwn(Temporal[j], info) /\ \A i \in 1 .. j - 1 : ~IsOwn(Temporal[i], info)
  <2>1. \A i \in 1 .. n + j - 1 : ~IsOwn(list[i].kind, info)
    BY <1>3, <1>4, <1>5 DEF Hits
  <2>2. IsOwn(list[n + j].kind, info)
    BY <1>2, <1>5
  <2> QED
    BY <1>1, <1>2, <2>1, <2>2, MatchesOwn
<1>6. CASE /\ Compatible(Temporal[j], info) /\ \A i \in 1 .. j - 1 : ~Compatible(Temporal[i], info)
           /\ \A i \in 1 .. 4 : ~IsOwn(Temporal[i], info)
  <2>1. \A i \in 1 .. n + j - 1 : ~Compatible(list[i].kind, info)
    BY <1>3, <1>4, <1>6 DEF Hits
  <2>2. Compatible(list[n + j].kind, info)
    BY <1>2, <1>6
  <2>3. \A i \in 1 .. Len(list) : ~IsOwn(list[i].kind, info)
    BY <1>1, <1>6 DEF Hits
  <2> QED
    BY <1>1, <1>2, <2>1, <2>2, <2>3, MatchesCompatible
<1> QED
  BY <1>5, <1>6 DEF FirstOfTemporal

\* The first list with the temporal kinds decides: jiff's, time's or chrono's.
LEMMA TakenFromTemporal ==
    ASSUME NEW build, NEW info, NEW j \in 1 .. 4, FirstOfTemporal(j, info),
           build \cap {"jiff", "chrono", "time"} # {},
           \A kind \in StdKinds \cup {"geometry", "geography", "wkb", "uuid"} :
               ~Hits(kind, info)
    PROVE  Resolve(info, build) = Temporal[j]
<1> DEFINE main == MainList(build)
           n == Ids(build)
<1>1. n \in Nat /\ Total(build) = IF "jiff" \in build THEN n + 4 ELSE n
  BY DEF Ids, Spatial, Total
<1>2. Len(main) = Total(build)
  BY MainKinds
<1>3. \A i \in 1 .. n : ~Hits(main[i].kind, info)
  <2> SUFFICES ASSUME NEW i \in 1 .. n PROVE ~Hits(main[i].kind, info)
    OBVIOUS
  <2>1. /\ i \in 1 .. 9 \/ i \in 10 .. Spatial(build) \/ i \in Spatial(build) + 1 .. n
        /\ i \in 10 .. Spatial(build) => i - 9 \in 1 .. 3
    BY DEF Ids, Spatial
  <2>2. \A k \in 1 .. 9 : Std[k] \in StdKinds
    BY DEF Std, StdKinds
  <2>3. \A k \in 1 .. 3 : Shapes[k] \in {"geometry", "geography", "wkb"}
    BY DEF Shapes
  <2>4. main[i].kind \in StdKinds \cup {"geometry", "geography", "wkb", "uuid"}
    BY <2>1, <2>2, <2>3, MainKinds
  <2> QED
    BY <2>4
<1>4. \A i \in n + 1 .. Total(build) : main[i].kind = Temporal[i - n]
  BY MainKinds
<1>5. Lists(build)[1] = main
  BY ListsAre
<1> HIDE DEF main, n
<1>6. CASE "jiff" \in build
  <2>1. Match(main, info) = n + j /\ main[n + j].kind = Temporal[j]
    BY <1>1, <1>2, <1>3, <1>4, <1>6, MatchesTemporal
  <2>2. n + j # 0 /\ 1 \in 1 .. 5 /\ \A i \in 1 .. 1 - 1 : FALSE
    BY <1>1
  <2>3. Resolve(info, build) = Lists(build)[1][Match(Lists(build)[1], info)].kind
    BY <1>5, <2>1, <2>2, ResolvedBy
  <2> QED
    BY <1>5, <2>1, <2>3
<1>7. ASSUME NEW f, f \in build
      PROVE  /\ Match(Gated(f, build, Temporal), info) = j
             /\ Gated(f, build, Temporal)[j].kind = Temporal[j]
  <2> DEFINE list == Gated(f, build, Temporal)
  <2>1. Len(list) = 0 + 4 /\ \A i \in 0 + 1 .. 0 + 4 : list[i].kind = Temporal[i - 0]
    <3>1. Len(list) = 4 /\ \A i \in 1 .. Len(list) : list[i].kind = Temporal[i]
      BY <1>7, SectionHas
    <3> HIDE DEF list
    <3>2. \A i \in 0 + 1 .. 0 + 4 : i \in 1 .. 4 /\ i - 0 = i
      OBVIOUS
    <3> QED
      BY <3>1, <3>2
  <2> HIDE DEF list
  <2>2. \A i \in 1 .. 0 : ~Hits(list[i].kind, info)
    OBVIOUS
  <2> DEFINE none == 0
  <2>3. none \in Nat
    OBVIOUS
  <2>4. /\ Len(list) = none + 4 /\ \A i \in none + 1 .. none + 4 : list[i].kind = Temporal[i - none]
        /\ \A i \in 1 .. none : ~Hits(list[i].kind, info)
    BY <2>1, <2>2
  <2> HIDE DEF none
  <2>5. Match(list, info) = none + j /\ list[none + j].kind = Temporal[j]
    BY <2>3, <2>4, MatchesTemporal
  <2>6. none + j = j
    BY DEF none
  <2> QED
    BY <2>5, <2>6 DEF list
<1>8. CASE "jiff" \notin build
  <2>1. Match(Lists(build)[1], info) = 0
    <3>1. \A i \in 1 .. Len(main) : ~Hits(main[i].kind, info)
      BY <1>1, <1>2, <1>3, <1>8
    <3> QED
      BY <1>5, <3>1, MatchesNothing
  <2>2. CASE "time" \in build
    <3>1. Match(Lists(build)[2], info) = j /\ Lists(build)[2][j].kind = Temporal[j]
      BY <1>7, <2>2, ListsAre
    <3>2. j # 0 /\ 2 \in 1 .. 5 /\ \A i \in 1 .. 2 - 1 : i = 1
      OBVIOUS
    <3>3. Resolve(info, build) = Lists(build)[2][Match(Lists(build)[2], info)].kind
      BY <2>1, <3>1, <3>2, ResolvedBy
    <3> QED
      BY <3>1, <3>3
  <2>3. CASE "time" \notin build
    <3>1. "chrono" \in build
      BY <1>8, <2>3
    <3>2. Match(Lists(build)[2], info) = 0
      <4>1. Len(Gated("time", build, Temporal)) = 0
        BY <2>3, SectionHas
      <4> DEFINE list == Gated("time", build, Temporal)
      <4> HIDE DEF list
      <4>2. \A i \in 1 .. Len(list) : ~Hits(list[i].kind, info)
        BY <4>1 DEF list
      <4>3. Match(list, info) = 0
        BY <4>2, MatchesNothing
      <4> QED
        BY <4>3, ListsAre DEF list
    <3>3. Match(Lists(build)[3], info) = j /\ Lists(build)[3][j].kind = Temporal[j]
      BY <1>7, <3>1, ListsAre
    <3>4. j # 0 /\ 3 \in 1 .. 5 /\ \A i \in 1 .. 3 - 1 : i = 1 \/ i = 2
      OBVIOUS
    <3>5. Resolve(info, build) = Lists(build)[3][Match(Lists(build)[3], info)].kind
      BY <2>1, <3>2, <3>3, <3>4, ResolvedBy
    <3> QED
      BY <3>3, <3>5
  <2> QED
    BY <2>2, <2>3
<1> QED
  BY <1>6, <1>8

\* The types that have an owner, if the build has it.
Owned == DOMAIN SystemTypes \ {"decimal", "numeric", "money", "smallmoney"}

\* By name.
LEMMA OwnedTypes ==
    Owned = {"tinyint", "smallint", "int", "bigint", "bit", "real", "float",
             "uniqueidentifier", "date", "time", "datetime2", "datetimeoffset", "datetime",
             "smalldatetime", "char", "varchar", "nchar", "nvarchar", "text", "ntext", "xml",
             "json", "binary", "varbinary", "image", "geometry", "geography"}
BY DEF Owned, SystemTypes

\* Their descriptions.
LEMMA Described ==
    /\ FromSystemTypeName("tinyint") = [name |-> "tinyint", tds |-> "Int1"]
    /\ FromSystemTypeName("smallint") = [name |-> "smallint", tds |-> "Int2"]
    /\ FromSystemTypeName("int") = [name |-> "int", tds |-> "Int4"]
    /\ FromSystemTypeName("bigint") = [name |-> "bigint", tds |-> "Int8"]
    /\ FromSystemTypeName("bit") = [name |-> "bit", tds |-> "Bit"]
    /\ FromSystemTypeName("real") = [name |-> "real", tds |-> "Flt4"]
    /\ FromSystemTypeName("float") = [name |-> "float", tds |-> "Flt8"]
    /\ FromSystemTypeName("uniqueidentifier") = [name |-> "uniqueidentifier", tds |-> "Guid"]
    /\ FromSystemTypeName("date") = [name |-> "date", tds |-> "DateN"]
    /\ FromSystemTypeName("time") = [name |-> "time", tds |-> "TimeN"]
    /\ FromSystemTypeName("datetime2") = [name |-> "datetime2", tds |-> "DateTime2N"]
    /\ FromSystemTypeName("datetimeoffset") =
           [name |-> "datetimeoffset", tds |-> "DateTimeOffsetN"]
    /\ FromSystemTypeName("datetime") = [name |-> "datetime", tds |-> "DateTime"]
    /\ FromSystemTypeName("smalldatetime") = [name |-> "smalldatetime", tds |-> "DateTim4"]
    /\ FromSystemTypeName("geometry") = [name |-> "geometry", tds |-> "Udt"]
    /\ FromSystemTypeName("geography") = [name |-> "geography", tds |-> "Udt"]
    /\ FromSystemTypeName("nvarchar") = [name |-> "nvarchar", tds |-> "NVarChar"]
    /\ FromSystemTypeName("varbinary") = [name |-> "varbinary", tds |-> "BigVarBinary"]
    /\ \A name \in {"char", "varchar", "nchar", "text", "ntext", "xml", "json"} :
           /\ FromSystemTypeName(name).name = name
           /\ FromSystemTypeName(name).tds \in Character \ {"NVarChar"}
    /\ \A name \in {"binary", "image"} :
           /\ FromSystemTypeName(name).name = name
           /\ FromSystemTypeName(name).tds \in Binary \ {"BigVarBinary"}
BY DEF FromSystemTypeName, TypeInfo, SystemTypes, Character, Binary

\* The standard kinds, one by one.
LEMMA StdAre ==
    /\ Std[1] = "bool" /\ Std[2] = "i8" /\ Std[3] = "i16" /\ Std[4] = "i32" /\ Std[5] = "i64"
    /\ Std[6] = "f32" /\ Std[7] = "f64" /\ Std[8] = "string" /\ Std[9] = "bytes"
BY DEF Std

\* A number, and the two types with variable lengths that are encoded.
LEMMA NumbersTaken ==
    \A name \in {"bit", "tinyint", "smallint", "int", "bigint", "real", "float",
                 "nvarchar", "varbinary"} :
        Resolve(FromSystemTypeName(name), features) = Owner(name)
<1> DEFINE Names == <<"bit", "tinyint", "smallint", "int", "bigint", "real", "float",
                      "nvarchar", "varbinary">>
<1>1. ASSUME NEW k \in 1 .. 9
      PROVE  Resolve(FromSystemTypeName(Names[k]), features) = Std[k]
  <2> DEFINE info == FromSystemTypeName(Names[k])
  <2>1. k \in {1, 2, 3, 4, 5, 6, 7, 8, 9}
    OBVIOUS
  <2>2. info.tds = <<"Bit", "Int1", "Int2", "Int4", "Int8", "Flt4", "Flt8", "NVarChar",
                     "BigVarBinary">>[k]
    BY <2>1, Described
  <2> HIDE DEF info
  <2>3. IsOwn(Std[k], info)
    BY <2>1, <2>2, OwnKinds, StdAre
  <2>4. \A i \in 1 .. k - 1 : i \in {1, 2, 3, 4, 5, 6, 7, 8} /\ i < k
    OBVIOUS
  <2>5. \A i \in 1 .. k - 1 : ~IsOwn(Std[i], info)
    BY <2>1, <2>2, <2>4, OwnKinds, StdAre
  <2> QED
    BY <2>3, <2>5, TakenFromStd DEF info
<1>2. ASSUME NEW k \in 1 .. 9
      PROVE  Owner(Names[k]) = Std[k]
  <2>1. k \in {1, 2, 3, 4, 5, 6, 7, 8, 9}
    OBVIOUS
  <2> QED
    BY <2>1, StdAre DEF Owner, Width
<1>3. \A name \in {"bit", "tinyint", "smallint", "int", "bigint", "real", "float",
                   "nvarchar", "varbinary"} : \E k \in 1 .. 9 : name = Names[k]
  <2>1. /\ Names[1] = "bit" /\ Names[2] = "tinyint" /\ Names[3] = "smallint"
        /\ Names[4] = "int" /\ Names[5] = "bigint" /\ Names[6] = "real"
        /\ Names[7] = "float" /\ Names[8] = "nvarchar" /\ Names[9] = "varbinary"
    OBVIOUS
  <2> HIDE DEF Names
  <2> QED
    BY <2>1
<1> HIDE DEF Names
<1> QED
  BY <1>1, <1>2, <1>3

\* Text and bytes of the other types.
LEMMA TextTaken ==
    \A name \in {"char", "varchar", "nchar", "text", "ntext", "xml", "json", "binary", "image"} :
        Resolve(FromSystemTypeName(name), features) = Owner(name)
<1>1. ASSUME NEW kind \in MainOffers(features), NEW info,
             info.tds \in (Character \cup Binary) \ {"NVarChar", "BigVarBinary"}
      PROVE  ~IsOwn(kind, info)
  <2>1. kind \in StdKinds \cup {"geometry", "geography", "wkb", "uuid", "date", "time",
                                "datetime", "timestamp"}
    BY DEF MainOffers
  <2> QED
    BY <1>1, <2>1, OwnKinds DEF StdKinds, Character, Binary
<1>2. ASSUME NEW name \in {"char", "varchar", "nchar", "text", "ntext", "xml", "json"}
      PROVE  Resolve(FromSystemTypeName(name), features) = Owner(name)
  <2> DEFINE info == FromSystemTypeName(name)
  <2>1. info.tds \in Character \ {"NVarChar"}
    BY Described
  <2> HIDE DEF info
  <2>2. Compatible(Std[8], info)
    BY <2>1, CompatibleKinds, StdAre
  <2>3. \A i \in 1 .. 8 - 1 : ~Compatible(Std[i], info)
    <3>1. \A i \in 1 .. 8 - 1 : i \in {1, 2, 3, 4, 5, 6, 7}
      OBVIOUS
    <3> QED
      BY <2>1, <3>1, CompatibleKinds, StdAre DEF Character, Numeric
  <2>4. info.tds \in (Character \cup Binary) \ {"NVarChar", "BigVarBinary"}
    BY <2>1 DEF Character
  <2>5. Resolve(info, features) = Std[8]
    BY <1>1, <2>2, <2>3, <2>4, 8 \in 1 .. 9, TakenFromStd
  <2>6. Owner(name) = "string"
    BY DEF Owner, Width
  <2> QED
    BY <2>5, <2>6, StdAre DEF info
<1>3. ASSUME NEW name \in {"binary", "image"}
      PROVE  Resolve(FromSystemTypeName(name), features) = Owner(name)
  <2> DEFINE info == FromSystemTypeName(name)
  <2>1. info.tds \in Binary \ {"BigVarBinary"}
    BY Described
  <2> HIDE DEF info
  <2>2. Compatible(Std[9], info)
    BY <2>1, CompatibleKinds, StdAre
  <2>3. \A i \in 1 .. 9 - 1 : ~Compatible(Std[i], info)
    <3>1. \A i \in 1 .. 9 - 1 : i \in {1, 2, 3, 4, 5, 6, 7, 8}
      OBVIOUS
    <3> QED
      BY <2>1, <3>1, CompatibleKinds, StdAre DEF Character, Numeric, Binary
  <2>4. info.tds \in (Character \cup Binary) \ {"NVarChar", "BigVarBinary"}
    BY <2>1 DEF Binary
  <2>5. Resolve(info, features) = Std[9]
    BY <1>1, <2>2, <2>3, <2>4, 9 \in 1 .. 9, TakenFromStd
  <2>6. Owner(name) = "bytes"
    BY DEF Owner, Width
  <2> QED
    BY <2>5, <2>6, StdAre DEF info
<1> QED
  BY <1>2, <1>3

\* A shape, and a UUID: theirs alone, or nobody's.
LEMMA ShapesTaken ==
    \A name \in {"geometry", "geography", "uniqueidentifier"} :
        Resolve(FromSystemTypeName(name), features) = Owner(name)
<1>1. ASSUME NEW info, NEW k \in 1 .. 9, info.tds \in {"Udt", "Guid"}
      PROVE  ~IsOwn(Std[k], info)
  <2>1. k \in {1, 2, 3, 4, 5, 6, 7, 8, 9}
    OBVIOUS
  <2> QED
    BY <1>1, <2>1, OwnKinds, StdAre
<1>2. /\ \A i \in 1 .. 9 : MainList(features)[i].kind = Std[i]
      /\ \A i \in 10 .. Spatial(features) : MainList(features)[i].kind = Shapes[i - 9]
      /\ \A i \in Spatial(features) + 1 .. Ids(features) : MainList(features)[i].kind = "uuid"
  BY MainKinds
<1>3. Shapes[1] = "geometry" /\ Shapes[2] = "geography" /\ Shapes[3] = "wkb"
  BY DEF Shapes
<1>4. /\ Spatial(features) \in {9, 12} /\ Ids(features) \in Nat /\ Total(features) \in Nat
      /\ Spatial(features) <= Ids(features) /\ Ids(features) <= Total(features)
  BY DEF Spatial, Ids, Total
<1>5. ASSUME NEW info, info.tds \in {"Udt", "Guid"},
             \A kind \in {"geometry", "geography", "uuid"} \cap MainOffers(features) :
                 ~Hits(kind, info)
      PROVE  Resolve(info, features) = "none"
  <2>1. \A kind \in StdKinds \cup {"wkb", "date", "time", "datetime", "timestamp", "decimal"} :
            ~Hits(kind, info)
    BY <1>5, OwnKinds, CompatibleKinds
       DEF Hits, StdKinds, Character, Binary, Numeric, NaiveDateTime
  <2>2. \A kind \in MainOffers(features) :
            kind \in StdKinds \cup {"wkb", "date", "time", "datetime", "timestamp"}
                \cup {"geometry", "geography", "uuid"}
    BY DEF MainOffers
  <2>3. \A kind \in MainOffers(features) : ~Hits(kind, info)
    BY <1>5, <2>1, <2>2
  <2>4. \A i \in 1 .. 4 : Temporal[i] \in {"date", "time", "datetime", "timestamp"}
    BY DEF Temporal
  <2>5. \A i \in 1 .. 4 : ~Hits(Temporal[i], info)
    BY <2>1, <2>4
  <2> QED
    BY <2>1, <2>3, <2>5, TakenFromNowhere
<1>6. Resolve(FromSystemTypeName("geometry"), features) = Owner("geometry")
  <2> DEFINE info == FromSystemTypeName("geometry")
  <2>1. info.tds = "Udt" /\ info.name = "geometry"
    BY Described
  <2> HIDE DEF info
  <2>2. CASE "spatial" \in features
    <3>1. Spatial(features) = 12 /\ 10 \in 1 .. Total(features) /\ 10 \in 10 .. 12 /\ 10 - 9 = 1
      BY <1>4, <2>2 DEF Spatial
    <3>2. MainList(features)[10].kind = "geometry"
      BY <1>2, <1>3, <3>1
    <3>3. \A i \in 1 .. 10 - 1 : i \in 1 .. 9
      OBVIOUS
    <3>4. \A i \in 1 .. 10 - 1 : ~IsOwn(MainList(features)[i].kind, info)
      BY <1>1, <1>2, <2>1, <3>3
    <3>5. IsOwn(MainList(features)[10].kind, info)
      BY <2>1, <3>2, OwnKinds
    <3>6. Resolve(info, features) = "geometry"
      BY <3>1, <3>2, <3>4, <3>5, TakenFromMain
    <3>7. Owner("geometry") = "geometry"
      BY <2>2 DEF Owner, Width
    <3> QED
      BY <3>6, <3>7 DEF info
  <2>3. CASE "spatial" \notin features
    <3>1. "geometry" \notin MainOffers(features) /\ "geography" \notin MainOffers(features)
      BY <2>3 DEF MainOffers, StdKinds
    <3>2. ~Hits("uuid", info)
      BY <2>1, OwnKinds, CompatibleKinds DEF Hits
    <3>3. Resolve(info, features) = "none"
      BY <1>5, <2>1, <3>1, <3>2
    <3>4. Owner("geometry") = "none"
      BY <2>3 DEF Owner, Width
    <3> QED
      BY <3>3, <3>4 DEF info
  <2> QED
    BY <2>2, <2>3
<1>7. Resolve(FromSystemTypeName("geography"), features) = Owner("geography")
  <2> DEFINE info == FromSystemTypeName("geography")
  <2>1. info.tds = "Udt" /\ info.name = "geography"
    BY Described
  <2> HIDE DEF info
  <2>2. CASE "spatial" \in features
    <3>1. /\ Spatial(features) = 12 /\ 11 \in 1 .. Total(features)
          /\ 10 \in 10 .. 12 /\ 10 - 9 = 1 /\ 11 \in 10 .. 12 /\ 11 - 9 = 2
      BY <1>4, <2>2 DEF Spatial
    <3>2. MainList(features)[10].kind = "geometry" /\ MainList(features)[11].kind = "geography"
      BY <1>2, <1>3, <3>1
    <3>3. \A i \in 1 .. 11 - 1 : i \in 1 .. 9 \/ i = 10
      OBVIOUS
    <3>4. ~IsOwn("geometry", info) /\ IsOwn("geography", info)
      BY <2>1, OwnKinds
    <3>5. \A i \in 1 .. 11 - 1 : ~IsOwn(MainList(features)[i].kind, info)
      BY <1>1, <1>2, <2>1, <3>2, <3>3, <3>4
    <3>6. Resolve(info, features) = "geography"
      BY <3>1, <3>2, <3>4, <3>5, TakenFromMain
    <3>7. Owner("geography") = "geography"
      BY <2>2 DEF Owner, Width
    <3> QED
      BY <3>6, <3>7 DEF info
  <2>3. CASE "spatial" \notin features
    <3>1. "geometry" \notin MainOffers(features) /\ "geography" \notin MainOffers(features)
      BY <2>3 DEF MainOffers, StdKinds
    <3>2. ~Hits("uuid", info)
      BY <2>1, OwnKinds, CompatibleKinds DEF Hits
    <3>3. Resolve(info, features) = "none"
      BY <1>5, <2>1, <3>1, <3>2
    <3>4. Owner("geography") = "none"
      BY <2>3 DEF Owner, Width
    <3> QED
      BY <3>3, <3>4 DEF info
  <2> QED
    BY <2>2, <2>3
<1>8. Resolve(FromSystemTypeName("uniqueidentifier"), features) = Owner("uniqueidentifier")
  <2> DEFINE info == FromSystemTypeName("uniqueidentifier")
             k == Spatial(features) + 1
  <2>1. info.tds = "Guid"
    BY Described
  <2> HIDE DEF info
  <2>2. CASE "uuid" \in features
    <3>1. Ids(features) = k
      BY <2>2 DEF Ids
    <3>2. k \in 1 .. Total(features) /\ k \in Spatial(features) + 1 .. Ids(features)
      BY <1>4, <3>1
    <3>3. \A i \in 1 .. k - 1 : i \in 1 .. 9 \/ (i \in 10 .. Spatial(features) /\ i - 9 \in {1, 2, 3})
      BY <1>4
    <3> HIDE DEF k
    <3>4. MainList(features)[k].kind = "uuid"
      BY <1>2, <3>2
    <3>5. \A i \in {1, 2, 3} : ~IsOwn(Shapes[i], info)
      BY <1>3, <2>1, OwnKinds
    <3>6. \A i \in 1 .. k - 1 : ~IsOwn(MainList(features)[i].kind, info)
      BY <1>1, <1>2, <2>1, <3>3, <3>5
    <3>7. IsOwn("uuid", info)
      BY <2>1, OwnKinds
    <3>8. Resolve(info, features) = "uuid"
      BY <3>2, <3>4, <3>6, <3>7, TakenFromMain
    <3>9. Owner("uniqueidentifier") = "uuid"
      BY <2>2 DEF Owner, Width
    <3> QED
      BY <3>8, <3>9 DEF info
  <2>3. CASE "uuid" \notin features
    <3>1. "uuid" \notin MainOffers(features)
      BY <2>3 DEF MainOffers, StdKinds
    <3>2. ~Hits("geometry", info) /\ ~Hits("geography", info)
      BY <2>1, OwnKinds, CompatibleKinds DEF Hits
    <3>3. Resolve(info, features) = "none"
      BY <1>5, <2>1, <3>1, <3>2
    <3>4. Owner("uniqueidentifier") = "none"
      BY <2>3 DEF Owner, Width
    <3> QED
      BY <3>3, <3>4 DEF info
  <2> QED
    BY <2>2, <2>3
<1> QED
  BY <1>6, <1>7, <1>8

\* Dates and times: the first crate that is built in has them, if one is.
LEMMA MomentsTaken ==
    \A name \in {"date", "time", "datetime2", "datetime", "smalldatetime", "datetimeoffset"} :
        Resolve(FromSystemTypeName(name), features) = Owner(name)
<1>1. /\ Temporal[1] = "date" /\ Temporal[2] = "time" /\ Temporal[3] = "datetime"
      /\ Temporal[4] = "timestamp"
  BY DEF Temporal
<1>2. ASSUME NEW info, info.tds \in DateTimeData
      PROVE  \A kind \in StdKinds \cup {"geometry", "geography", "wkb", "uuid", "decimal"} :
                 ~Hits(kind, info)
  BY <1>2, OwnKinds, CompatibleKinds
     DEF Hits, StdKinds, Character, Binary, Numeric, NaiveDateTime, DateTimeData
<1>3. ASSUME NEW info, info.tds \in DateTimeData, features \cap {"jiff", "chrono", "time"} = {}
      PROVE  Resolve(info, features) = "none"
  <2>1. \A kind \in MainOffers(features) : kind \in StdKinds \cup {"geometry", "geography", "wkb", "uuid"}
    BY <1>3 DEF MainOffers
  <2>2. /\ \A kind \in MainOffers(features) : ~Hits(kind, info)
        /\ ~Hits("decimal", info)
    BY <1>2, <1>3, <2>1
  <2> QED
    BY <1>3, <2>2, TakenFromNowhere
<1>4. ASSUME NEW info, NEW j \in 1 .. 4, FirstOfTemporal(j, info), info.tds \in DateTimeData
      PROVE  Resolve(info, features) =
                 IF features \cap {"jiff", "chrono", "time"} = {} THEN "none" ELSE Temporal[j]
  <2>1. CASE features \cap {"jiff", "chrono", "time"} = {}
    BY <1>3, <1>4, <2>1
  <2>2. CASE features \cap {"jiff", "chrono", "time"} # {}
    <3>1. \A kind \in StdKinds \cup {"geometry", "geography", "wkb", "uuid"} : ~Hits(kind, info)
      BY <1>2, <1>4
    <3> QED
      BY <1>4, <2>2, <3>1, TakenFromTemporal
  <2> QED
    BY <2>1, <2>2
<1>5. /\ \A i \in 1 .. 1 - 1 : FALSE
      /\ \A i \in 1 .. 2 - 1 : i = 1
      /\ \A i \in 1 .. 3 - 1 : i \in {1, 2}
      /\ \A i \in 1 .. 4 - 1 : i \in {1, 2, 3}
      /\ \A i \in 1 .. 4 : i \in {1, 2, 3, 4}
      /\ 1 \in 1 .. 4 /\ 2 \in 1 .. 4 /\ 3 \in 1 .. 4 /\ 4 \in 1 .. 4
  OBVIOUS
<1>6. ASSUME NEW info
      PROVE  /\ info.tds = "DateN" => FirstOfTemporal(1, info)
             /\ info.tds = "TimeN" => FirstOfTemporal(2, info)
             /\ info.tds \in {"DateTime2N", "DateTime", "DateTim4"} => FirstOfTemporal(3, info)
             /\ info.tds = "DateTimeOffsetN" => FirstOfTemporal(4, info)
  <2>1. info.tds = "DateN" => FirstOfTemporal(1, info)
    BY <1>1, <1>5, OwnKinds DEF FirstOfTemporal
  <2>2. info.tds = "TimeN" => FirstOfTemporal(2, info)
    BY <1>1, <1>5, OwnKinds DEF FirstOfTemporal
  <2>3. ASSUME info.tds = "DateTime2N" PROVE FirstOfTemporal(3, info)
    BY <1>1, <1>5, <2>3, OwnKinds DEF FirstOfTemporal
  <2>4. ASSUME info.tds \in {"DateTime", "DateTim4"} PROVE FirstOfTemporal(3, info)
    <3>1. \A i \in {1, 2, 3, 4} : ~IsOwn(Temporal[i], info)
      BY <1>1, <2>4, OwnKinds
    <3>2. /\ Compatible(Temporal[3], info)
          /\ \A i \in {1, 2} : ~Compatible(Temporal[i], info)
      BY <1>1, <2>4, CompatibleKinds DEF NaiveDateTime
    <3> QED
      BY <1>5, <3>1, <3>2 DEF FirstOfTemporal
  <2>5. info.tds = "DateTimeOffsetN" => FirstOfTemporal(4, info)
    BY <1>1, <1>5, OwnKinds DEF FirstOfTemporal
  <2> QED
    BY <2>1, <2>2, <2>3, <2>4, <2>5
<1>7. ASSUME NEW name \in {"date", "time", "datetime2", "datetime", "smalldatetime",
                           "datetimeoffset"}
      PROVE  Resolve(FromSystemTypeName(name), features) = Owner(name)
  <2> DEFINE info == FromSystemTypeName(name)
             some == features \cap {"jiff", "chrono", "time"} # {}
  <2>1. CASE name = "date"
    <3>1. info.tds = "DateN"
      BY <2>1, Described
    <3> HIDE DEF info
    <3>2. Resolve(info, features) = IF some THEN "date" ELSE "none"
      BY <1>1, <1>4, <1>5, <1>6, <3>1 DEF DateTimeData
    <3>3. Owner(name) = IF some THEN "date" ELSE "none"
      BY <2>1 DEF Owner, Width
    <3> QED
      BY <3>2, <3>3 DEF info
  <2>2. CASE name = "time"
    <3>1. info.tds = "TimeN"
      BY <2>2, Described
    <3> HIDE DEF info
    <3>2. Resolve(info, features) = IF some THEN "time" ELSE "none"
      BY <1>1, <1>4, <1>5, <1>6, <3>1 DEF DateTimeData
    <3>3. Owner(name) = IF some THEN "time" ELSE "none"
      BY <2>2 DEF Owner, Width
    <3> QED
      BY <3>2, <3>3 DEF info
  <2>3. CASE name \in {"datetime2", "datetime", "smalldatetime"}
    <3>1. info.tds \in {"DateTime2N", "DateTime", "DateTim4"}
      BY <2>3, Described
    <3> HIDE DEF info
    <3>2. info.tds \in DateTimeData
      BY <3>1 DEF DateTimeData, NaiveDateTime
    <3>3. Resolve(info, features) = IF some THEN "datetime" ELSE "none"
      BY <1>1, <1>4, <1>5, <1>6, <3>1, <3>2
    <3>4. Owner(name) = IF some THEN "datetime" ELSE "none"
      BY <2>3 DEF Owner, Width
    <3> QED
      BY <3>3, <3>4 DEF info
  <2>4. CASE name = "datetimeoffset"
    <3>1. info.tds = "DateTimeOffsetN"
      BY <2>4, Described
    <3> HIDE DEF info
    <3>2. Resolve(info, features) = IF some THEN "timestamp" ELSE "none"
      BY <1>1, <1>4, <1>5, <1>6, <3>1 DEF DateTimeData
    <3>3. Owner(name) = IF some THEN "timestamp" ELSE "none"
      BY <2>4 DEF Owner, Width
    <3> QED
      BY <3>2, <3>3 DEF info
  <2> QED
    BY <2>1, <2>2, <2>3, <2>4
<1> QED
  BY <1>7

\* The macros take a type's owner, in every build: a permissive `compatible` of
\* another type never claims it.
THEOREM OwnerTaken ==
    ASSUME NEW name \in Owned
    PROVE  Resolve(FromSystemTypeName(name), features) = Owner(name)
BY OwnedTypes, NumbersTaken, TextTaken, ShapesTaken, MomentsTaken

\* has_exact_rust_mapping holds of types that have an owner in the build only.
LEMMA ExactIsOwned ==
    ASSUME NEW name, Modelled(name), HasExactRustMapping(FromSystemTypeName(name), features)
    PROVE  name \in Owned /\ Owner(name) # "none"
<1>1. name \in DOMAIN SystemTypes
  BY DEF Modelled
<1>2. name \in Owned
  <2>1. SUFFICES ASSUME name \in {"decimal", "numeric", "money", "smallmoney"} PROVE FALSE
    BY <1>1 DEF Owned
  <2>2. /\ FromSystemTypeName("decimal") = [name |-> "decimal", tds |-> "DecimalN"]
        /\ FromSystemTypeName("numeric") = [name |-> "numeric", tds |-> "DecimalN"]
        /\ FromSystemTypeName("money") = [name |-> "money", tds |-> "Money"]
        /\ FromSystemTypeName("smallmoney") = [name |-> "smallmoney", tds |-> "Money4"]
    BY DEF FromSystemTypeName, TypeInfo, SystemTypes
  <2>3. FromSystemTypeName(name).tds \in {"DecimalN", "Money", "Money4"}
    BY <2>1, <2>2
  <2> QED
    BY <2>3 DEF HasExactRustMapping, IsUdt, Character, Binary, DateTimeData, NaiveDateTime
<1>3. ASSUME name \in {"date", "time", "datetime2", "datetime", "smalldatetime",
                       "datetimeoffset"}
      PROVE  features \cap {"jiff", "chrono", "time"} # {}
  <2>1. FromSystemTypeName(name).tds \in DateTimeData
    BY <1>3, Described DEF DateTimeData, NaiveDateTime
  <2> QED
    BY <2>1 DEF HasExactRustMapping, IsUdt, Character, Binary, DateTimeData, NaiveDateTime
<1>4. name \in {"geometry", "geography"} => "spatial" \in features
  BY Described DEF HasExactRustMapping, IsUdt, Character, Binary, DateTimeData, NaiveDateTime
<1>5. name = "uniqueidentifier" => "uuid" \in features
  BY Described DEF HasExactRustMapping, IsUdt, Character, Binary, DateTimeData, NaiveDateTime
<1>6. Owner(name) # "none"
  <2>1. CASE name \in {"tinyint", "smallint", "int", "bigint", "bit", "real", "float"}
    BY <2>1 DEF Owner, Width
  <2>2. CASE name \in {"char", "varchar", "nchar", "nvarchar", "text", "ntext", "xml", "json"}
    BY <2>2 DEF Owner, Width
  <2>3. CASE name \in {"binary", "varbinary", "image"}
    BY <2>3 DEF Owner, Width
  <2>4. CASE name \in {"geometry", "geography", "uniqueidentifier"}
    BY <1>4, <1>5, <2>4 DEF Owner, Width
  <2>5. CASE name \in {"date", "time", "datetime2", "datetime", "smalldatetime",
                       "datetimeoffset"}
    BY <1>3, <2>5 DEF Owner, Width
  <2> QED
    BY <1>2, <2>1, <2>2, <2>3, <2>4, <2>5, OwnedTypes
<1> QED
  BY <1>2, <1>6

-----------------------------------------------------------------------------
(* Ascending lists. *)

\* The only ascending list of n numbers up to n is 1, 2, ..., n.
LEMMA AscentIsIdentity ==
    ASSUME NEW n \in Nat, NEW s \in [1 .. n -> 1 .. n], Ascends(s)
    PROVE  \A k \in 1 .. n : s[k] = k
<1> DEFINE Low == {k \in Int : k \in 1 .. n => s[k] >= k}
           High == {k \in Int : n + 1 - k \in 1 .. n => s[n + 1 - k] <= n + 1 - k}
<1>1. ASSUME NEW j \in 1 .. n, NEW k \in 1 .. n, j < k PROVE s[j] < s[k]
  BY <1>1 DEF Ascends
<1>2. \A k \in 1 .. n : k \in Low
  <2>1. 1 \in Low
    OBVIOUS
  <2>2. \A k \in 1 .. n - 1 : k \in Low => k + 1 \in Low
    <3> SUFFICES ASSUME NEW k \in 1 .. n - 1, k \in Low PROVE k + 1 \in Low
      OBVIOUS
    <3>1. k \in 1 .. n /\ k + 1 \in 1 .. n /\ k < k + 1
      OBVIOUS
    <3>2. s[k] < s[k + 1] /\ s[k] >= k /\ s[k] \in Int /\ s[k + 1] \in Int
      BY <1>1, <3>1
    <3>3. s[k + 1] >= k + 1
      BY <3>2
    <3> QED
      BY <3>3
  <2>3. 1 \in Int /\ n \in Int
    OBVIOUS
  <2> HIDE DEF Low
  <2> QED
    BY <2>1, <2>2, <2>3, Reaches
<1>3. \A k \in 1 .. n : k \in High
  <2>1. 1 \in High
    OBVIOUS
  <2>2. \A k \in 1 .. n - 1 : k \in High => k + 1 \in High
    <3> SUFFICES ASSUME NEW k \in 1 .. n - 1, k \in High PROVE k + 1 \in High
      OBVIOUS
    <3> DEFINE j == n + 1 - (k + 1)
    <3>1. j \in 1 .. n /\ j + 1 \in 1 .. n /\ j < j + 1 /\ j + 1 = n + 1 - k
      OBVIOUS
    <3>2. s[j + 1] <= j + 1
      BY <3>1
    <3> HIDE DEF j
    <3>3. s[j] < s[j + 1] /\ s[j] \in Int /\ s[j + 1] \in Int
      BY <1>1, <3>1
    <3>4. s[j] <= j
      BY <3>1, <3>2, <3>3
    <3> QED
      BY <3>4 DEF j
  <2>3. 1 \in Int /\ n \in Int
    OBVIOUS
  <2> HIDE DEF High
  <2> QED
    BY <2>1, <2>2, <2>3, Reaches
<1> TAKE k \in 1 .. n
<1>4. k \in Low /\ n + 1 - k \in High
  BY <1>2, <1>3, n + 1 - k \in 1 .. n
<1>5. n + 1 - (n + 1 - k) = k /\ s[k] \in Int
  OBVIOUS
<1>6. s[k] >= k
  BY <1>4
<1>7. s[k] <= k
  BY <1>4, <1>5
<1> QED
  BY <1>5, <1>6, <1>7

-----------------------------------------------------------------------------
(* infer_parameters *)

\* An element of a sequence.
LEMMA ElementOf ==
    ASSUME NEW T, NEW s \in Seq(T)
    PROVE  Len(s) \in Nat /\ \A i \in 1 .. Len(s) : s[i] \in T
OBVIOUS

\* What the model is given.
LEMMA StatementTyped ==
    ASSUME statement \in Statements
    PROVE  /\ statement.markers \in Seq([seen : BOOLEAN, suggested : STRING])
           /\ marker_count \in Nat
           /\ \A p \in 1 .. marker_count : statement.markers[p].suggested \in STRING
           /\ statement.columns \in
                  Seq([name : STRING, is_hidden : STRING, is_nullable : STRING,
                       system_type_name : STRING, tds_type_id : STRING])
<1>1. statement \in [markers : Seq([seen : BOOLEAN, suggested : STRING]),
                     columns : Seq([name : STRING, is_hidden : STRING, is_nullable : STRING,
                                    system_type_name : STRING, tds_type_id : STRING])]
  BY StatementsAssumption
<1>2. statement.markers \in Seq([seen : BOOLEAN, suggested : STRING])
  BY <1>1
<1>3. \A p \in 1 .. Len(statement.markers) :
          statement.markers[p] \in [seen : BOOLEAN, suggested : STRING]
  BY <1>2, ElementOf
<1> QED
  BY <1>1, <1>2, <1>3 DEF marker_count

\* The parameters the server sees.
LEMMA SeenCounted ==
    ASSUME statement \in Statements
    PROVE  /\ Seen \in SUBSET (1 .. marker_count)
           /\ IsFiniteSet(Seen)
           /\ Cardinality(Seen) \in 0 .. marker_count
           /\ Cardinality(Seen) = marker_count => Seen = 1 .. marker_count
<1>1. Seen \in SUBSET (1 .. marker_count) /\ marker_count \in Nat
  BY StatementTyped DEF Seen
<1> QED
  BY <1>1, UpToIsFinite

\* The parameters it sees, in the order of their numbers.
Order == CHOOSE s \in SetToSeqs(Seen) : \A j, k \in DOMAIN s : j < k => s[j] < s[k]

LEMMA OrderAscends ==
    ASSUME statement \in Statements
    PROVE  /\ Order \in [1 .. Cardinality(Seen) -> Seen]
           /\ DOMAIN Order = 1 .. Cardinality(Seen)
           /\ Order \in Seq(Seen) /\ Len(Order) = Cardinality(Seen)
           /\ Ascends(Order)
           /\ Cardinality(Seen) = marker_count =>
                  \A k \in 1 .. marker_count : Order[k] = k
<1>1. \E s \in SetToSeqs(Seen) : \A j, k \in DOMAIN s : j < k => s[j] < s[k]
  BY SeenCounted, StatementTyped, CanBeListed DEF Ascends
<1>2. Order \in SetToSeqs(Seen) /\ Ascends(Order)
  BY <1>1 DEF Order, Ascends
<1>3. Order \in [1 .. Cardinality(Seen) -> Seen]
  BY <1>2 DEF SetToSeqs
<1>4. Order \in Seq(Seen) /\ Len(Order) = Cardinality(Seen)
  BY <1>3, SeenCounted
<1>5. ASSUME Cardinality(Seen) = marker_count
      PROVE  \A k \in 1 .. marker_count : Order[k] = k
  <2>1. Order \in [1 .. marker_count -> 1 .. marker_count] /\ marker_count \in Nat
    BY <1>3, <1>5, SeenCounted, StatementTyped
  <2> QED
    BY <1>2, <2>1, AscentIsIdentity
<1> QED
  BY <1>2, <1>3, <1>4, <1>5

\* Sorting by ordinal undoes the order in which the rows arrived.
LEMMA SortedIsOrder ==
    ASSUME statement \in Statements, NEW rows \in SetToSeqs(Seen)
    PROVE  ByOrdinal(rows) = Order
<1> DEFINE c == Cardinality(Seen)
<1>1. c \in Nat /\ IsFiniteSet(Seen)
  BY SeenCounted, StatementTyped
<1>2. rows \in Injection(1 .. c, Seen)
  BY DEF SetToSeqs, Injection, IsInjective
<1>3. Cardinality(1 .. c) = c
  <2>1. Cardinality(1 .. c) = IF 1 > c THEN 0 ELSE c - 1 + 1
    BY <1>1, FS_Interval
  <2> QED
    BY <1>1, <2>1
<1>4. rows \in Surjection(1 .. c, Seen)
  <2>1. Cardinality(1 .. c) = Cardinality(Seen) <=> rows \in Surjection(1 .. c, Seen)
    BY <1>1, <1>2, FS_Injection
  <2> QED
    BY <1>3, <2>1
<1>5. Range(rows) = Seen
  BY <1>4 DEF Surjection, Range
<1> QED
  BY <1>5 DEF ByOrdinal, Order

\* What the server is told and what is known of the parameters, once it has
\* answered or was not asked, for want of markers.
Answered ==
    /\ declarations = [k \in DOMAIN Order |->
                          [parameter |-> Order[k], type |-> DeclaredType(Order[k])]]
    /\ known => \A k \in DOMAIN Order : Exact(Order[k])
    /\ types = IF known
               THEN [k \in DOMAIN Order |-> FromSystemTypeName(DeclaredType(Order[k]))]
               ELSE <<>>

IInv ==
    /\ TypeOK
    /\ at \in {"describe", "done"} => Answered
    /\ at # "done" => columns = <<>> /\ parameters = Count(0)
    /\ at = "done" => columns = Columns(statement.columns) /\ parameters = Parameters

LEMMA InferKeeps == IInv /\ InferParameters => IInv'
<1> SUFFICES ASSUME IInv, InferParameters PROVE IInv'
  OBVIOUS
<1>1. /\ statement \in Statements /\ features \in Builds /\ known \in BOOLEAN
      /\ at = "infer" /\ columns = <<>> /\ parameters = Count(0)
      /\ marker_count \in Nat /\ statement' = statement /\ features' = features
  BY StatementTyped DEF IInv, TypeOK, InferParameters, given
<1>2. PICK rows \in SetToSeqs(Seen) :
          LET inferred == ByOrdinal(rows)
          IN  /\ declarations' = [k \in DOMAIN inferred |->
                     [parameter |-> inferred[k], type |-> DeclaredType(inferred[k])]]
              /\ known' = (\A k \in DOMAIN inferred : Exact(inferred[k]))
              /\ types' = IF known' THEN [k \in DOMAIN inferred |->
                                              FromSystemTypeName(DeclaredType(inferred[k]))]
                          ELSE <<>>
  BY DEF InferParameters
<1>3. ByOrdinal(rows) = Order
  BY <1>1, SortedIsOrder
<1>4. /\ declarations' = [k \in DOMAIN Order |->
             [parameter |-> Order[k], type |-> DeclaredType(Order[k])]]
      /\ known' = (\A k \in DOMAIN Order : Exact(Order[k]))
      /\ types' = IF known' THEN [k \in DOMAIN Order |->
                                      FromSystemTypeName(DeclaredType(Order[k]))]
                  ELSE <<>>
  BY <1>2, <1>3
<1>5. /\ Order' = Order /\ Seen' = Seen /\ marker_count' = marker_count
      /\ \A p : DeclaredType(p)' = DeclaredType(p) /\ Exact(p)' = Exact(p)
  BY <1>1 DEF Order, Seen, marker_count, DeclaredType, Exact
<1>6. /\ DOMAIN Order = 1 .. Cardinality(Seen) /\ Cardinality(Seen) \in Nat
      /\ \A k \in DOMAIN Order : Order[k] \in Seen
  BY <1>1, OrderAscends, SeenCounted
<1>7. known' => \A k \in DOMAIN Order : Modelled(DeclaredType(Order[k]))
  BY <1>4 DEF Exact
<1>8. types' \in Seq(ModelledTypes)
  <2>1. CASE known'
    <3>1. \A k \in 1 .. Cardinality(Seen) :
              FromSystemTypeName(DeclaredType(Order[k])) \in ModelledTypes
      BY <1>6, <1>7, <2>1 DEF Modelled, ModelledTypes
    <3>2. types' = [k \in 1 .. Cardinality(Seen) |-> FromSystemTypeName(DeclaredType(Order[k]))]
      BY <1>4, <1>6, <2>1
    <3> QED
      BY <1>6, <3>1, <3>2
  <2>2. CASE ~known'
    BY <1>4, <2>2
  <2> QED
    BY <2>1, <2>2
<1>9. Answered'
  <2>1. known' => (\A k \in DOMAIN Order : Exact(Order[k]))'
    BY <1>1, <1>4, <1>5 DEF Exact, DeclaredType
  <2> QED
    BY <1>4, <1>5, <2>1 DEF Answered
<1>10. TypeOK'
  <2>1. \A k \in DOMAIN declarations' :
            declarations'[k].parameter \in Seen' /\ declarations'[k].type # Null
    <3> SUFFICES ASSUME NEW k \in DOMAIN Order
                 PROVE  Order[k] \in Seen' /\ DeclaredType(Order[k]) # Null
      BY <1>4
    <3>1. Order[k] \in Seen'
      BY <1>5, <1>6
    <3>2. "nvarchar" # Null
      BY DEF Null
    <3>3. DeclaredType(Order[k]) # Null
      BY <3>2 DEF DeclaredType
    <3> QED
      BY <3>1, <3>3
  <2>2. /\ columns' = <<>> /\ parameters' = Count(0) /\ at' = "describe"
        /\ statement' \in Statements /\ features' \in Builds
    BY <1>1 DEF InferParameters, answer
  <2>3. known' \in BOOLEAN
    BY <1>4
  <2>4. \A k \in DOMAIN columns' :
            /\ columns'[k].ordinal \in 0 .. Len(statement'.columns) - 1
            /\ columns'[k].nullable \in BOOLEAN
    BY <2>2
  <2>5. parameters' \in {Count(n) : n \in 0 .. marker_count'} \cup {Types(types')}
    BY <1>1, <1>5, <2>2
  <2> QED
    BY <1>8, <2>1, <2>2, <2>3, <2>4, <2>5 DEF TypeOK, Count, Types
<1> QED
  BY <1>1, <1>9, <1>10 DEF IInv, InferParameters, answer, Count

-----------------------------------------------------------------------------
(* The columns. *)

\* The columns after a row: its own is added unless it is hidden.
After(rows, f, n) ==
    IF n = 0 THEN <<>>
    ELSE IF rows[n].is_hidden = "yes" THEN f[n - 1]
    ELSE Append(f[n - 1], Column(rows[n], Len(f[n - 1])))

\* The loop follows its definition.
LEMMA LoopSteps ==
    ASSUME NEW rows, Len(rows) \in Nat
    PROVE  \E f : /\ \A n \in 0 .. Len(rows) : f[n] = After(rows, f, n)
                  /\ Columns(rows) = f[Len(rows)]
<1> DEFINE m == Len(rows)
           S == {n \in Nat : \E f : f = [i \in 0 .. n |-> After(rows, f, i)]}
<1>1. 0 \in S
  <2> DEFINE f == [i \in 0 .. 0 |-> <<>>]
  <2>1. f = [i \in 0 .. 0 |-> After(rows, f, i)]
    BY DEF After
  <2> HIDE DEF f
  <2> QED
    BY <2>1
<1>2. ASSUME NEW n \in 0 .. m - 1, n \in S PROVE n + 1 \in S
  <2>1. PICK f : f = [i \in 0 .. n |-> After(rows, f, i)]
    BY <1>2
  <2> DEFINE g == [i \in 0 .. n + 1 |-> IF i <= n THEN f[i] ELSE After(rows, f, i)]
  <2>2. ASSUME NEW i \in 0 .. n + 1 PROVE g[i] = After(rows, g, i)
    <3>1. i # 0 => g[i - 1] = f[i - 1]
      OBVIOUS
    <3>2. After(rows, g, i) = After(rows, f, i)
      <4> HIDE DEF g
      <4> QED
        BY <3>1 DEF After
    <3>3. i <= n => f[i] = After(rows, f, i)
      BY <2>1
    <3> QED
      BY <3>2, <3>3
  <2>3. g = [i \in 0 .. n + 1 |-> After(rows, g, i)]
    BY <2>2
  <2> HIDE DEF g
  <2>4. n + 1 \in Nat
    OBVIOUS
  <2> QED
    BY <2>3, <2>4
<1>3. m \in S
  <2>1. 0 \in Int /\ m \in Int /\ m \in Nat
    OBVIOUS
  <2>2. \A n \in 0 .. m - 1 : n \in S => n + 1 \in S
    BY <1>2
  <2> HIDE DEF S
  <2>3. \A n \in 0 .. m : n \in S
    BY <1>1, <2>1, <2>2, Reaches
  <2> HIDE DEF m
  <2> QED
    BY <2>1, <2>3
<1> DEFINE f == CHOOSE f : f = [n \in 0 .. m |-> After(rows, f, n)]
<1>4. Columns(rows) = f[m]
  BY DEF Columns, After
<1>5. f = [n \in 0 .. m |-> After(rows, f, n)]
  BY <1>3
<1> HIDE DEF f
<1>6. \A n \in 0 .. m : f[n] = After(rows, f, n)
  BY <1>5
<1> QED
  BY <1>4, <1>6

\* The rows up to n that are not hidden.
Visible(rows, n) == {i \in 1 .. n : rows[i].is_hidden # "yes"}

\* Each of them gives a column, numbered by those before it.
Shown(rows, c, n) ==
    /\ Len(c) = Cardinality(Visible(rows, n))
    /\ \A i \in Visible(rows, n) :
           LET k == Cardinality(Visible(rows, i - 1)) + 1
           IN  k \in 1 .. Len(c) /\ c[k] = Column(rows[i], k - 1)
    /\ \A k \in 1 .. Len(c) :
           \E i \in Visible(rows, n) : k = Cardinality(Visible(rows, i - 1)) + 1

LEMMA ColumnsShown ==
    ASSUME NEW R, NEW rows \in Seq(R)
    PROVE  /\ Columns(rows) \in Seq({Column(r, o) : r \in R, o \in Nat})
           /\ Shown(rows, Columns(rows), Len(rows))
<1> DEFINE C == {Column(r, o) : r \in R, o \in Nat}
           m == Len(rows)
<1>1. m \in Nat /\ \A i \in 1 .. m : rows[i] \in R
  BY ElementOf
<1>2. PICK f : /\ \A n \in 0 .. m : f[n] = After(rows, f, n)
               /\ Columns(rows) = f[m]
  BY <1>1, LoopSteps
<1> DEFINE S == {n \in 0 .. m : f[n] \in Seq(C) /\ Shown(rows, f[n], n)}
<1>3. 0 \in S
  <2>1. f[0] = <<>> /\ Visible(rows, 0) = {} /\ Cardinality({}) = 0
    BY <1>1, <1>2, FS_EmptySet DEF After, Visible
  <2>2. Shown(rows, f[0], 0)
    <3>1. Len(f[0]) = 0 /\ 1 .. Len(f[0]) = {}
      BY <2>1
    <3>2. Len(f[0]) = Cardinality(Visible(rows, 0))
      BY <2>1, <3>1
    <3> QED
      BY <2>1, <3>1, <3>2 DEF Shown
  <2> HIDE DEF C
  <2>3. f[0] \in Seq(C)
    BY <2>1
  <2>4. 0 \in 0 .. m
    BY <1>1
  <2> QED
    BY <2>2, <2>3, <2>4
<1>4. ASSUME NEW n \in 0 .. m - 1, n \in S PROVE n + 1 \in S
  <2> DEFINE V == Visible(rows, n)
             W == Visible(rows, n + 1)
  <2>1. f[n] \in Seq(C) /\ Len(f[n]) = Cardinality(V) /\ Cardinality(V) \in Nat /\ IsFiniteSet(V)
    BY <1>4, UpToIsFinite DEF Shown, Visible
  <2>2. f[n + 1] = IF rows[n + 1].is_hidden = "yes" THEN f[n]
                   ELSE Append(f[n], Column(rows[n + 1], Len(f[n])))
    <3>1. n + 1 \in 0 .. m /\ n + 1 # 0 /\ n + 1 - 1 = n
      BY <1>1
    <3> QED
      BY <1>2, <3>1 DEF After
  <2>3. CASE rows[n + 1].is_hidden = "yes"
    <3>1. W = V
      BY <2>3 DEF Visible
    <3>2. Shown(rows, f[n + 1], n + 1)
      BY <1>4, <2>2, <2>3, <3>1 DEF Shown
    <3> QED
      BY <1>1, <2>1, <2>2, <2>3, <3>2
  <2>4. CASE rows[n + 1].is_hidden # "yes"
    <3>1. W = V \cup {n + 1} /\ n + 1 \notin V /\ n + 1 \in W
      BY <2>4 DEF Visible
    <3>2. Cardinality(W) = Cardinality(V) + 1
      BY <2>1, <3>1, FS_AddElement
    <3> DEFINE c == f[n]
               d == Column(rows[n + 1], Len(c))
    <3>3. d \in C
      BY <1>1, <2>1, n + 1 \in 1 .. m
    <3>4. f[n + 1] = Append(c, d)
      BY <2>2, <2>4
    <3>5. /\ f[n + 1] \in Seq(C) /\ Len(f[n + 1]) = Len(c) + 1
          /\ \A k \in 1 .. Len(c) : f[n + 1][k] = c[k]
          /\ f[n + 1][Len(c) + 1] = d
      <4> HIDE DEF C, d
      <4> QED
        BY <2>1, <3>3, <3>4
    <3>6. Visible(rows, n + 1 - 1) = V
      BY n + 1 - 1 = n
    <3> HIDE DEF C, m
    <3>7. ASSUME NEW i \in W
          PROVE  LET k == Cardinality(Visible(rows, i - 1)) + 1
                 IN  k \in 1 .. Len(f[n + 1]) /\ f[n + 1][k] = Column(rows[i], k - 1)
      <4>1. CASE i = n + 1
        <5>1. Cardinality(Visible(rows, i - 1)) = Len(c)
          BY <2>1, <3>6, <4>1
        <5> HIDE DEF c
        <5> QED
          BY <2>1, <3>5, <4>1, <5>1 DEF c
      <4>2. CASE i # n + 1
        <5> DEFINE k == Cardinality(Visible(rows, i - 1)) + 1
        <5>1. i \in V
          BY <3>1, <4>2
        <5>2. k \in 1 .. Len(c) /\ c[k] = Column(rows[i], k - 1)
          BY <1>4, <5>1 DEF Shown
        <5> HIDE DEF k
        <5>3. k \in 1 .. Len(f[n + 1]) /\ f[n + 1][k] = Column(rows[i], k - 1)
          BY <2>1, <3>5, <5>2
        <5> QED
          BY <5>3 DEF k
      <4> QED
        BY <4>1, <4>2
    <3>8. ASSUME NEW k \in 1 .. Len(f[n + 1])
          PROVE  \E i \in W : k = Cardinality(Visible(rows, i - 1)) + 1
      <4>1. CASE k = Len(c) + 1
        BY <2>1, <3>1, <3>6, <4>1
      <4>2. CASE k # Len(c) + 1
        <5>1. k \in 1 .. Len(c)
          BY <2>1, <3>5, <4>2
        <5>2. PICK i \in V : k = Cardinality(Visible(rows, i - 1)) + 1
          BY <1>4, <5>1 DEF Shown
        <5> QED
          BY <3>1, <5>2
      <4> QED
        BY <4>1, <4>2
    <3>9. Shown(rows, f[n + 1], n + 1)
      <4>1. Len(f[n + 1]) = Cardinality(W)
        BY <2>1, <3>2, <3>5
      <4> QED
        BY <3>7, <3>8, <4>1 DEF Shown
    <3>10. n + 1 \in 0 .. m
      BY <1>1
    <3> QED
      BY <3>5, <3>9, <3>10
  <2> QED
    BY <2>3, <2>4
<1>5. m \in S
  <2>1. 0 \in Int /\ m \in Int /\ m \in 0 .. m
    BY <1>1
  <2>2. \A n \in 0 .. m - 1 : n \in S => n + 1 \in S
    BY <1>4
  <2> HIDE DEF S, m
  <2>3. \A n \in 0 .. m : n \in S
    BY <1>3, <2>1, <2>2, Reaches
  <2> QED
    BY <2>1, <2>3
<1> QED
  BY <1>2, <1>5

LEMMA DescribeKeeps == IInv /\ DescribeStatement => IInv'
<1> SUFFICES ASSUME IInv, DescribeStatement PROVE IInv'
  OBVIOUS
<1>1. /\ statement' = statement /\ features' = features /\ at = "describe" /\ at' = "done"
      /\ declarations' = declarations /\ types' = types /\ known' = known
      /\ columns' = Columns(statement.columns) /\ parameters' = Parameters
  BY DEF DescribeStatement, given
<1>2. TypeOK /\ Answered /\ marker_count \in Nat
  BY <1>1, StatementTyped DEF IInv, TypeOK
<1>3. /\ Answered' /\ Parameters' = Parameters /\ Seen' = Seen
      /\ marker_count' = marker_count
  <2>1. /\ Parameters' = Parameters /\ Seen' = Seen /\ marker_count' = marker_count
        /\ Answered' = Answered
    BY <1>1 DEF Answered, Parameters, Order, Seen, marker_count, DeclaredType, Exact
  <2> QED
    BY <1>2, <2>1
<1>4. Parameters \in {Count(n) : n \in 0 .. marker_count} \cup {Types(types)}
  BY <1>2 DEF Parameters
<1>5. \A k \in DOMAIN columns' :
          /\ columns'[k].ordinal \in 0 .. Len(statement.columns) - 1
          /\ columns'[k].nullable \in BOOLEAN
  <2> DEFINE rows == statement.columns
  <2>1. PICK R : rows \in Seq(R) /\ Len(rows) \in Nat
    BY <1>2, StatementTyped DEF TypeOK
  <2>2. Columns(rows) \in Seq({Column(r, o) : r \in R, o \in Nat})
        /\ Shown(rows, Columns(rows), Len(rows))
    BY <2>1, ColumnsShown
  <2>3. Cardinality(Visible(rows, Len(rows))) \in 0 .. Len(rows)
    BY <2>1, UpToIsFinite DEF Visible
  <2>4. DOMAIN Columns(rows) = 1 .. Len(Columns(rows)) /\ Len(Columns(rows)) \in 0 .. Len(rows)
    BY <2>2, <2>3 DEF Shown
  <2> SUFFICES ASSUME NEW k \in 1 .. Len(Columns(rows))
               PROVE  /\ Columns(rows)[k].ordinal \in 0 .. Len(rows) - 1
                      /\ Columns(rows)[k].nullable \in BOOLEAN
    BY <1>1, <2>4
  <2>5. PICK i \in Visible(rows, Len(rows)) : k = Cardinality(Visible(rows, i - 1)) + 1
    BY <2>2 DEF Shown
  <2>6. Columns(rows)[k] = Column(rows[i], k - 1)
    BY <2>2, <2>5 DEF Shown
  <2>7. k - 1 \in 0 .. Len(rows) - 1
    BY <2>1, <2>4
  <2> QED
    BY <2>6, <2>7 DEF Column
<1>6. TypeOK'
  BY <1>1, <1>2, <1>3, <1>4, <1>5 DEF TypeOK
<1> QED
  BY <1>1, <1>3, <1>6 DEF IInv

LEMMA FailsKeeps == IInv /\ Fails => IInv'
<1> SUFFICES ASSUME IInv, Fails PROVE IInv'
  OBVIOUS
<1>1. /\ statement' = statement /\ features' = features /\ at' = "failed"
      /\ declarations' = declarations /\ types' = types /\ known' = known
      /\ columns' = columns /\ parameters' = parameters /\ at # "done"
  BY DEF Fails, given, answer
<1>2. Seen' = Seen /\ marker_count' = marker_count
  BY <1>1 DEF Seen, marker_count
<1>3. TypeOK'
  BY <1>1, <1>2 DEF IInv, TypeOK
<1> QED
  BY <1>1, <1>3 DEF IInv

LEMMA InitDescribed == Init => IInv
<1> SUFFICES ASSUME Init PROVE IInv
  OBVIOUS
<1>1. /\ statement \in Statements /\ features \in Builds /\ marker_count \in Nat
      /\ declarations = <<>> /\ types = <<>> /\ known = TRUE /\ columns = <<>>
      /\ parameters = Count(0) /\ at \in {"infer", "describe"}
      /\ at = "describe" => marker_count = 0
  BY StatementTyped DEF Init
<1>2. ASSUME at = "describe" PROVE Answered
  <2>1. Cardinality(Seen) = 0
    BY <1>1, <1>2, SeenCounted
  <2>2. DOMAIN Order = 1 .. 0
    BY <1>1, <2>1, OrderAscends
  <2>3. \A k \in DOMAIN Order : FALSE
    BY <2>2
  <2> QED
    BY <1>1, <2>2, <2>3 DEF Answered
<1>3. TypeOK
  <2>1. types \in Seq(ModelledTypes)
    BY <1>1
  <2>2. 0 \in 0 .. marker_count
    BY <1>1
  <2>3. parameters \in {Count(n) : n \in 0 .. marker_count} \cup {Types(types)}
    BY <1>1, <2>2
  <2>4. \A k : k \notin DOMAIN declarations /\ k \notin DOMAIN columns
    BY <1>1
  <2> QED
    BY <1>1, <2>1, <2>3, <2>4 DEF TypeOK
<1> QED
  BY <1>1, <1>2, <1>3 DEF IInv

LEMMA NextDescribed == IInv /\ [Next]_vars => IInv'
<1> SUFFICES ASSUME IInv, [Next]_vars PROVE IInv'
  OBVIOUS
<1>1. CASE InferParameters
  BY <1>1, InferKeeps
<1>2. CASE DescribeStatement
  BY <1>2, DescribeKeeps
<1>3. CASE Fails
  BY <1>3, FailsKeeps
<1>4. CASE UNCHANGED vars
  <2>1. /\ statement' = statement /\ features' = features /\ at' = at
        /\ declarations' = declarations /\ types' = types /\ known' = known
        /\ columns' = columns /\ parameters' = parameters
    BY <1>4 DEF vars, given, answer
  <2>2. /\ Seen' = Seen /\ marker_count' = marker_count /\ Parameters' = Parameters
        /\ Answered' = Answered
    BY <2>1 DEF Seen, marker_count, Parameters, Answered, Order, DeclaredType, Exact
  <2> QED
    BY <2>1, <2>2 DEF IInv, TypeOK
<1> QED
  BY <1>1, <1>2, <1>3, <1>4 DEF Next

LEMMA AlwaysDescribed == Spec => []IInv
BY InitDescribed, NextDescribed, PTL DEF Spec

-----------------------------------------------------------------------------
(* The theorems. *)

\* The variables have their types: what is declared is a parameter the server
\* sees, with a type, and what is known of one is a type the driver models.
THEOREM TypeCorrect == Spec => []TypeOK
<1>1. IInv => TypeOK
  BY DEF IInv
<1> QED
  BY <1>1, AlwaysDescribed, PTL

\* Whatever the order of the rows, the server is told of each parameter it sees
\* once, in the order of their numbers (infer_parameters).
THEOREM DeclaredInTurn == Spec => []DeclaredInOrder
<1>1. IInv => DeclaredInOrder
  <2> SUFFICES ASSUME IInv, at \in {"describe", "done"}
               PROVE  /\ Len(declarations) = Cardinality(Seen)
                      /\ \A j, k \in DOMAIN declarations :
                             j < k => declarations[j].parameter < declarations[k].parameter
    BY DEF DeclaredInOrder
  <2>1. /\ DOMAIN Order = 1 .. Cardinality(Seen) /\ Cardinality(Seen) \in Nat
        /\ Ascends(Order)
    BY OrderAscends, SeenCounted, StatementTyped DEF IInv, TypeOK
  <2>2. declarations = [k \in 1 .. Cardinality(Seen) |->
                            [parameter |-> Order[k], type |-> DeclaredType(Order[k])]]
    BY <2>1 DEF IInv, Answered
  <2>3. Len(declarations) = Cardinality(Seen) /\ DOMAIN declarations = DOMAIN Order
    BY <2>1, <2>2
  <2>4. \A k \in DOMAIN Order : declarations[k].parameter = Order[k]
    BY <2>1, <2>2
  <2> QED
    BY <2>1, <2>3, <2>4 DEF Ascends
<1> QED
  BY <1>1, AlwaysDescribed, PTL

\* Types that are reported are the suggestions for their markers.
LEMMA ReportedTypes ==
    ASSUME IInv, at = "done", parameters.tag = "types"
    PROVE  /\ Len(parameters.types) = marker_count
           /\ \A p \in 1 .. marker_count :
                  parameters.types[p] = FromSystemTypeName(DeclaredType(p)) /\ Exact(p)
<1>1. parameters = Types(types) /\ known /\ Len(types) = marker_count
  <2>1. parameters = IF known /\ Len(types) = marker_count THEN Types(types)
                     ELSE Count(marker_count)
    BY DEF IInv, Parameters
  <2>2. Count(marker_count).tag # "types"
    BY DEF Count
  <2> QED
    BY <2>1, <2>2
<1>2. /\ DOMAIN Order = 1 .. Cardinality(Seen) /\ Cardinality(Seen) \in Nat
      /\ Cardinality(Seen) = marker_count =>
             \A k \in 1 .. marker_count : Order[k] = k
  BY OrderAscends, SeenCounted, StatementTyped DEF IInv, TypeOK
<1>3. /\ types = [k \in 1 .. Cardinality(Seen) |-> FromSystemTypeName(DeclaredType(Order[k]))]
      /\ \A k \in 1 .. Cardinality(Seen) : Exact(Order[k])
  BY <1>1, <1>2 DEF IInv, Answered
<1>4. Len(types) = Cardinality(Seen)
  BY <1>2, <1>3
<1>5. ASSUME NEW p \in 1 .. marker_count
      PROVE  types[p] = FromSystemTypeName(DeclaredType(p)) /\ Exact(p)
  BY <1>1, <1>2, <1>3, <1>4
<1>6. parameters.types = types
  BY <1>1 DEF Types
<1> QED
  BY <1>1, <1>5, <1>6

\* Types are reported only when the server sees every marker, and then the k-th
\* is the one it suggested for marker k (describe_statement).
THEOREM TypesAreTheirMarkers == Spec => []TypesMatchMarkers
<1>1. IInv => TypesMatchMarkers
  <2> SUFFICES ASSUME IInv, at = "done", parameters.tag = "types"
               PROVE  /\ Len(parameters.types) = marker_count
                      /\ \A p \in 1 .. marker_count :
                             statement.markers[p].suggested \in {Null, parameters.types[p].name}
    BY DEF TypesMatchMarkers
  <2>1. /\ Len(parameters.types) = marker_count
        /\ \A p \in 1 .. marker_count : parameters.types[p] = FromSystemTypeName(DeclaredType(p))
    BY ReportedTypes
  <2>2. ASSUME NEW p \in 1 .. marker_count
        PROVE  statement.markers[p].suggested \in {Null, parameters.types[p].name}
    <3> DEFINE name == DeclaredType(p)
    <3>1. parameters.types[p] = FromSystemTypeName(name)
      BY <2>1
    <3>2. statement.markers[p].suggested \in {Null, name}
      BY DEF DeclaredType
    <3> HIDE DEF name
    <3>3. parameters.types[p].name = name
      BY <3>1 DEF FromSystemTypeName, TypeInfo
    <3> QED
      BY <3>2, <3>3
  <2> QED
    BY <2>1, <2>2
<1> QED
  BY <1>1, AlwaysDescribed, PTL

\* A type that is reported has an owner in the build, and the macros take it
\* (has_exact_rust_mapping).
THEOREM OwnersAreReported == Spec => []ReportedTypesAreOwned
<1>1. IInv => ReportedTypesAreOwned
  <2> SUFFICES ASSUME IInv, at = "done", parameters.tag = "types", NEW p \in 1 .. marker_count
               PROVE  /\ Owner(parameters.types[p].name) # "none"
                      /\ Resolve(parameters.types[p], features) = Owner(parameters.types[p].name)
    BY DEF ReportedTypesAreOwned
  <2> DEFINE name == DeclaredType(p)
  <2>1. parameters.types[p] = FromSystemTypeName(name) /\ Exact(p)
    BY ReportedTypes
  <2>2. Modelled(name) /\ HasExactRustMapping(FromSystemTypeName(name), features)
    BY <2>1 DEF Exact
  <2> HIDE DEF name
  <2>3. name \in Owned /\ Owner(name) # "none"
    BY <2>2, ExactIsOwned
  <2>4. Resolve(FromSystemTypeName(name), features) = Owner(name)
    BY <2>3, OwnerTaken
  <2>5. parameters.types[p].name = name
    BY <2>1 DEF FromSystemTypeName, TypeInfo
  <2> QED
    BY <2>1, <2>3, <2>4, <2>5
<1> QED
  BY <1>1, AlwaysDescribed, PTL

\* However the server stores a column, the macros take the owner of its logical
\* type (describe_statement, impl_type_checking!).
THEOREM ColumnsHaveOwners == Spec => []ColumnsAreOwned
<1>1. IInv => ColumnsAreOwned
  <2> SUFFICES ASSUME IInv, at = "done", NEW k \in DOMAIN columns,
                      Modelled(columns[k].info.name),
                      columns[k].info.name \notin {"decimal", "numeric", "money", "smallmoney"}
               PROVE  Resolve(columns[k].info, features) = Owner(columns[k].info.name)
    BY DEF ColumnsAreOwned
  <2> DEFINE rows == statement.columns
  <2>1. PICK R : rows \in Seq(R)
    BY StatementTyped DEF IInv, TypeOK
  <2> DEFINE C == {Column(r, o) : r \in R, o \in Nat}
  <2>2. columns \in Seq(C)
    <3>1. columns = Columns(rows)
      BY DEF IInv
    <3>2. Columns(rows) \in Seq(C)
      BY <2>1, ColumnsShown
    <3> HIDE DEF rows, C
    <3> QED
      BY <3>1, <3>2
  <2>3. PICK row \in R, o \in Nat : columns[k] = Column(row, o)
    <3>1. columns[k] \in C
      <4> HIDE DEF C
      <4> QED
        BY <2>2
    <3> QED
      BY <3>1
  <2>4. columns[k].info = ColumnInfo(row)
    BY <2>3 DEF Column
  <2> DEFINE name == row.system_type_name
  <2>5. CASE Modelled(name)
    <3>1. ColumnInfo(row) = FromSystemTypeName(name) /\ ColumnInfo(row).name = name
      BY <2>5 DEF ColumnInfo, FromSystemTypeName, TypeInfo
    <3>2. name \in Owned
      BY <2>4, <3>1 DEF Owned, Modelled
    <3> QED
      BY <2>4, <3>1, <3>2, OwnerTaken
  <2>6. CASE ~Modelled(name)
    <3>1. ColumnInfo(row).name = IF name = Null THEN "unknown" ELSE name
      BY <2>6 DEF ColumnInfo, TypeInfo
    <3>2. ~Modelled("unknown")
      BY DEF Modelled, SystemTypes
    <3>3. ~Modelled(ColumnInfo(row).name)
      BY <2>6, <3>1, <3>2
    <3> QED
      BY <2>4, <3>3
  <2> QED
    BY <2>5, <2>6
<1> QED
  BY <1>1, AlwaysDescribed, PTL

\* The columns are those the statement returns, in their order and numbered
\* without gaps, and only what the server vouches for is not nullable
\* (describe_statement).
THEOREM OnlyVisibleColumns == Spec => []VisibleColumnsOnly
<1>1. IInv => VisibleColumnsOnly
  <2> SUFFICES ASSUME IInv, at = "done" PROVE VisibleColumnsOnly
    BY DEF VisibleColumnsOnly
  <2> DEFINE rows == statement.columns
             visible == {i \in DOMAIN rows : rows[i].is_hidden # "yes"}
  <2>1. PICK R : rows \in Seq(R) /\ Len(rows) \in Nat /\ DOMAIN rows = 1 .. Len(rows)
    BY StatementTyped DEF IInv, TypeOK
  <2>2. columns \in Seq({Column(r, o) : r \in R, o \in Nat}) /\ Shown(rows, columns, Len(rows))
    <3>1. columns = Columns(rows)
      BY DEF IInv
    <3>2. /\ Columns(rows) \in Seq({Column(r, o) : r \in R, o \in Nat})
          /\ Shown(rows, Columns(rows), Len(rows))
      BY <2>1, ColumnsShown
    <3> HIDE DEF rows
    <3> QED
      BY <3>1, <3>2
  <2>3. DOMAIN columns = 1 .. Len(columns) /\ Len(columns) \in Nat
    BY <2>2
  <2>4. visible = Visible(rows, Len(rows))
    BY <2>1 DEF Visible
  <2>5. \A i \in visible : {j \in visible : j < i} = Visible(rows, i - 1)
    BY <2>1 DEF Visible
  <2> HIDE DEF visible
  <2>6. ASSUME NEW i \in visible
        PROVE  \E k \in DOMAIN columns : columns[k].name = rows[i].name
    <3> DEFINE k == Cardinality(Visible(rows, i - 1)) + 1
    <3>1. k \in 1 .. Len(columns) /\ columns[k] = Column(rows[i], k - 1)
      BY <2>2, <2>4 DEF Shown
    <3> HIDE DEF k
    <3> QED
      BY <2>3, <3>1 DEF Column
  <2>7. ASSUME NEW k \in DOMAIN columns
        PROVE  \E i \in visible :
                   /\ columns[k].name = rows[i].name
                   /\ columns[k].ordinal = Cardinality({j \in visible : j < i})
                   /\ k = columns[k].ordinal + 1
                   /\ columns[k].nullable \/ rows[i].is_nullable = "no"
    <3>1. PICK i \in visible : k = Cardinality(Visible(rows, i - 1)) + 1
      BY <2>2, <2>3, <2>4 DEF Shown
    <3>2. columns[k] = Column(rows[i], k - 1)
      BY <2>2, <2>4, <3>1 DEF Shown
    <3>3. i \in 1 .. Len(rows)
      BY <2>1, <2>4 DEF Visible
    <3>4. Cardinality(Visible(rows, i - 1)) \in Nat
      BY <3>3, UpToIsFinite, i - 1 \in Nat DEF Visible
    <3>5. columns[k].ordinal = k - 1 /\ k - 1 = Cardinality({j \in visible : j < i})
      <4>1. columns[k].ordinal = k - 1
        BY <3>2 DEF Column
      <4>2. {j \in visible : j < i} = Visible(rows, i - 1)
        BY <2>5
      <4> DEFINE before == Cardinality(Visible(rows, i - 1))
      <4>3. before \in Nat /\ k = before + 1
        BY <3>1, <3>4
      <4> HIDE DEF before
      <4>4. k - 1 = before
        BY <4>3
      <4> QED
        BY <4>1, <4>2, <4>4 DEF before
    <3>6. columns[k].name = rows[i].name /\ columns[k].nullable = (rows[i].is_nullable # "no")
      BY <3>2 DEF Column
    <3>7. k = columns[k].ordinal + 1
      BY <3>1, <3>4, <3>5
    <3> QED
      BY <3>5, <3>6, <3>7
  <2>8. {columns[k].name : k \in DOMAIN columns} = {rows[i].name : i \in visible}
    <3>1. \A k \in DOMAIN columns : columns[k].name \in {rows[i].name : i \in visible}
      BY <2>7
    <3>2. \A i \in visible : rows[i].name \in {columns[k].name : k \in DOMAIN columns}
      BY <2>6
    <3> QED
      BY <3>1, <3>2
  <2> QED
    BY <2>7, <2>8 DEF VisibleColumnsOnly, visible
<1> QED
  BY <1>1, AlwaysDescribed, PTL

=============================================================================
