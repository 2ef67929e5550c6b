---------------------------- MODULE TypeInference ----------------------------
(***************************************************************************)
(* What the driver knows of a SQL Server type, and which Rust type the     *)
(* query macros take for it.  Lengths, precisions and scales are left out: *)
(* no decision looks at them.                                              *)
(***************************************************************************)
EXTENDS Naturals, Sequences, SequencesExt

Features == {"spatial", "uuid", "jiff", "chrono", "time", "bigdecimal", "rust_decimal"}

\* MssqlTypeInfo: the name and the TDS identifier.
TypeInfo(name, tds) == [name |-> name, tds |-> tds]

\* from_system_type_name: the types it models.
SystemTypes ==
    [tinyint |-> "Int1", smallint |-> "Int2", int |-> "Int4", bigint |-> "Int8",
     bit |-> "Bit", real |-> "Flt4", float |-> "Flt8", uniqueidentifier |-> "Guid",
     date |-> "DateN", time |-> "TimeN", datetime2 |-> "DateTime2N",
     datetimeoffset |-> "DateTimeOffsetN", datetime |-> "DateTime",
     smalldatetime |-> "DateTim4", money |-> "Money", smallmoney |-> "Money4",
     decimal |-> "DecimalN", numeric |-> "DecimalN",
     char |-> "BigChar", varchar |-> "BigVarChar", nchar |-> "NChar",
     nvarchar |-> "NVarChar", text |-> "Text", ntext |-> "NText", xml |-> "Xml",
     json |-> "Json", binary |-> "BigBinary", varbinary |-> "BigVarBinary",
     image |-> "Image", geometry |-> "Udt", geography |-> "Udt"]

Modelled(name) == name \in DOMAIN SystemTypes
FromSystemTypeName(name) == TypeInfo(name, SystemTypes[name])

\* How the server stores a nullable column of a type, where that differs.
NullableStorage ==
    [tinyint |-> "IntN", smallint |-> "IntN", int |-> "IntN", bigint |-> "IntN",
     real |-> "FltN", float |-> "FltN", bit |-> "BitN", money |-> "MoneyN",
     smallmoney |-> "MoneyN", datetime |-> "DateTimeN", smalldatetime |-> "DateTimeN"]
StoredAs(name, nullable) ==
    IF nullable /\ name \in DOMAIN NullableStorage THEN NullableStorage[name]
    ELSE SystemTypes[name]

\* Two descriptions name one type; only UDTs are told apart by their names.
SameType(a, b) == a.tds = b.tds /\ (a.tds = "Udt" => a.name = b.name)

-----------------------------------------------------------------------------
(* The accepts_ predicates, as sets of TDS types. *)

Character ==
    {"BigChar", "BigVarChar", "Char", "VarChar", "Text", "NChar", "NVarChar", "NText",
     "Xml", "Json"}
Binary == {"BigBinary", "BigVarBinary", "Binary", "VarBinary", "Image", "Vector"}
Numeric ==
    {"Int1", "Int2", "Int4", "Int8", "IntN", "Decimal", "DecimalN", "Numeric", "NumericN",
     "Money", "Money4", "MoneyN", "Flt4", "Flt8", "FltN"}
NaiveDateTime == {"DateTime2N", "DateTime", "DateTim4", "DateTimeN"}
DateTimeData == {"DateN", "TimeN", "DateTimeOffsetN"} \cup NaiveDateTime

IsUdt(info, name) == info.tds = "Udt" /\ info.name = name

-----------------------------------------------------------------------------
(* The Rust types: a kind, and the crate it comes from.  Type::type_info    *)
(* and Type::compatible are the same for a kind in all crates.              *)

\* The SQL type a kind is encoded as.
OwnType ==
    [bool |-> "bit", i8 |-> "tinyint", i16 |-> "smallint", i32 |-> "int", i64 |-> "bigint",
     u8 |-> "tinyint", u16 |-> "smallint", u32 |-> "int", u64 |-> "bigint",
     json |-> "json", f32 |-> "real", f64 |-> "float", string |-> "nvarchar", bytes |-> "varbinary",
     geometry |-> "geometry", geography |-> "geography", wkb |-> "varbinary",
     uuid |-> "uniqueidentifier", date |-> "date", time |-> "time",
     datetime |-> "datetime2", timestamp |-> "datetimeoffset", decimal |-> "decimal"]

Compatible(kind, info) ==
    CASE kind = "bool"                 -> info.tds \in {"Bit", "BitN"}
      [] kind \in {"i8", "i16", "i32", "i64", "u8", "u16", "u32", "u64", "f32", "f64"} ->
            info.tds \in Numeric
      [] kind = "decimal"              -> info.tds \in Numeric \cup Character
      [] kind = "string"               -> info.tds \in Character
      [] kind = "json"                 -> info.tds \in Character \cup Binary
      [] kind \in {"bytes", "wkb"}     -> info.tds \in Binary
      [] kind \in {"geometry", "geography"} -> IsUdt(info, kind)
      [] kind = "uuid"                 -> info.tds = "Guid"
      [] kind = "date"                 -> info.tds = "DateN"
      [] kind = "time"                 -> info.tds = "TimeN"
      [] kind = "datetime"             -> info.tds \in NaiveDateTime
      [] kind = "timestamp"            -> info.tds \in NaiveDateTime \cup {"DateTimeOffsetN"}

\* The entries of impl_type_checking!, in order: its main list and its sections.
From(crate, kinds) == [i \in DOMAIN kinds |-> [crate |-> crate, kind |-> kinds[i]]]
Gated(feature, features, kinds) ==
    IF feature \in features THEN From(feature, kinds) ELSE <<>>

Temporal == <<"date", "time", "datetime", "timestamp">>

MainList(features) ==
    From("std", <<"bool", "i8", "i16", "i32", "i64", "f32", "f64", "string", "bytes">>)
        \o Gated("spatial", features, <<"geometry", "geography", "wkb">>)
        \o Gated("uuid", features, <<"uuid">>)
        \o Gated("jiff", features, Temporal)

Lists(features) ==
    <<MainList(features),
      Gated("time", features, Temporal), Gated("chrono", features, Temporal),
      Gated("bigdecimal", features, <<"decimal">>),
      Gated("rust_decimal", features, <<"decimal">>)>>

\* The place in a list of the type that is exactly info, or else of the first
\* one compatible with it, or else 0.
Match(list, info) ==
    LET exact == SelectInSeq(list, LAMBDA e :
                     SameType(FromSystemTypeName(OwnType[e.kind]), info))
    IN  IF exact # 0 THEN exact
        ELSE SelectInSeq(list, LAMBDA e : Compatible(e.kind, info))

\* The kind the macros take: from the first list that has one.
Resolve(info, features) ==
    LET lists == Lists(features)
        hit == SelectInSeq(lists, LAMBDA list : Match(list, info) # 0)
    IN  IF hit = 0 THEN "none" ELSE lists[hit][Match(lists[hit], info)].kind

\* A slip: any type some Rust type accepts.
SlipAnyNumber(info, features) == Resolve(info, features) # "none"

\* has_exact_rust_mapping
HasExactRustMapping(info, features) ==
    \/ /\ IsUdt(info, "geometry") \/ IsUdt(info, "geography")
       /\ "spatial" \in features
    \/ info.tds \in Character \cup Binary
    \/ /\ info.tds \in DateTimeData
       /\ features \cap {"chrono", "time", "jiff"} # {}
    \/ info.tds = "Guid" /\ "uuid" \in features
    \/ info.tds \in {"Int1", "Int2", "Int4", "Int8", "Flt4", "Flt8", "Bit"}

=============================================================================
