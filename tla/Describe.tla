------------------------------ MODULE Describe -------------------------------
(***************************************************************************)
(* describe_statement: two server procedures tell the query macros which   *)
(* parameters and columns a statement has.  The first, with                *)
(* infer_parameters, is called only when there are markers.  What either   *)
(* call does to the connection is a Collect of MssqlConnection.            *)
(*                                                                         *)
(* The server is external: it answers for the parameters it sees, in any   *)
(* order, with a suggested type or none; a marker rewritten where it is no *)
(* marker (ParamMarkers) is a parameter the server does not see.           *)
(***************************************************************************)
EXTENDS TypeInference, FiniteSets

CONSTANTS
    Statements, \* the statements described, as the server sees them
    Builds      \* the sets of features the driver is built with

ASSUME StatementsAssumption ==
    Statements \subseteq
        [markers : Seq([seen : BOOLEAN, suggested : STRING]),
         columns : Seq([name : STRING, is_hidden : STRING, is_nullable : STRING,
                        system_type_name : STRING, tds_type_id : STRING])]
ASSUME BuildsAssumption == Builds \subseteq SUBSET Features

\* What the server has no answer for: a NULL in a row.
Null == "null"

VARIABLES
    statement,      \* the statement: its rewritten markers and its columns
    features,       \* the features of this build
    at,             \* what describe_statement waits for
    declarations,   \* the @params it declares
    types,          \* the parameter types, if all of them are known exactly
    known,          \* whether they are
    columns,        \* DescribedStatement.columns
    parameters      \* DescribedStatement.parameters: types, or a count

given == <<statement, features>>
answer == <<columns, parameters>>
vars == <<given, at, declarations, types, known, answer>>

\* A marker: whether the server sees it, and the type it suggests.
marker_count == Len(statement.markers)
Seen == {p \in 1 .. marker_count : statement.markers[p].seen}

Types(list) == [tag |-> "types", types |-> list, count |-> 0]
Count(n) == [tag |-> "count", types |-> <<>>, count |-> n]

ModelledTypes == {FromSystemTypeName(name) : name \in DOMAIN SystemTypes}

TypeOK ==
    /\ statement \in Statements
    /\ features \in Builds
    /\ at \in {"infer", "describe", "done", "failed"}
    /\ \A k \in DOMAIN declarations :
           declarations[k].parameter \in Seen /\ declarations[k].type # Null
    /\ types \in Seq(ModelledTypes)
    /\ known \in BOOLEAN
    /\ \A k \in DOMAIN columns :
           columns[k].ordinal \in 0 .. Len(statement.columns) - 1 /\ columns[k].nullable \in BOOLEAN
    /\ parameters \in {Count(n) : n \in 0 .. marker_count} \cup {Types(types)}

Init ==
    /\ statement \in Statements
    /\ features \in Builds
    /\ at = IF marker_count > 0 THEN "infer" ELSE "describe"
    /\ declarations = <<>>
    /\ types = <<>>
    /\ known = TRUE
    /\ columns = <<>>
    /\ parameters = Count(0)

-----------------------------------------------------------------------------
(* infer_parameters *)

\* A slip: the NULL goes into the declaration.
SlipNoDefault(p) == statement.markers[p].suggested

\* A parameter whose type the server cannot tell is declared as text.
DeclaredType(p) ==
    IF statement.markers[p].suggested = Null THEN "nvarchar" ELSE statement.markers[p].suggested

\* A slip: rows are taken to arrive in order.
SlipAsArrived(rows) == rows

\* The rows, one for each parameter, by ordinal.
ByOrdinal(rows) ==
    CHOOSE s \in SetToSeqs(Range(rows)) : \A j, k \in DOMAIN s : j < k => s[j] < s[k]

\* A type is of use to the macros only when it is known and has one Rust type.
Exact(p) ==
    /\ Modelled(DeclaredType(p))
    /\ HasExactRustMapping(FromSystemTypeName(DeclaredType(p)), features)

InferParameters ==
    /\ at = "infer"
    /\ \E rows \in SetToSeqs(Seen) :
           LET inferred == ByOrdinal(rows)
           IN  /\ declarations' = [k \in DOMAIN inferred |->
                      [parameter |-> inferred[k], type |-> DeclaredType(inferred[k])]]
               /\ known' = (\A k \in DOMAIN inferred : Exact(inferred[k]))
               /\ types' = IF known' THEN [k \in DOMAIN inferred |->
                                               FromSystemTypeName(DeclaredType(inferred[k]))]
                           ELSE <<>>
    /\ at' = "describe"
    /\ UNCHANGED <<given, answer>>

-----------------------------------------------------------------------------
(* describe_statement, after its second call. *)

\* A slip: the type is the one the row's storage has.
SlipStorageType(row) == TypeInfo(row.system_type_name, row.tds_type_id)

\* The logical type when the driver models it, or else the storage type.
ColumnInfo(row) ==
    IF Modelled(row.system_type_name)
    THEN FromSystemTypeName(row.system_type_name)
    ELSE TypeInfo(IF row.system_type_name = Null THEN "unknown" ELSE row.system_type_name,
                  row.tds_type_id)

Column(row, ordinal) ==
    [ordinal |-> ordinal, name |-> row.name, info |-> ColumnInfo(row),
     nullable |-> row.is_nullable # "no"]

\* A slip: ordinals count the hidden columns too.
SlipHiddenCounted(rows) ==
    SelectSeq([k \in DOMAIN rows |-> Column(rows[k], k - 1)],
              LAMBDA c : rows[c.ordinal + 1].is_hidden # "yes")

\* Columns the statement does not return are dropped; one that may be NULL for
\* all the server says is nullable.
Columns(rows) ==
    LET upto[n \in 0 .. Len(rows)] ==
            IF n = 0 THEN <<>>
            ELSE IF rows[n].is_hidden = "yes" THEN upto[n - 1]
            ELSE Append(upto[n - 1], Column(rows[n], Len(upto[n - 1])))
    IN  upto[Len(rows)]

\* A slip: the types are reported though some marker has none.
SlipNotCounted == IF known THEN Types(types) ELSE Count(marker_count)

\* Types for every marker, or only their number.
Parameters ==
    IF known /\ Len(types) = marker_count THEN Types(types) ELSE Count(marker_count)

DescribeStatement ==
    /\ at = "describe"
    /\ columns' = Columns(statement.columns)
    /\ parameters' = Parameters
    /\ at' = "done"
    /\ UNCHANGED <<given, declarations, types, known>>

\* collect_rows fails: the statement is not valid, or the connection is lost.
Fails ==
    /\ at \in {"infer", "describe"}
    /\ at' = "failed"
    /\ UNCHANGED <<given, declarations, types, known, answer>>

Next == InferParameters \/ DescribeStatement \/ Fails

Spec == Init /\ [][Next]_vars

-----------------------------------------------------------------------------
(* Which Rust type the documentation gives to a SQL type, under the         *)
(* features: "none" when it has none.                                       *)

Width ==
    [tinyint |-> "i8", smallint |-> "i16", int |-> "i32", bigint |-> "i64",
     real |-> "f32", float |-> "f64", bit |-> "bool"]

Owner(name) ==
    CASE name \in DOMAIN Width -> Width[name]
      [] name \in {"char", "varchar", "nchar", "nvarchar", "text", "ntext", "xml", "json"} ->
            "string"
      [] name \in {"binary", "varbinary", "image"} -> "bytes"
      [] name \in {"geometry", "geography"} /\ "spatial" \in features -> name
      [] name = "uniqueidentifier" /\ "uuid" \in features -> "uuid"
      [] name \in {"date", "time"} /\ features \cap {"jiff", "chrono", "time"} # {} -> name
      [] name \in {"datetime2", "datetime", "smalldatetime"}
            /\ features \cap {"jiff", "chrono", "time"} # {} -> "datetime"
      [] name = "datetimeoffset" /\ features \cap {"jiff", "chrono", "time"} # {} -> "timestamp"
      [] OTHER -> "none"

-----------------------------------------------------------------------------
(* Properties. *)

\* The server is told of every parameter it sees, each once and in the order of
\* their numbers, whatever the order of its answers (infer_parameters).
DeclaredInOrder ==
    at \in {"describe", "done"} =>
        /\ Len(declarations) = Cardinality(Seen)
        /\ \A j, k \in DOMAIN declarations :
               j < k => declarations[j].parameter < declarations[k].parameter

\* When types are reported there is one for each marker, and it is the one the
\* server suggested for that marker, if it suggested any: a binding is never
\* checked against the type of another marker (describe_statement).
TypesMatchMarkers ==
    (at = "done" /\ parameters.tag = "types") =>
        /\ Len(parameters.types) = marker_count
        /\ \A p \in 1 .. marker_count :
               statement.markers[p].suggested \in {Null, parameters.types[p].name}

\* A reported type makes the macros ask for the Rust type that owns it: one that
\* a permissive `compatible` of another type would claim is never reported
\* (has_exact_rust_mapping).
ReportedTypesAreOwned ==
    (at = "done" /\ parameters.tag = "types") =>
        \A p \in 1 .. marker_count :
            LET info == parameters.types[p]
            IN  Owner(info.name) # "none" /\ Resolve(info, features) = Owner(info.name)

\* A column is read as the Rust type that owns its logical type, however the
\* server stores it; the exact numerics, which have no type of their own in the
\* main list, are the exception (describe_statement, impl_type_checking!).
ColumnsAreOwned ==
    at = "done" =>
        \A k \in DOMAIN columns :
            LET name == columns[k].info.name
            IN  (Modelled(name) /\ name \notin {"decimal", "numeric", "money", "smallmoney"}) =>
                    Resolve(columns[k].info, features) = Owner(name)

\* The columns are the visible ones in their order, numbered without gaps, and
\* only those the server vouches for are read without Option.
VisibleColumnsOnly ==
    at = "done" =>
        LET rows == statement.columns
            visible == {i \in DOMAIN rows : rows[i].is_hidden # "yes"}
        IN  /\ {columns[k].name : k \in DOMAIN columns} = {rows[i].name : i \in visible}
            /\ \A k \in DOMAIN columns :
                   \E i \in visible :
                       /\ columns[k].name = rows[i].name
                       /\ columns[k].ordinal = Cardinality({j \in visible : j < i})
                       /\ k = columns[k].ordinal + 1
                       /\ columns[k].nullable \/ rows[i].is_nullable = "no"

=============================================================================
