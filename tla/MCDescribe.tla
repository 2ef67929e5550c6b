----------------------------- MODULE MCDescribe ------------------------------
(* Instances of Describe for TLC. *)
EXTENDS Describe, TLC

\* Types the driver does not model, with their storage.
Foreign == [hierarchyid |-> "Udt", sql_variant |-> "SsVariant", timestamp |-> "BigBinary"]

Marker(seen, suggested) == [seen |-> seen, suggested |-> suggested]
Suggestions == DOMAIN SystemTypes \cup DOMAIN Foreign \cup {Null}

\* One marker of every type; two, of the types that differ in how they are
\* mapped; three, in every order of answers.
Mapped == {"tinyint", "decimal", "nvarchar", "datetime", "uniqueidentifier", "geometry", Null}
MarkerLists ==
    {<<>>} \cup {<<Marker(s, n)>> : s \in BOOLEAN, n \in Suggestions}
           \cup {<<Marker(s, m), Marker(t, n)>> : s, t \in BOOLEAN, m, n \in Mapped}
           \cup {<<Marker(TRUE, m), Marker(s, "bit"), Marker(TRUE, n)>> :
                     s \in BOOLEAN, m, n \in {"int", "decimal", Null}}

\* By itself, or for a nullable column by the variable form.
Stored ==
    {<<n, SystemTypes[n]>> : n \in DOMAIN SystemTypes}
        \cup {<<n, Foreign[n]>> : n \in DOMAIN Foreign} \cup {<<Null, "Udt">>}
        \cup {<<n, NullableStorage[n]>> : n \in DOMAIN NullableStorage}

Row(name, hidden, nullable, type) ==
    [name |-> name, is_hidden |-> hidden, is_nullable |-> nullable,
     system_type_name |-> type[1], tds_type_id |-> type[2]]
Answers == {"yes", "no", Null}
IntColumn(name, hidden, nullable) == Row(name, hidden, nullable, <<"int", "IntN">>)

ColumnLists ==
    {<<>>} \cup {<<Row("a", "no", Null, s)>> : s \in Stored}
           \cup {<<IntColumn("a", h, m), IntColumn("b", i, n)>> : h, i, m, n \in Answers}
           \cup {<<IntColumn("a", h, "no"), IntColumn("b", i, "no"), IntColumn("c", j, "no")>> :
                     h, i, j \in Answers}

EveryStatement ==
    {[markers |-> m, columns |-> <<>>] : m \in MarkerLists}
        \cup {[markers |-> <<>>, columns |-> c] : c \in ColumnLists}
        \cup {[markers |-> <<Marker(TRUE, "int")>>, columns |-> c] : c \in ColumnLists}

\* Each feature that decides alone, none and all, and all but the one that takes
\* precedence.
EveryBuild ==
    {{}, Features, Features \ {"jiff"}}
        \cup {{f} : f \in {"spatial", "uuid", "jiff", "chrono", "time"}}

=============================================================================
