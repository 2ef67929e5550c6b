------------------------------ MODULE RoundTrip ------------------------------
(***************************************************************************)
(* A value on its way through the server: bound as an argument, stored in  *)
(* a column of the type it is described as, fetched and decoded, by its    *)
(* own type or by another one, with or without the check of try_get, or by *)
(* the Any driver.  Rows that others wrote are fetched too.                *)
(*                                                                         *)
(* The server is external: it converts an argument to the column's type or *)
(* fails the statement.                                                    *)
(***************************************************************************)
EXTENDS ValueCodec, SpatialCodec

CONSTANTS
    Writes, \* what a program binds: [type, value], the value an Option
    Rows    \* what others have stored: [column, cell]

RustType(crate, kind) == [crate |-> crate, kind |-> kind]
Crates == {"chrono", "time", "jiff"}
Moments == {"date", "time", "datetime", "timestamp"}
RustTypes ==
    {RustType("std", k) : k \in Integer \cup {"bool", "f32", "f64", "string", "bytes"}}
        \cup {RustType("spatial", k) : k \in {"geometry", "geography", "wkb"}}
        \cup {RustType("sqlx", k) : k \in {"uuid", "json"}}
        \cup {RustType(c, "decimal") : c \in {"bigdecimal", "rust_decimal"}}
        \cup {RustType(c, k) : c \in Crates, k \in Moments}

Foreign == [type |-> RustType("none", "none"), value |-> None]

VARIABLES
    at,       \* "bind", "execute", "fetch", "done", or "refused"
    written,  \* the type and the value the program binds, or Foreign
    argument, \* the MssqlArgumentValue, or None
    row,      \* the column's type info and the cell
    reader,   \* the type it is read as, and how
    result    \* what the program gets: [outcome, value]

vars == <<at, written, argument, row, reader, result>>

-----------------------------------------------------------------------------
(* Encode and Decode, for every type. *)

EncodeMoment(type, value) ==
    CASE type = RustType("chrono", "date")      -> ChronoBindDate(value)
      [] type = RustType("chrono", "time")      -> ChronoBindTime(value)
      [] type = RustType("chrono", "datetime")  -> ChronoBindDateTime(value)
      [] type = RustType("chrono", "timestamp") -> ChronoBindTimestamp(value)
      [] type = RustType("time", "date")        -> TimeBindDate(value)
      [] type = RustType("time", "time")        -> TimeBindTime(value)
      [] type = RustType("time", "datetime")    -> TimeBindDateTime(value)
      [] type = RustType("time", "timestamp")   -> TimeBindTimestamp(value)
      [] type = RustType("jiff", "date")        -> JiffBindDate(value)
      [] type = RustType("jiff", "time")        -> JiffBindTime(value)
      [] type = RustType("jiff", "datetime")    -> JiffBindDateTime(value)
      [] type = RustType("jiff", "timestamp")   -> JiffBindTimestamp(value)

DecodeMoment(type, cell) ==
    CASE type = RustType("chrono", "date")      -> ChronoReadDate(cell)
      [] type = RustType("chrono", "time")      -> ChronoReadTime(cell)
      [] type = RustType("chrono", "datetime")  -> ChronoReadDateTime(cell)
      [] type = RustType("chrono", "timestamp") -> ChronoReadTimestamp(cell)
      [] type = RustType("time", "date")        -> TimeReadDate(cell)
      [] type = RustType("time", "time")        -> TimeReadTime(cell)
      [] type = RustType("time", "datetime")    -> TimeReadDateTime(cell)
      [] type = RustType("time", "timestamp")   -> TimeReadTimestamp(cell)
      [] type = RustType("jiff", "date")        -> JiffReadDate(cell)
      [] type = RustType("jiff", "time")        -> JiffReadTime(cell)
      [] type = RustType("jiff", "datetime")    -> JiffReadDateTime(cell)
      [] type = RustType("jiff", "timestamp")   -> JiffReadTimestamp(cell)

\* MssqlGeometry and MssqlGeography read a column of their own UDT only, WKB
\* reads any other column.
DecodeShape(kind, column, cell) ==
    LET bytes == AsBytes(cell)
    IN  IF bytes = None THEN None
        ELSE IF kind = "wkb"
             THEN IF column.tds # "Udt" /\ bytes[1][1] = "wkb" THEN Some(bytes[1][2]) ELSE None
        ELSE IF IsUdt(column, kind) /\ bytes[1][1] = "spatial" THEN DecodePayload(bytes[1][2])
        ELSE None

Encode(type, value) ==
    CASE type.kind \in Moments -> EncodeMoment(type, value)
      [] type.kind \in {"geometry", "geography"} ->
            Some(<<"varbinary", <<"spatial", EncodePayload(value[1], value[2])>>>>)
      [] type.kind = "wkb" -> Some(<<"varbinary", <<"wkb", value>>>>)
      [] type.kind = "decimal" -> EncodeDecimal(type.crate, value)
      [] OTHER -> EncodeValue(type.kind, value)

Decode(type, column, cell) ==
    CASE type.kind \in Moments -> DecodeMoment(type, cell)
      [] type.kind \in {"geometry", "geography", "wkb"} -> DecodeShape(type.kind, column, cell)
      [] type.kind = "decimal" -> DecodeDecimal(type.crate, cell)
      [] OTHER -> DecodeValue(type.kind, cell)

-----------------------------------------------------------------------------
(* The server. *)

SqlIntegers ==
    [tinyint |-> UpTo(Width[8]), smallint |-> Signed(Width[16]), int |-> Signed(Width[32]),
     bigint |-> Signed(Width[64])]

TicksPerDay == SecondsPerDay * (NanosPerSecond \div NanosPerTick)

\* What SQL Server converts without being asked: within a family, from text to
\* anything but bytes, and from bytes to its CLR types.
Family(name) ==
    CASE SystemTypes[name] \in Numeric \cup {"Bit"} -> "number"
      [] SystemTypes[name] \in Character            -> "text"
      [] SystemTypes[name] \in Binary               -> "bytes"
      [] OTHER                                      -> name
Converts(from, to) ==
    \/ Family(from) = Family(to)
    \/ Family(from) = "text" /\ Family(to) # "bytes"
    \/ Family(from) = "bytes" /\ SystemTypes[to] = "Udt"

\* A geometry of one point, or of one segment, comes back in its short form.
ServerForm(payload) ==
    LET tables == payload.tables
        Short(property) ==
            [payload EXCEPT !.properties = {property},
                            !.tables = [NoTables EXCEPT !.points = tables.points]]
        alone == Len(tables.shapes) = 1
    IN  IF alone /\ tables.shapes[1].type = "point" THEN Short("single_point")
        ELSE IF alone /\ tables.shapes[1].type = "linestring" /\ Len(tables.points) = 2
             THEN Short("single_line")
        ELSE payload

Only(cell, accepted) == IF accepted THEN {cell} ELSE {}

\* The cells a statement may store for an argument, none if it fails.
Stores(name, type, x) ==
    CASE type = "null"   -> Only(<<"null">>, Converts(x, name))
      [] type = "bigint" -> Only(<<name, x>>, x \div One \in SqlIntegers[name])
      [] type = "nvarchar" /\ name = "nvarchar" -> {<<"string", x>>}
      [] type = "nvarchar" /\ name = "json"     -> Only(<<"json", x>>, IsJson(x))
      [] type = "nvarchar" /\ name = "decimal"  ->
            {<<"decimal", x[2], point>> : point \in {p \in BOOLEAN : x[1] = "number" /\ (x[3] => p)}}
      [] type = "varbinary" /\ name = "varbinary" -> {<<"bytes", x>>}
      [] type = "varbinary" /\ name # "varbinary" ->
            {<<"bytes", <<"spatial", ServerForm(x[2])>>>>}
      [] type = "uniqueidentifier" -> {<<"uuid", x>>}
      [] type \in {"bit", "real", "float"} -> {<<type, x>>}

StoresMoment(cell) ==
    Only(cell, /\ cell[1] # "time" => cell[2] \in 0 .. MaxDay
               /\ cell[1] = "time" => cell[2] < TicksPerDay
               /\ cell[1] \in {"datetime2", "datetimeoffset"} => cell[3] < TicksPerDay)

-----------------------------------------------------------------------------
(* The values a program can bind and the cells a column can hold.            *)

\* A number without a decimal point is whole.
Text ==
    {t \in {"number"} \X Int \X BOOLEAN : ~t[3] => t[2] % One = 0}
        \cup ({"exponent"} \X Int) \cup ({"word"} \X STRING)
Blob == ({"utf8"} \X Text) \cup ({"raw"} \X Nat) \cup ({"wkb"} \X Geometries)
Payloads ==
    [srid : Int, version : Nat, properties : SUBSET {"single_point", "single_line", "z", "m"},
     truncated : BOOLEAN, tables : Tables]
Float(bits) == {q \in Int : Rounded(q, bits) = q}

\* What a Decimal of rust_decimal holds as it is.
Held(quarters) ==
    \E place \in {Half, One} : quarters % place = 0 /\ FitsDecimal(Abs(quarters), place)

Leap(year) == year % 4 = 0 /\ (year % 100 # 0 \/ year % 400 = 0)
DaysIn(year, month) ==
    IF month = 2 THEN IF Leap(year) THEN 29 ELSE 28
    ELSE IF month \in {4, 6, 9, 11} THEN 30 ELSE 31
CivilDate ==
    {d \in [year : Int, month : 1 .. 12, day : 1 .. 31] : d.day <= DaysIn(d.year, d.month)}
ClockTime == [hour : 0 .. 23, minute : 0 .. 59, second : 0 .. 59, nano : 0 .. NanosPerSecond - 1]
LeapTime == [second : 0 .. SecondsPerDay - 1, nano : 0 .. 2 * NanosPerSecond - 1]

Values(type) ==
    LET date == IF type.crate = "jiff" THEN {d \in CivilDate : d.year <= 9999} ELSE Int
        time == IF type.crate = "chrono" THEN LeapTime ELSE ClockTime
    IN  CASE type.kind \in Integer -> IntegerRange[type.kind]
          [] type.kind = "bool"     -> BOOLEAN
          [] type.kind = "f32"      -> Float(Mantissa[32])
          [] type.kind = "f64"      -> Float(Mantissa[64])
          [] type.kind = "decimal"  ->
                IF type.crate = "bigdecimal" THEN Int ELSE {q \in Int : Held(q)}
          [] type.kind = "string"   -> Text
          [] type.kind = "json"     -> {t \in Text : IsJson(t)}
          [] type.kind = "bytes"    -> Blob
          [] type.kind = "uuid"     -> STRING
          [] type.kind = "wkb"      -> Geometries
          [] type.kind \in {"geometry", "geography"} -> Int \X Geometries
          [] type.kind = "date"     -> date
          [] type.kind = "time"     -> time
          [] type = RustType("time", "timestamp") -> [date : date, time : time, offset : Int]
          [] type = RustType("jiff", "timestamp") ->
                {m \in [date : date, time : time] :
                    JiffDaysFromDate(m.date) = None \/ TimestampRange(m)}
          [] OTHER                  -> [date : date, time : time]

IntegerCells(name) == {q \in Int : q % One = 0 /\ q \div One \in SqlIntegers[name]}
\* Integers, scaled: fewer places than a Decimal keeps.
MoneyCells(name) == {Half * n : n \in Signed(Width[IF name = "money" THEN 64 ELSE 32])}
DecimalCells == {c \in {"decimal"} \X Int \X BOOLEAN : ~c[3] => c[2] % One = 0}
DateTimeDays == -53690 .. MaxDay - Epoch1900
DateTimeTicks == 0 .. 300 * SecondsPerDay - 1
SmallDateTimeDays == 0 .. 65535
Minutes == 0 .. 24 * 60 - 1
Cells(name) ==
    CASE name \in DOMAIN SqlIntegers -> {name} \X IntegerCells(name)
      [] name = "bit" -> {name} \X {0, One}
      [] name = "real" -> {name} \X Float(Mantissa[32])
      [] name = "float" -> {name} \X Float(Mantissa[64])
      [] name \in {"money", "smallmoney"} -> {name} \X MoneyCells(name)
      [] name \in {"decimal", "numeric"} -> DecimalCells
      [] name \in {"nvarchar", "varchar", "nchar", "char", "text", "ntext"} -> {"string"} \X Text
      [] name \in {"xml", "json"} -> {name} \X Text
      [] name \in {"binary", "varbinary", "image"} -> {"bytes"} \X Blob
      [] name = "uniqueidentifier" -> {"uuid"} \X STRING
      [] name \in {"geometry", "geography"} -> {"bytes"} \X ({"spatial"} \X Payloads)
      [] name = "date" -> {name} \X (0 .. MaxDay)
      [] name = "time" -> {name} \X (0 .. TicksPerDay - 1)
      [] name = "datetime2" -> {name} \X (0 .. MaxDay) \X (0 .. TicksPerDay - 1)
      [] name = "datetimeoffset" ->
            {name} \X (0 .. MaxDay) \X (0 .. TicksPerDay - 1) \X (-840 .. 840)
      [] name = "datetime" -> {name} \X DateTimeDays \X DateTimeTicks
      [] name = "smalldatetime" -> {name} \X SmallDateTimeDays \X Minutes

ASSUME WritesAssumption ==
    \A w \in Writes :
        w.type \in RustTypes /\ w.value \in Seq(Values(w.type)) /\ Len(w.value) <= 1

\* A type that from_system_type_name does not have, and whose cells are neither
\* text nor bytes to the driver.
VectorColumn == TypeInfo("vector", "Vector")
VectorCell == <<"vector">>

ASSUME RowsAssumption ==
    \A r \in Rows :
        \/ \E name \in DOMAIN SystemTypes, nullable \in BOOLEAN :
               /\ r.column = TypeInfo(name, StoredAs(name, nullable))
               /\ r.cell \in Cells(name) \cup {<<"null">>}
        \/ r.column = VectorColumn /\ r.cell \in {VectorCell, <<"null">>}

-----------------------------------------------------------------------------
NoRow == [column |-> TypeInfo("none", "none"), cell |-> <<"none">>]
NoReader == [type |-> RustType("std", "none"), how |-> "none"]
Outcome(name, value) == [outcome |-> name, value |-> value]
Decoded(value) == Outcome(IF value = None THEN "error" ELSE "value", value)
IsNull(cell) == cell[1] = "null"

Init ==
    /\ \/ at = "bind" /\ written \in Writes /\ row = NoRow
       \/ at = "fetch" /\ written = Foreign /\ row \in Rows
    /\ argument = None
    /\ reader = NoReader
    /\ result = Outcome("none", None)

\* Arguments::add.  A value that is None is bound as a typed NULL.
Bound(write) ==
    IF write.value = None THEN Some(NullLike(OwnType[write.type.kind]))
    ELSE Encode(write.type, write.value[1])

\* A slip: the error of encode is not looked at.
SlipUnbound ==
    /\ at = "bind"
    /\ argument' = IF written.value = None THEN None ELSE Encode(written.type, written.value[1])
    /\ at' = "execute"
    /\ UNCHANGED <<written, row, reader, result>>

Bind ==
    /\ at = "bind"
    /\ argument' = Bound(written)
    /\ at' = IF argument' = None THEN "refused" ELSE "execute"
    /\ UNCHANGED <<written, row, reader, result>>

\* INSERT into a column of the type the value is described as.
Inserted(write, x) ==
    IF write.value # None /\ write.type.kind \in Moments THEN StoresMoment(x)
    ELSE Stores(OwnType[write.type.kind], x[1], x[2])

Execute(nullable) ==
    LET name == OwnType[written.type.kind]
        cells == Inserted(written, argument[1])
    IN  /\ at = "execute"
        /\ IF cells = {} THEN at' = "refused" /\ UNCHANGED row
           ELSE /\ at' = "fetch"
                /\ \E cell \in cells :
                      row' = [column |-> TypeInfo(name, StoredAs(name, nullable)), cell |-> cell]
        /\ UNCHANGED <<written, argument, reader, result>>

\* try_get checks the type unless the value is NULL; try_get_unchecked does not.
Got(type, how, column, cell) ==
    IF IsNull(cell) THEN Outcome("null", None)
    ELSE IF how = "checked" /\ ~Compatible(type.kind, column) THEN Outcome("mismatch", None)
    ELSE Decoded(Decode(type, column, cell))

Get(type, how) ==
    /\ at = "fetch"
    /\ at' = "done"
    /\ reader' = [type |-> type, how |-> how]
    /\ result' = Got(type, how, row.column, row.cell)
    /\ UNCHANGED <<written, argument, row>>

\* The Any driver reads what it takes the column for.
GetAny ==
    LET type == RustType("std", AnyKind(row.column.tds))
    IN  /\ at = "fetch"
        /\ at' = "done"
        /\ reader' = [type |-> type, how |-> "any"]
        /\ result' = Got(type, "any", row.column, row.cell)
        /\ UNCHANGED <<written, argument, row>>

Next ==
    \/ Bind
    \/ \E nullable \in BOOLEAN : Execute(nullable)
    \/ \E type \in RustTypes, how \in {"checked", "unchecked"} : Get(type, how)
    \/ GetAny

Spec == Init /\ [][Next]_vars

-----------------------------------------------------------------------------
(* What values and cells stand for, said without the conversions. *)

\* Days since 0001-01-01, by the rule of the leap years.
CalendarDay(date) ==
    LET y == date.year - 1
        before == <<0, 31, 59, 90, 120, 151, 181, 212, 243, 273, 304, 334>>
    IN  365 * y + y \div 4 - y \div 100 + y \div 400 + before[date.month] + date.day - 1
            + (IF Leap(date.year) /\ date.month > 2 THEN 1 ELSE 0)

NanosOfDay(crate, time) ==
    IF crate = "chrono" THEN time.second * NanosPerSecond + time.nano
    ELSE ((time.hour * 60 + time.minute) * 60 + time.second) * NanosPerSecond + time.nano
DayOf(crate, date) == IF crate = "jiff" THEN CalendarDay(date) ELSE date

\* The day and the nanosecond of it, in UTC where the value has an offset.
MomentOf(type, value) ==
    LET day == DayOf(type.crate, value.date)
        nanos == NanosOfDay(type.crate, value.time)
        utc == nanos - value.offset * 60 * NanosPerSecond
        all == SecondsPerDay * NanosPerSecond
    IN  CASE type.kind = "date" -> <<DayOf(type.crate, value), 0>>
          [] type.kind = "time" -> <<0, NanosOfDay(type.crate, value)>>
          [] type = RustType("time", "timestamp") -> <<day + utc \div all, utc % all>>
          [] OTHER -> <<day, nanos>>

\* SQL Server sends a datetimeoffset in UTC, its offset beside it.
MomentIn(cell) ==
    CASE cell[1] = "date"          -> <<cell[2], 0>>
      [] cell[1] = "time"          -> <<0, TicksToNanos(cell[2])>>
      [] cell[1] = "smalldatetime" -> <<Epoch1900 + cell[2], cell[3] * 60 * NanosPerSecond>>
      [] cell[1] = "datetime"      ->
            <<Epoch1900 + cell[2], (cell[3] \div 3) * (NanosPerSecond \div 100)
                                   + ((cell[3] % 3) * (NanosPerSecond \div 100)) \div 3>>
      [] OTHER                     -> <<cell[2], TicksToNanos(cell[3])>>

NumberIn(cell) ==
    CASE cell[1] \in {"string", "json", "xml"} -> NumberOf(cell[2])
      [] cell[1] \in {"bytes", "uuid", "vector"} -> None
      [] OTHER -> Some(cell[2])
TextIn(cell) ==
    CASE cell[1] \in {"string", "json", "xml"} -> Some(cell[2])
      [] cell[1] = "decimal" -> Some(Number(cell[2], cell[3]))
      [] cell[1] = "bytes" /\ cell[2][1] = "utf8" -> Some(cell[2][2])
      [] OTHER -> None

\* Within a unit of the last place a float keeps.
Near(value, number, bits) == TwoTo[bits - 1] * Abs(value - number) <= Abs(number)

ShapeKinds == {"geometry", "geography"}

Floor(nanos, unit) == nanos - (nanos % unit)

\* Whether a cell stands for a value, to a unit of nanoseconds.  A decimal that
\* stands for a float is one that reads back as it.
Means(type, value, cell, unit) ==
    LET kind == type.kind
        number == NumberIn(cell)
        text == TextIn(cell)
        moment == MomentOf(type, value)
    IN  CASE kind \in Integer -> number = Some(value * One)
          [] kind = "decimal" ->
                \/ number = Some(value)
                \/ cell[1] \in {"real", "float"} /\ number = Some(ToF64(value))
          [] kind = "f32" -> number # None /\ Near(value, number[1], Mantissa[32])
          [] kind = "f64" -> number # None /\ Near(value, number[1], Mantissa[64])
          [] kind = "bool" -> \/ number # None /\ value = (number[1] # 0)
                              \/ text = Some(Word(IF value THEN "true" ELSE "false"))
          [] kind \in {"string", "json"} -> text = Some(value)
          [] kind = "bytes" -> \/ cell = <<"bytes", value>>
                               \/ cell[1] = "uuid" /\ value = <<"guid", cell[2]>>
                               \/ text # None /\ value = <<"utf8", text[1]>>
          [] kind = "uuid" -> cell = <<"uuid", value>>
          [] kind = "wkb" -> cell = <<"bytes", <<"wkb", value>>>>
          [] kind \in ShapeKinds ->
                cell = <<"bytes", <<"spatial", ServerForm(EncodePayload(value[1], value[2]))>>>>
          [] kind = "date" -> moment[1] = MomentIn(cell)[1]
          [] kind = "time" -> Floor(moment[2], unit) = MomentIn(cell)[2]
          [] OTHER -> <<moment[1], Floor(moment[2], unit)>> = MomentIn(cell)

-----------------------------------------------------------------------------
(* Properties. *)

\* Where the program is, what it has bound and what it gets agree: an argument
\* once it is bound, a column and a cell once they are stored, an outcome once
\* the cell is read.
TypeOK ==
    /\ at \in {"bind", "execute", "fetch", "done", "refused"}
    /\ written.type \in RustTypes \/ written = Foreign
    /\ at = "execute" => argument # None
    /\ at \in {"fetch", "done"} =>
           \/ row.column = VectorColumn
           \/ \E nullable \in BOOLEAN : row.column.tds = StoredAs(row.column.name, nullable)
    /\ at = "done" <=> result.outcome # "none"
    /\ result.outcome = "value" <=> result.value # None

\* What is stored for a value means that value, down to 100 nanoseconds: the
\* day numbers of the three crates and of the calendar agree, a time's offset
\* is taken off, a text stays the number it was.
StoredAsMeant ==
    (at = "fetch" /\ written # Foreign /\ ~IsNull(row.cell)) =>
        /\ written.value # None
        /\ Means(written.type, written.value[1], row.cell, NanosPerTick)

\* Whether the column a value is described as can hold it.
Fits(type, value) ==
    LET moment == MomentOf(type, value)
    IN  CASE type.kind \in Integer -> value \in SqlIntegers[OwnType[type.kind]]
          [] type.kind \in Moments -> /\ moment[1] \in 0 .. MaxDay
                                      /\ moment[2] < SecondsPerDay * NanosPerSecond
          [] OTHER -> TRUE

\* A gap: the smallest numbers of BigDecimal have an exponent in their text, and
\* to the server that is no decimal.
SentWithExponent(type, value) ==
    type.crate = "bigdecimal" /\ Abs(value) \in 1 .. PlainDecimal - 1

\* Only what its column cannot hold is refused when it is bound or stored; a
\* NULL of any type is stored.  (The gap above is left out.)
StoredIfItFits ==
    at = "refused" =>
        /\ written.value # None
        /\ ~Fits(written.type, written.value[1]) \/ SentWithExponent(written.type, written.value[1])

\* Two gaps: chrono has no days before 1970, and in a polygon without an
\* exterior ring an interior one takes its place.
BeforeEpoch(type, cell) ==
    /\ type.crate = "chrono"
    /\ cell[1] \in {"date", "datetime2", "datetimeoffset"}
    /\ cell[2] < Epoch
HasNoExterior ==
    written.type.kind \in ShapeKinds /\ written.value # None /\ NoExterior(written.value[1][2])

\* A value read as the type that wrote it comes back: a NULL as a NULL, a time
\* to 100 nanoseconds.  (The days chrono does not have are left out.)
ComesBack ==
    (at = "done" /\ reader.type = written.type) =>
        LET type == written.type
            value == written.value[1]
            bound == MomentOf(type, value)
        IN  CASE written.value = None -> result.outcome = "null"
              [] written.value # None /\ type.kind \in Moments ->
                    \/ BeforeEpoch(type, row.cell)
                    \/ /\ result.outcome = "value"
                       /\ MomentOf(type, result.value[1])
                              = <<bound[1], Floor(bound[2], NanosPerTick)>>
              [] written.value # None /\ type.kind \notin Moments \cup ShapeKinds ->
                    result = Outcome("value", written.value)
              [] OTHER -> TRUE

\* So does a shape, with all its rings and parts.  (Polygons without an
\* exterior ring are left out.)
ShapesComeBack ==
    (/\ at = "done" /\ reader.type = written.type
     /\ written.type.kind \in ShapeKinds /\ written.value # None) =>
        LET value == written.value[1]
        IN  \/ HasNoExterior
            \/ result = Outcome("value", Some(<<value[1], Normal[value[2]]>>))

\* Text of more bits than an f64 keeps goes through one on its way to an
\* integer, and money on its way to a decimal; rust_decimal has no room for all
\* the places of a decimal, nor of a float.
Lossy(type, cell) ==
    LET size == Abs(NumberIn(cell)[1])
    IN  \/ type.kind \in Integer /\ TextualForm(cell) # None /\ size > TwoTo[Mantissa[64]]
        \/ /\ type.kind = "decimal" /\ cell[1] \in {"money", "smallmoney"}
           /\ size > TwoTo[Mantissa[64]]
        \/ type.crate = "rust_decimal" /\ ~Held(NumberIn(cell)[1])

\* time applies the offset of a datetimeoffset a second time.
OffsetTwice(type, cell) ==
    type = RustType("time", "timestamp") /\ cell[1] = "datetimeoffset" /\ cell[4] # 0

\* Whatever type a cell is read as, and whether the types were compared or
\* not, the value is the one in the cell or there is none.  (The gaps above,
\* and String's from_utf8_lossy of what is no text, are left out.)
NothingMisread ==
    (at = "done" /\ result.outcome = "value" /\ reader.type.kind \notin ShapeKinds) =>
        \/ Lossy(reader.type, row.cell)
        \/ OffsetTwice(reader.type, row.cell)
        \/ reader.type.kind = "string" /\ TextIn(row.cell) = None
        \/ Means(reader.type, result.value[1], row.cell, 1)

\* Nor is a shape, whoever stored it: the one that is read is laid out as the
\* one in the cell.  (Polygons without an exterior ring are left out.)
ShapesNotMisread ==
    (at = "done" /\ result.outcome = "value" /\ reader.type.kind \in ShapeKinds) =>
        \/ HasNoExterior
        \/ Means(reader.type, result.value[1], row.cell, 1)

\* rust_decimal has no Decimal for a number that is too large, nor for a text
\* with an exponent.
BeyondDecimal(cell) ==
    LET text == TextIn(cell)
    IN  \/ ~FitsDecimal(Abs(NumberIn(cell)[1]) + Half, One)
        \/ text # None /\ text[1][1] = "exponent"

\* Why a type that accepts a column may fail on a cell of it.  The last four
\* are columns that are accepted and never read.
MayFail(type, cell) ==
    LET number == NumberIn(cell)
        kind == type.kind
    IN  \/ kind \in Integer /\ number # None
             /\ (number[1] % One # 0 \/ number[1] \div One \notin IntegerRange[kind])
        \/ kind \in {"decimal", "json"} /\ TextIn(cell) # None /\ number = None
             /\ ~(kind = "json" /\ IsJson(TextIn(cell)[1]))
        \/ type.crate = "rust_decimal" /\ number # None /\ BeyondDecimal(cell)
        \/ kind \in {"json", "wkb"} /\ cell[1] = "bytes"
             /\ cell[2][1] # (IF kind = "wkb" THEN "wkb" ELSE "utf8")
        \/ kind \in ShapeKinds /\ DecodePayload(cell[2][2]) = Broken
        \/ BeforeEpoch(type, cell)
        \/ kind \in Integer /\ cell[1] \in {"real", "float", "money", "smallmoney"}
        \/ cell[1] = "vector"
        \/ type.crate \in {"time", "jiff"} /\ cell[1] \in {"datetime", "smalldatetime"}
        \/ type = RustType("jiff", "timestamp") /\ cell[2] >= MaxDay - 1

ReadIfItFits ==
    (at = "done" /\ reader.how = "checked" /\ result.outcome = "error") =>
        MayFail(reader.type, row.cell)

\* The Any driver reads every cell of a column whose type it has a kind for, but
\* no vector.
AnyReadsItsKinds ==
    (at = "done" /\ reader.how = "any" /\ result.outcome = "error") =>
        row.column.tds \in {"IntN", "Money", "Money4", "MoneyN", "Vector"} \cup DateTimeData

\* The instant in a datetimeoffset is in UTC: "the offset must not be applied a
\* second time" (tests/mssql.rs).
OffsetAppliedOnce ==
    (at = "done" /\ result.outcome = "value" /\ reader.type.kind = "timestamp") =>
        Means(reader.type, result.value[1], row.cell, 1)

=============================================================================
