----------------------------- MODULE MCRoundTrip -----------------------------
(* Instances of RoundTrip for TLC. *)
EXTENDS RoundTrip, TLC

\* Widths in the order of the real ones, and close to one another.
Widths == (8 :> 2 @@ 16 :> 3 @@ 32 :> 5 @@ 64 :> 8)
Mantissas == (32 :> 4 @@ 64 :> 7)

\* Numbers around every limit, with and without a fraction.
Limits == {-128, -16, -4, -2, 0, 1, 2, 3, 4, 7, 15, 31, 127, 255}
Numbers == {One * n + d : n \in Limits \cup {n + 1 : n \in Limits} \cup {n - 1 : n \in Limits},
                          d \in {0, 1, 2}}
\* So are those around the limit of rust_decimal's Decimal, with its halves and
\* without.
Digits == TwoTo[DecimalBits]
Decimals ==
    Numbers \cup {s * (limit + d) : s \in {1, -1}, limit \in {Half * Digits, One * Digits}, d \in -3 .. 2}
Texts ==
    {Number(q, TRUE) : q \in Decimals} \cup {Exponent(q) : q \in {1, 2, One, 134}}
        \cup {Number(q, FALSE) : q \in {n \in Decimals : n % One = 0}}
        \cup {Word(w) : w \in {"true", "false", "{}", "word"}}
Wkb == {<<"wkb", <<"point", 1>>>>}
Bytes == {<<"utf8", Number(One, FALSE)>>, <<"utf8", Word("word")>>, <<"raw", 1>>} \cup Wkb

\* Days at the ends of the calendar, of its eras, centuries and leap years, and
\* of the driver's epochs.
JiffDate(year, month, day) == [year |-> year, month |-> month, day |-> day]
JiffDates ==
    {JiffDate(0, 12, 31), JiffDate(1, 1, 1), JiffDate(4, 2, 29), JiffDate(100, 2, 28),
     JiffDate(100, 3, 1), JiffDate(400, 2, 29), JiffDate(400, 3, 1), JiffDate(1899, 12, 31),
     JiffDate(1969, 12, 31), JiffDate(1970, 1, 1), JiffDate(2000, 2, 29),
     JiffDate(2000, 12, 31), JiffDate(2026, 9, 21), JiffDate(9999, 12, 30),
     JiffDate(9999, 12, 31)}
Days == {CalendarDay(d) : d \in JiffDates}
Seconds == {0, 59, 3600, 45296, 86399}
Nanos == {0, 995}
ChronoTimes ==
    {[second |-> s, nano |-> n] : s \in Seconds, n \in Nanos}
        \cup {[second |-> s, nano |-> NanosPerSecond + 15] : s \in {59, 86399}}
Clocks == {Clock(s, n) : s \in Seconds, n \in Nanos}
Ticks7 == {0, 1, 5999, 4529599, TicksPerDay - 1}

Both2(dates, times) == {[date |-> d, time |-> t] : d \in dates, t \in times}
FewDates == {JiffDate(1, 1, 1), JiffDate(1969, 12, 31), JiffDate(2000, 2, 29), JiffDate(9999, 12, 31)}
FewDays == {-1, 0, Epoch - 1, Epoch, 739879, MaxDay}

\* Geometries with every kind of part, empty ones among them.
Ring(a, b) == <<a, b, a>>
Polygons ==
    {Polygon(<<>>, <<>>), Polygon(Ring(1, 2), <<>>), Polygon(Ring(1, 2), <<Ring(3, 4)>>),
     Polygon(Ring(1, 2), <<Ring(3, 4), <<>>, Ring(4, 5)>>), Polygon(<<>>, <<Ring(3, 4)>>)}
Alone ==
    {<<"point", 1>>, <<"line", <<1, 2>>>>, <<"linestring", <<>>>>, <<"linestring", <<1, 2>>>>,
     <<"linestring", <<3, 2, 1>>>>}
        \cup {<<"polygon", p>> : p \in Polygons}
Pairs(S) == {<<>>} \cup {<<a>> : a \in S} \cup {<<a, b>> : a, b \in S}
Multi ==
    {<<"multipoint", s>> : s \in Pairs({1, 2})}
        \cup {<<"multilinestring", s>> : s \in Pairs({<<>>, <<1, 2>>, <<3, 4, 5>>})}
        \cup {<<"multipolygon", s>> : s \in Pairs(Polygons)}
Collections == {<<"collection", s>> : s \in Pairs(Alone \cup {<<"multipoint", <<1, 2>>>>})}
Nested ==
    {<<"collection", <<a, <<"collection", <<b>>>>, a>>>> :
        a, b \in {<<"collection", <<>>>>, <<"point", 1>>, <<"polygon", Polygon(Ring(1, 2), <<Ring(3, 4)>>)>>,
                  <<"multilinestring", <<<<1, 2>>, <<>>>>>>}}
Shapes == Alone \cup Multi \cup Collections \cup Nested

-----------------------------------------------------------------------------
ValuesOf(type) ==
    LET kind == type.kind
        crate == type.crate
        shift == {[date |-> d, time |-> Clock(s, 0), offset |-> o] :
                     d \in {-1, 0, Epoch, MaxDay}, s \in {0, 45296, 86399}, o \in {-60, 0, 840}}
    IN  CASE kind \in Integer ->
                {n \in UNION {{l - 1, l, l + 1} : l \in Limits} : n \in IntegerRange[kind]}
          [] kind = "bool" -> BOOLEAN
          [] kind = "f32" -> {q \in Numbers : q = Rounded(q, Mantissa[32])}
          [] kind = "f64" -> {q \in Numbers : q = Rounded(q, Mantissa[64])}
          [] kind = "decimal" -> {q \in Decimals : crate = "rust_decimal" => Held(q)}
          [] kind = "string" -> {Number(q, q % One # 0) : q \in {-3, 0, One, 134}} \cup {Word("true"), Word("word"), Exponent(6)}
          [] kind = "json" -> {Number(6, TRUE), Exponent(6), Word("{}")}
          [] kind = "bytes" -> Bytes
          [] kind = "uuid" -> {"u1", "u2"}
          [] kind = "wkb" -> {<<"point", 1>>, <<"linestring", <<1, 2>>>>}
          [] kind = "geometry" -> {<<4326, g>> : g \in Shapes}
          [] kind = "geography" -> {<<0, g>> : g \in Alone}
          [] kind = "date" -> IF crate = "jiff" THEN JiffDates ELSE Days
          [] kind = "time" -> IF crate = "chrono" THEN ChronoTimes ELSE Clocks
          [] type = RustType("time", "timestamp") -> shift
          [] crate = "chrono" -> Both2(FewDays, ChronoTimes)
          [] crate = "time" -> Both2(FewDays, Clocks)
          [] kind = "datetime" -> Both2(FewDates, Clocks)
          [] kind = "timestamp" -> {m \in Both2(FewDates, Clocks) : TimestampRange(m)}

EveryWrite ==
    {[type |-> t, value |-> None] : t \in RustTypes}
        \cup UNION {{[type |-> t, value |-> Some(v)] : v \in ValuesOf(t)} : t \in RustTypes}

\* Spatial payloads as SQL Server sends them.
Payload(version, properties, truncated, tables) ==
    [srid |-> 4326, version |-> version, properties |-> properties, truncated |-> truncated,
     tables |-> tables]
Points(points) == [NoTables EXCEPT !.points = points]
Top(type) == EncodeStroke(NoTables, -1, <<1, 2>>, type)
SomePayloads ==
    {Payload(1, {"single_point"}, FALSE, Points(<<1>>)),
     Payload(1, {"single_line"}, FALSE, Points(<<1, 2>>)),
     Payload(1, {"single_point", "z"}, FALSE, Points(<<1>>)),
     Payload(1, {"single_point", "m"}, FALSE, Points(<<1>>)),
     Payload(1, {}, TRUE, Points(<<1>>)),
     Payload(1, {}, FALSE, NoTables),
     Payload(1, {}, FALSE, PushEmptyShape(NoTables, -1, "point")),
     Payload(1, {}, FALSE, Top("fullglobe")),
     Payload(2, {}, FALSE, Top("circularstring"))}
        \cup {ServerForm(EncodePayload(4326, g)) : g \in {c \in Collections : ~NoExterior(c)}}

SomeCells(name) ==
    CASE name \in DOMAIN SqlIntegers ->
            {<<name, q>> : q \in {n \in Numbers : n % One = 0 /\ n \div One \in SqlIntegers[name]}}
      [] name = "bit" -> {<<name, 0>>, <<name, One>>}
      [] name = "real" -> {<<name, q>> : q \in {n \in Numbers : n = Rounded(n, Mantissa[32])}}
      [] name = "float" -> {<<name, q>> : q \in {n \in Decimals : n = Rounded(n, Mantissa[64])}}
      [] name \in {"money", "smallmoney"} -> {<<name, q>> : q \in Numbers \cap MoneyCells(name)}
      [] name \in {"decimal", "numeric"} ->
            {<<"decimal", q, TRUE>> : q \in Decimals}
                \cup {<<"decimal", q, FALSE>> : q \in {n \in Decimals : n % One = 0}}
      [] name \in {"nvarchar", "varchar", "nchar", "char", "text", "ntext"} ->
            {<<"string", t>> : t \in Texts}
      [] name \in {"xml", "json"} -> {<<name, Word("{}")>>, <<name, Word("word")>>}
      [] name \in {"binary", "varbinary", "image"} -> {<<"bytes", b>> : b \in Bytes}
      [] name = "uniqueidentifier" -> {<<"uuid", "u1">>}
      [] name \in ShapeKinds -> {<<"bytes", <<"spatial", p>>>> : p \in SomePayloads}
      [] name = "date" -> {<<name, d>> : d \in Days \cap Nat}
      [] name = "time" -> {<<name, t>> : t \in Ticks7}
      [] name = "datetime2" -> {<<name, d, t>> : d \in Days \cap Nat, t \in Ticks7}
      [] name = "datetimeoffset" ->
            {<<name, d, t, o>> : d \in {Epoch - 1, Epoch, MaxDay}, t \in Ticks7, o \in {-60, 0, 840}}
      [] name = "datetime" ->
            {<<name, d, t>> : d \in {-53690, -1, 0, 25567, 2958463}, t \in {0, 1, 299, 25919999}}
      [] name = "smalldatetime" -> {<<name, d, m>> : d \in {0, 65535}, m \in {0, 61, 1439}}

EveryRow ==
    UNION {{[column |-> TypeInfo(n, StoredAs(n, b)), cell |-> c] : b \in BOOLEAN, c \in SomeCells(n) \cup {<<"null">>}} :
               n \in DOMAIN SystemTypes}
        \cup {[column |-> VectorColumn, cell |-> c] : c \in {VectorCell, <<"null">>}}

=============================================================================
