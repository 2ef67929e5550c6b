------------------------------ MODULE ValueCodec ------------------------------
(***************************************************************************)
(* How Rust values that are no dates, times or shapes become arguments,    *)
(* and how cells of any type are read as them.                             *)
(*                                                                         *)
(* Arguments and cells are tuples that begin with their SQL type.  Numbers *)
(* in them are counted in quarters, so that some have a fraction; a text   *)
(* is a number, with or without a decimal point or with an exponent, or a  *)
(* word; bytes are a text's, a GUID's, or neither.  Integers, floats and   *)
(* decimals are scaled down: the widths are constants.  A conversion gives *)
(* Some or None.                                                           *)
(***************************************************************************)
EXTENDS TypeInference, TemporalCodec

CONSTANTS
    Width,         \* Width[n]: the bits of an n-bit integer
    Mantissa,      \* Mantissa[n]: the bits an n-bit float keeps
    DecimalBits,   \* the bits of the digits of rust_decimal's Decimal
    PlainDecimal   \* nearer to zero than this, BigDecimal writes an exponent

ASSUME WidthAssumption ==
    /\ Width \in [{8, 16, 32, 64} -> Nat \ {0}]
    /\ Mantissa \in [{32, 64} -> Nat \ {0}]
    /\ Width[8] < Width[16] /\ Width[16] < Mantissa[32] /\ Mantissa[32] < Width[32]
    /\ Width[32] < Mantissa[64] /\ Mantissa[64] < Width[64]

ASSUME DecimalAssumption ==
    /\ DecimalBits \in Nat /\ Width[64] < DecimalBits
    /\ PlainDecimal \in Nat

One == 4
Half == 2

\* Powers of two.
TwoTo[n \in Nat] == IF n = 0 THEN 1 ELSE 2 * TwoTo[n - 1]

Number(quarters, point) == <<"number", quarters, point>>
Exponent(quarters) == <<"exponent", quarters>>
Word(word) == <<"word", word>>
NumberOf(text) == IF text[1] = "word" THEN None ELSE Some(text[2])

Signed(bits) == -TwoTo[bits - 1] .. TwoTo[bits - 1] - 1
UpTo(bits) == 0 .. TwoTo[bits] - 1

IntegerRange ==
    [i8 |-> Signed(Width[8]), i16 |-> Signed(Width[16]), i32 |-> Signed(Width[32]),
     i64 |-> Signed(Width[64]), u8 |-> UpTo(Width[8]), u16 |-> UpTo(Width[16]),
     u32 |-> UpTo(Width[32]), u64 |-> UpTo(Width[64])]
Integer == DOMAIN IntegerRange

Abs(n) == IF n < 0 THEN -n ELSE n

\* Rounding to the nearest float, ties to even.
Rounded(quarters, bits) ==
    LET exponent == CHOOSE e \in 0 .. Abs(quarters) :
                        /\ Abs(quarters) < TwoTo[bits + e]
                        /\ e = 0 \/ Abs(quarters) >= TwoTo[bits + e - 1]
        unit == TwoTo[exponent]
        below == quarters \div unit
        rest == 2 * (quarters % unit)
        up == rest > unit \/ (rest = unit /\ below % 2 = 1)
    IN  (IF up THEN below + 1 ELSE below) * unit

ToF64(quarters) == Rounded(quarters, Mantissa[64])

\* `as i64` of a float.
Saturated(n) ==
    IF n \in IntegerRange.i64 THEN n
    ELSE IF n < 0 THEN -TwoTo[Width[64] - 1] ELSE TwoTo[Width[64] - 1] - 1

-----------------------------------------------------------------------------
(* MssqlValue: a cell, with the text of some types cached beside it.         *)

TextualForm(cell) ==
    CASE cell[1] \in {"string", "xml", "json"} -> Some(cell[2])
      [] cell[1] = "decimal"                   -> Some(Number(cell[2], cell[3]))
      [] OTHER                                 -> None

\* A slip: a fraction is cut off.
SlipFractionCut(text) ==
    IF text[1] = "word" THEN None ELSE Some(Saturated(ToF64(text[2]) \div One))

\* Text that is no integer is read through f64.
ParseIntegerText(text) ==
    IF text[1] = "word" THEN None
    ELSE IF text[1] = "number" /\ ~text[3] /\ text[2] \div One \in IntegerRange.i64
         THEN Some(text[2] \div One)
    ELSE LET value == ToF64(text[2])
         IN  IF value % One = 0 THEN Some(Saturated(value \div One)) ELSE None

ParseBoolText(text) ==
    CASE text \in {Number(One, FALSE), Word("true")}  -> Some(TRUE)
      [] text \in {Number(0, FALSE), Word("false")}   -> Some(FALSE)
      [] OTHER                                        -> None

Whole == {"tinyint", "smallint", "int", "bigint"}

AsI64(cell) ==
    LET text == TextualForm(cell)
    IN  IF cell[1] \in Whole \cup {"bit"} THEN Some(cell[2] \div One)
        ELSE IF text = None THEN None ELSE ParseIntegerText(text[1])

\* money is scaled by 10^4 on the wire; bit is no number here.
AsF64(cell) ==
    LET text == TextualForm(cell)
    IN  CASE cell[1] \in {"real", "float"}                       -> Some(cell[2])
          [] cell[1] \in Whole \cup {"money", "smallmoney"}      -> Some(ToF64(cell[2]))
          [] text # None /\ text[1][1] # "word"                  -> Some(ToF64(text[1][2]))
          [] OTHER                                               -> None

\* A GUID's bytes are not its text.
AsBytes(cell) ==
    LET text == TextualForm(cell)
    IN  CASE cell[1] = "bytes" -> Some(cell[2])
          [] cell[1] = "uuid"  -> Some(<<"guid", cell[2]>>)
          [] text # None       -> Some(<<"utf8", text[1]>>)
          [] OTHER             -> None

AsBool(cell) ==
    LET text == TextualForm(cell)
    IN  CASE cell[1] \in Whole \cup {"bit", "real", "float"} -> Some(cell[2] # 0)
          [] text # None -> ParseBoolText(text[1])
          [] OTHER       -> None

-----------------------------------------------------------------------------
(* Decode.  Rust integers are numbers, floats and decimals count quarters.   *)

\* A slip: the last value of a type is left out.
SlipLastValue(kind, cell) ==
    LET integer == AsI64(cell)
    IN  IF integer # None /\ integer[1] \in IntegerRange[kind] /\ integer[1] + 1 \in IntegerRange[kind]
        THEN integer ELSE None

DecodeInteger(kind, cell) ==
    LET integer == AsI64(cell)
    IN  IF integer # None /\ integer[1] \in IntegerRange[kind] THEN integer ELSE None

DecodeF32(cell) ==
    LET value == AsF64(cell)
    IN  IF value = None THEN None ELSE Some(Rounded(value[1], Mantissa[32]))

\* from_utf8_lossy, where there is no text.
DecodeString(cell) ==
    LET text == TextualForm(cell)
        bytes == AsBytes(cell)
    IN  CASE text # None  -> text
          [] text = None /\ bytes # None ->
                Some(IF bytes[1][1] = "utf8" THEN bytes[1][2] ELSE <<"lossy", bytes[1]>>)
          [] OTHER        -> None

\* Where the shortest text of a float may end: its last place is dropped.
Endings == {1, Half, One, 10 * One, 100 * One}

\* `to_string` of a float: of the texts that read back as it, the nearest one of
\* the shortest.
FloatText(float) ==
    LET reach == Abs(float) \div TwoTo[Mantissa[64]]
        texts == {n \in float - reach .. float + reach : ToF64(n) = float}
        EndingAt(place) == {n \in texts : n % place = 0}
        last == CHOOSE p \in Endings :
                    /\ EndingAt(p) # {}
                    /\ \A q \in Endings : EndingAt(q) # {} => q <= p
        number == CHOOSE n \in EndingAt(last) :
                    \A m \in EndingAt(last) : Abs(n - float) <= Abs(m - float)
    IN  Number(number, number % One # 0)

\* rust_decimal's Decimal keeps halves, the finest of its scales, and as many
\* digits as fit its bits.
FitsDecimal(size, place) == size \div place < TwoTo[DecimalBits]

\* A slip: from_str_exact, which rounds nothing.
SlipExactDecimal(quarters) ==
    IF quarters % Half = 0 /\ FitsDecimal(Abs(quarters), Half) THEN Some(quarters) ELSE None

\* The digits that do not fit are rounded, half away from zero; a whole part
\* that does not fit is refused.
RustDecimal(quarters) ==
    LET size == Abs(quarters)
        place == IF FitsDecimal(size, Half) THEN Half ELSE One
        kept == ((size + place \div 2) \div place) * place
    IN  IF ~FitsDecimal(kept, One) THEN None
        ELSE Some(IF quarters < 0 THEN -kept ELSE kept)

\* BigDecimal keeps every digit and takes an exponent; Decimal does neither.
DecimalFromStr(crate, text) ==
    IF text[1] = "word" THEN None
    ELSE IF crate = "bigdecimal" THEN Some(text[2])
    ELSE IF text[1] = "exponent" THEN None
    ELSE RustDecimal(text[2])

\* From the text, or the text of an integer or of a float.
DecodeDecimal(crate, cell) ==
    LET text == TextualForm(cell)
        integer == AsI64(cell)
        float == AsF64(cell)
    IN  IF text # None THEN DecimalFromStr(crate, text[1])
        ELSE IF integer # None THEN DecimalFromStr(crate, Number(integer[1] * One, FALSE))
        ELSE IF float # None THEN DecimalFromStr(crate, FloatText(float[1]))
        ELSE None

DecodeUuid(cell) == IF cell[1] = "uuid" THEN Some(cell[2]) ELSE None

\* The texts that are JSON.
IsJson(text) == text[1] # "word" \/ text \in {Word("true"), Word("false"), Word("{}")}

DecodeJson(cell) ==
    LET text == TextualForm(cell)
        bytes == AsBytes(cell)
        source == IF text # None THEN text
                  ELSE IF bytes # None /\ bytes[1][1] = "utf8" THEN Some(bytes[1][2]) ELSE None
    IN  IF source # None /\ IsJson(source[1]) THEN source ELSE None

\* The values of this module, by kind; decimals are not the same in all crates.
DecodeValue(kind, cell) ==
    CASE kind \in Integer -> DecodeInteger(kind, cell)
      [] kind = "bool"    -> AsBool(cell)
      [] kind = "f32"     -> DecodeF32(cell)
      [] kind = "f64"     -> AsF64(cell)
      [] kind = "string"  -> DecodeString(cell)
      [] kind = "bytes"   -> AsBytes(cell)
      [] kind = "uuid"    -> DecodeUuid(cell)
      [] kind = "json"    -> DecodeJson(cell)

-----------------------------------------------------------------------------
(* Encode. *)

\* A slip: the cast wraps.
SlipWrapped(n) ==
    Some(<<"bigint", (IF n \in IntegerRange.i64 THEN n ELSE n - TwoTo[Width[64]]) * One>>)

\* u64 beyond BIGINT is refused; the others always fit.
EncodeInteger(n) == IF n \in IntegerRange.i64 THEN Some(<<"bigint", n * One>>) ELSE None

\* As text, by to_string.
EncodeDecimal(crate, value) ==
    LET text == IF crate = "bigdecimal" /\ value # 0 /\ Abs(value) < PlainDecimal
                THEN Exponent(value) ELSE Number(value, value % One # 0)
    IN  Some(<<"nvarchar", text>>)

\* JSON is sent as text.
EncodeValue(kind, value) ==
    CASE kind \in Integer             -> EncodeInteger(value)
      [] kind = "bool"                -> Some(<<"bit", IF value THEN One ELSE 0>>)
      [] kind = "f32"                 -> Some(<<"real", value>>)
      [] kind = "f64"                 -> Some(<<"float", value>>)
      [] kind \in {"string", "json"}  -> Some(<<"nvarchar", value>>)
      [] kind = "bytes"               -> Some(<<"varbinary", value>>)
      [] kind = "uuid"                -> Some(<<"uniqueidentifier", value>>)

\* A slip: varbinary and the spatial types fall through to nvarchar.
SlipNullFallback(tds) ==
    CASE tds \in {"Int1", "Int2", "Int4", "Int8"} -> "bigint"
      [] tds \in {"DateN", "TimeN"} -> "date"
      [] OTHER -> "nvarchar"

\* How a NULL of a type is declared.
NullSqlType(tds) ==
    CASE tds = "Int1"                       -> "tinyint"
      [] tds = "Int2"                       -> "smallint"
      [] tds = "Int4"                       -> "int"
      [] tds \in {"Int8", "IntN"}           -> "bigint"
      [] tds = "Flt4"                       -> "real"
      [] tds \in {"Flt8", "FltN"}           -> "float"
      [] tds \in {"Bit", "BitN"}            -> "bit"
      [] tds \in {"Decimal", "DecimalN"}    -> "decimal"
      [] tds \in {"Numeric", "NumericN"}    -> "numeric"
      [] tds = "Money"                      -> "money"
      [] tds = "Money4"                     -> "smallmoney"
      [] tds = "Char"                       -> "char"
      [] tds = "NChar"                      -> "nchar"
      [] tds = "Text"                       -> "text"
      [] tds = "NText"                      -> "ntext"
      [] tds \in {"BigChar", "BigVarChar", "VarChar"} -> "varchar"
      [] tds \in {"BigBinary", "BigVarBinary", "Binary", "VarBinary", "Image", "Udt"} ->
            "varbinary"
      [] tds = "Guid"                       -> "uniqueidentifier"
      [] tds = "DateN"                      -> "date"
      [] tds = "TimeN"                      -> "time"
      [] tds = "DateTime2N"                 -> "datetime2"
      [] tds = "DateTimeOffsetN"            -> "datetimeoffset"
      [] tds \in {"DateTime", "DateTimeN"}  -> "datetime"
      [] tds = "DateTim4"                   -> "smalldatetime"
      [] tds = "Xml"                        -> "xml"
      [] tds = "Json"                       -> "json"
      [] OTHER                              -> "nvarchar"

\* A value that is missing: Option's None.
NullLike(name) == <<"null", NullSqlType(FromSystemTypeName(name).tds)>>

-----------------------------------------------------------------------------
(* The Any driver reads a cell as the kind its type has there.               *)

\* A slip: the smallest integers are one byte.
SlipAnyTinyInt(tds) == IF tds = "Int1" THEN "i8" ELSE "string"

AnyKind(tds) ==
    CASE tds \in {"Bit", "BitN"}        -> "bool"
      [] tds \in {"Int1", "Int2"}       -> "i16"
      [] tds = "Int4"                   -> "i32"
      [] tds = "Int8"                   -> "i64"
      [] tds = "Flt4"                   -> "f32"
      [] tds \in {"Flt8", "FltN"}       -> "f64"
      [] tds \in Binary \cup {"Udt"}    -> "bytes"
      [] OTHER                          -> "string"

=============================================================================
