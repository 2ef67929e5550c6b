SPECIFICATION Spec
CONSTANTS
    NanosPerSecond = 1000
    NanosPerTick = 10
    MaxNesting = 3
    Width <- Widths
    Mantissa <- Mantissas
    DecimalBits = 9
    PlainDecimal = 2
    Writes <- EveryWrite
    Rows <- EveryRow
INVARIANT OffsetAppliedOnce
\* A value is read once.
CHECK_DEADLOCK FALSE
