---------------------------- MODULE TemporalCodec ----------------------------
(***************************************************************************)
(* How the dates and times of chrono, time and jiff become SQL Server's    *)
(* and back.                                                               *)
(*                                                                         *)
(* The calendars of chrono and time are external: their dates are day      *)
(* numbers from 0001-01-01 on.  jiff has no day numbers, so the driver     *)
(* computes them, and so does this module.  Arguments and cells are tuples *)
(* that begin with their SQL type; a conversion gives Some or None.        *)
(***************************************************************************)
EXTENDS Integers, Sequences

CONSTANTS
    NanosPerSecond, \* 10^9 in the code
    NanosPerTick    \* 100 in the code: what scale 7 counts

ASSUME UnitsAssumption ==
    /\ NanosPerSecond \in Nat \ {0}
    /\ NanosPerTick \in Nat \ {0}
    /\ NanosPerSecond % NanosPerTick = 0
    /\ NanosPerSecond % 100 = 0

None == <<>>
Some(x) == <<x>>
Both(date, time) ==
    IF date = None \/ time = None THEN None ELSE Some([date |-> date[1], time |-> time[1]])
DatePart(datetime) == IF datetime = None THEN None ELSE Some(datetime[1].date)
TimePart(datetime) == IF datetime = None THEN None ELSE Some(datetime[1].time)

Epoch == 719162     \* 1970-01-01
Epoch1900 == 693595 \* 1900-01-01
MaxDay == 3652058   \* 9999-12-31
SecondsPerDay == 86400

\* A slip: SqlTime is taken to count nanoseconds.
SlipNanosKept(nanoseconds) == nanoseconds

NanosToTicks(nanoseconds) == nanoseconds \div NanosPerTick
TicksToNanos(ticks) == ticks * NanosPerTick

\* Days since year one, as u32.
Unsigned(days) == IF days < 0 THEN None ELSE Some(days)

\* SqlDate::create checks the range; the other types are built unchecked.
SqlDate(days) == IF days # None /\ days[1] <= MaxDay THEN Some(<<"date", days[1]>>) ELSE None
SqlDateTime2(days, ticks) ==
    IF days = None \/ ticks = None THEN None ELSE Some(<<"datetime2", days[1], ticks[1]>>)
SqlDateTimeOffset(datetime2) ==
    IF datetime2 = None THEN None
    ELSE Some(<<"datetimeoffset", datetime2[1][2], datetime2[1][3], 0>>)

-----------------------------------------------------------------------------
(* chrono.  A time is a second of the day and nanoseconds, which run on to    *)
(* two seconds in a leap second.                                            *)

\* u64::try_from has no value for days before 1970.
ChronoDateFromDays(days) == IF days < Epoch THEN None ELSE Some(days)

ChronoTimeFromNanos(nanoseconds) ==
    LET seconds == nanoseconds \div NanosPerSecond
    IN  IF seconds >= SecondsPerDay THEN None
        ELSE Some([second |-> seconds, nano |-> nanoseconds % NanosPerSecond])

ChronoNanosFromTime(time) == time.second * NanosPerSecond + time.nano

ChronoTicks(time) == Some(NanosToTicks(ChronoNanosFromTime(time)))

\* datetime counts 1/300ths of a second, from 1900 on and back.
ChronoFromDateTime(days, time) ==
    LET nanoseconds ==
            (time \div 300) * NanosPerSecond + ((time % 300) * NanosPerSecond) \div 300
    IN  Both(Some(Epoch1900 + days), ChronoTimeFromNanos(nanoseconds))

ChronoFromSmallDateTime(days, minutes) ==
    Both(Some(Epoch1900 + days), ChronoTimeFromNanos(minutes * 60 * NanosPerSecond))

ChronoFromDateTime2(days, ticks) ==
    Both(ChronoDateFromDays(days), ChronoTimeFromNanos(TicksToNanos(ticks)))

ChronoDateTime2(value) == SqlDateTime2(Unsigned(value.date), ChronoTicks(value.time))

\* The column types with a date and a time; the offset is not looked at.
ChronoMoment(cell) ==
    CASE cell[1] \in {"datetime2", "datetimeoffset"} -> ChronoFromDateTime2(cell[2], cell[3])
      [] cell[1] = "datetime"      -> ChronoFromDateTime(cell[2], cell[3])
      [] cell[1] = "smalldatetime" -> ChronoFromSmallDateTime(cell[2], cell[3])
      [] OTHER                     -> None

ChronoBindDate(date) == SqlDate(Unsigned(date))
ChronoReadDate(cell) ==
    IF cell[1] = "date" THEN ChronoDateFromDays(cell[2]) ELSE DatePart(ChronoMoment(cell))

ChronoBindTime(time) == Some(<<"time", ChronoTicks(time)[1]>>)
ChronoReadTime(cell) ==
    IF cell[1] = "time" THEN ChronoTimeFromNanos(TicksToNanos(cell[2]))
    ELSE TimePart(ChronoMoment(cell))

ChronoBindDateTime(value) == ChronoDateTime2(value)
ChronoReadDateTime(cell) ==
    IF cell[1] = "date" THEN Both(ChronoDateFromDays(cell[2]), ChronoTimeFromNanos(0))
    ELSE ChronoMoment(cell)

\* Values are instants: naive_utc.
ChronoBindTimestamp(value) == SqlDateTimeOffset(ChronoDateTime2(value))
ChronoReadTimestamp(cell) == ChronoMoment(cell)

-----------------------------------------------------------------------------
(* time.  A time of day is hours, minutes, seconds and nanoseconds.          *)

Clock(total_seconds, nanoseconds) ==
    [hour |-> total_seconds \div 3600, minute |-> (total_seconds % 3600) \div 60,
     second |-> total_seconds % 60, nano |-> nanoseconds]

\* A slip: the hours are left in the minutes.
SlipMinutesOfDay(nanoseconds) ==
    LET clock == Clock(nanoseconds \div NanosPerSecond, nanoseconds % NanosPerSecond)
    IN  IF clock.hour > 0 THEN None ELSE Some(clock)

\* Also jiff's.
TimeFromNanos(nanoseconds) ==
    LET clock == Clock(nanoseconds \div NanosPerSecond, nanoseconds % NanosPerSecond)
    IN  IF clock.hour > 23 THEN None ELSE Some(clock)

SecondOfDay(clock) == clock.hour * 3600 + clock.minute * 60 + clock.second
NanosFromTime(clock) == SecondOfDay(clock) * NanosPerSecond + clock.nano
Ticks(clock) == Some(NanosToTicks(NanosFromTime(clock)))

\* checked_add: the crate's calendar ends with the year 9999.
TimeDateFromDays(days) == IF days > MaxDay THEN None ELSE Some(days)

TimeDateTime2(value) == SqlDateTime2(Unsigned(value.date), Ticks(value.time))

TimeFromDateTime2(days, ticks) ==
    Both(TimeDateFromDays(days), TimeFromNanos(TicksToNanos(ticks)))

\* datetime and smalldatetime are not read.
TimeMoment(cell) ==
    IF cell[1] \in {"datetime2", "datetimeoffset"} THEN TimeFromDateTime2(cell[2], cell[3])
    ELSE None

TimeBindDate(date) == SqlDate(Unsigned(date))
TimeReadDate(cell) ==
    IF cell[1] = "date" THEN TimeDateFromDays(cell[2]) ELSE DatePart(TimeMoment(cell))

TimeBindTime(time) == Some(<<"time", Ticks(time)[1]>>)
TimeReadTime(cell) ==
    IF cell[1] = "time" THEN TimeFromNanos(TicksToNanos(cell[2])) ELSE TimePart(TimeMoment(cell))

TimeBindDateTime(value) == TimeDateTime2(value)
TimeReadDateTime(cell) == TimeMoment(cell)

\* to_offset(UTC) of a time of day at an offset in minutes.
ToUtc(value) ==
    LET seconds == SecondOfDay(value.time) - value.offset * 60
    IN  [date |-> value.date + seconds \div SecondsPerDay,
         time |-> Clock(seconds % SecondsPerDay, value.time.nano)]

\* A slip: the local time is written as it is.
SlipLocalTime(value) == SqlDateTimeOffset(TimeDateTime2(value))

\* to_offset panics beyond the year 9999.
TimeBindTimestamp(value) ==
    LET utc == ToUtc(value)
    IN  IF utc.date > MaxDay THEN None ELSE SqlDateTimeOffset(TimeDateTime2(utc))

\* assume_offset: the time in the cell is taken for local time at its offset.
TimeReadTimestamp(cell) ==
    LET moment == TimeMoment(cell)
    IN  IF moment = None THEN None
        ELSE Some([date |-> moment[1].date, time |-> moment[1].time,
                   offset |-> IF cell[1] = "datetimeoffset" THEN cell[4] ELSE 0])

-----------------------------------------------------------------------------
(* jiff.  A date is a year, a month and a day.                               *)

\* The proleptic Gregorian calendar in years that begin in March.
UnixDaysFromDate(date) ==
    LET adjusted_year == IF date.month <= 2 THEN date.year - 1 ELSE date.year
        era == adjusted_year \div 400
        year_of_era == adjusted_year - era * 400
        month_shift == IF date.month > 2 THEN date.month - 3 ELSE date.month + 9
        day_of_year == (153 * month_shift + 2) \div 5 + date.day - 1
        day_of_era ==
            year_of_era * 365 + year_of_era \div 4 - year_of_era \div 100 + day_of_year
    IN  era * 146097 + day_of_era - 719468

\* A slip: the last day of an era, a leap day, begins a year of its own.
SlipNoLeapEra(day_of_era) ==
    (day_of_era - day_of_era \div 1460 + day_of_era \div 36524) \div 365

YearOfEra(day_of_era) ==
    (day_of_era - day_of_era \div 1460 + day_of_era \div 36524 - day_of_era \div 146096)
        \div 365

\* Date::new refuses years beyond 9999.
DateFromUnixDays(unix_days) ==
    LET shifted == unix_days + 719468
        era == shifted \div 146097
        day_of_era == shifted - era * 146097
        year_of_era == YearOfEra(day_of_era)
        day_of_year == day_of_era
            - (365 * year_of_era + year_of_era \div 4 - year_of_era \div 100)
        month_shift == (5 * day_of_year + 2) \div 153
        month == IF month_shift < 10 THEN month_shift + 3 ELSE month_shift - 9
        year == year_of_era + era * 400 + (IF month <= 2 THEN 1 ELSE 0)
    IN  IF year > 9999 THEN None
        ELSE Some([year |-> year, month |-> month,
                   day |-> day_of_year - (153 * month_shift + 2) \div 5 + 1])

JiffDateFromDays(days) == DateFromUnixDays(days - Epoch)
JiffDaysFromDate(date) == Unsigned(UnixDaysFromDate(date) + Epoch)

JiffDateTime2(value) == SqlDateTime2(JiffDaysFromDate(value.date), Ticks(value.time))

JiffFromDateTime2(days, ticks) ==
    Both(JiffDateFromDays(days), TimeFromNanos(TicksToNanos(ticks)))

JiffMoment(cell) ==
    IF cell[1] \in {"datetime2", "datetimeoffset"} THEN JiffFromDateTime2(cell[2], cell[3])
    ELSE None

JiffBindDate(date) == SqlDate(JiffDaysFromDate(date))
JiffReadDate(cell) ==
    IF cell[1] = "date" THEN JiffDateFromDays(cell[2]) ELSE DatePart(JiffMoment(cell))

JiffBindTime(time) == Some(<<"time", Ticks(time)[1]>>)
JiffReadTime(cell) ==
    IF cell[1] = "time" THEN TimeFromNanos(TicksToNanos(cell[2])) ELSE TimePart(JiffMoment(cell))

JiffBindDateTime(value) == JiffDateTime2(value)
JiffReadDateTime(cell) == JiffMoment(cell)

\* Timestamps end at 9999-12-30 22:00, so that every offset has a civil time.
TimestampRange(moment) ==
    \/ JiffDaysFromDate(moment.date)[1] < MaxDay - 1
    \/ JiffDaysFromDate(moment.date)[1] = MaxDay - 1 /\ SecondOfDay(moment.time) <= 22 * 3600

TimestampFromDateTime2(days, ticks) ==
    LET moment == JiffFromDateTime2(days, ticks)
    IN  IF moment # None /\ TimestampRange(moment[1]) THEN moment ELSE None

JiffBindTimestamp(value) == SqlDateTimeOffset(JiffDateTime2(value))
JiffReadTimestamp(cell) ==
    IF cell[1] \in {"datetime2", "datetimeoffset"} THEN TimestampFromDateTime2(cell[2], cell[3])
    ELSE None

=============================================================================
