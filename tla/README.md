# A verification project for sqlx-mssql-rs

TLA+ modules, TLC configurations and TLAPS proofs about the SQL Server driver in
this repository. Paths below are relative to the repository; `core/` stands for
`sqlx-mssql-rs-core/src/`. `PROJECT.json` maps every definition that models code to
the lines it models.

## 1. Inventory

| Component | State it keeps | Operations | Interacts with |
|---|---|---|---|
| Connection (`core/connection.rs`) | `transaction_depth`, `needs_reset`, `pending_rollback`; the TDS client with a possibly half-read answer | `fetch_many`, `query_rows`, `exec_sql`, `collect_rows`, `execute_simple`/`ping`, `drain_pending`, `close` | one TDS client, which it awaits; streams that borrow it |
| Transactions (`core/transaction.rs`, `connection.rs`) | the depth above; the server's transaction and savepoints | `begin`, `commit`, `rollback`, `start_rollback` | sqlx `Transaction` handles, whose `Drop` calls `start_rollback` without awaiting |
| Migrations (`core/migrate.rs`, `connection.rs` 703-773) | migrations table, application lock, the schema | `lock`, `list`, `apply`, `revert`, `skip`, `unlock`, create and drop of databases and schemas | sqlx's Migrator; other migrators through the server |
| Parameter markers (`core/param_markers.rs`, `build_request`) | the scan's position, output and count | `rewrite_param_markers`, `build_request` | statements and describe |
| Describe (`connection.rs` 208-442, `describe.rs`, `statement.rs`) | none | `describe_statement`, `infer_parameters` | two server procedures, the query macros |
| Types (`core/type_info.rs`, `type_checking.rs`) | none | equality, `compatible`, `from_system_type_name` | decode, macros |
| Values and arguments (`core/value.rs`, `arguments.rs`) | a cell with the text of some types cached beside it | `add`, `null_like`, `as_i64`, `as_f64`, `as_bytes`, `as_bool`, encode and decode of the std types | types; the server, which converts |
| Temporal (`core/types/{mod,chrono,time,jiff}.rs`) | none | encode and decode of dates, ticks, offsets | values |
| Spatial (`core/types/geo.rs`) | none | the native serialization of shapes, WKB | values |
| Other scalars (`core/types/{decimal,bigdecimal,uuid,json}.rs`) | none | encode and decode through text and bytes | values |
| Any driver (`core/any.rs`) | none of its own | the kind of a column, rows | values, types; forwards to the connection |
| Options, rows, errors, macros, CLI | none worth a model | parsing, accessors, code generation | - |

**What is hard.** The driver is asynchronous and sequential: the borrow checker lets
one call use a connection at a time. What interleaves is a call with its own
interruptions. At every `await` the request may be answered, be refused, or the
caller may drop the future and never learn which. Cleaning up is *lazy*: dropping a
row stream or a `Transaction` cannot await, so it sets a flag and the next call does
the work (`drain_pending`). The state to keep consistent is spread over three places:
two flags and a counter in the driver, the bytes on the wire, and the server's
transaction. Several *processes* meet only in migrations, where they share the
database and an application lock. The scanner and the codecs are sequential; there
the difficulty is in the boundaries.

**What makes each component correct.**

* Connection: a half-read answer or an abandoned transaction is always recorded, is
  removed before anything else is sent, and is removed at all.
* Transactions: a handle's commit and rollback act on exactly the handle's writes,
  however the handles nest and savepoint names repeat.
* Migrations: applied exactly when recorded, recorded in order, at most once, decided
  on a current list, and everybody who waits is served.
* Markers: exactly the `?` that are markers are rewritten, numbered in order, and as
  many as there are arguments.
* Describe and types: a reported type is the one of its own marker or column, and the
  macros take the Rust type that owns it.
* Values, temporal, spatial, Any: what is bound is stored as what it means, what the
  column can hold is accepted, what was stored comes back, and no cell is ever read as a
  value it does not stand for, whichever type reads it.

## 2. Modules

| Module | Models |
|---|---|
| `NestedTransactions` | the abstract promise of a stack of handles: who owns which writes |
| `MssqlConnection` | one connection, its handles, the wire and the server session; the detailed specification |
| `MssqlConnectionProofs` | its theorems on types and recovery, on savepoints, and the refinement |
| `Migrations` | several migrators on one database |
| `MigrationsProofs` | its theorems |
| `Extremes` | lemmas for all the proofs: the greatest and the least member of a set, ascending lists, induction up to a number |
| `ParamMarkers` | `rewrite_param_markers` and `build_request` |
| `ParamMarkersProofs` | its theorems |
| `TypeInference` | `MssqlTypeInfo`, its predicates, and which Rust type the macros take |
| `Describe` | `describe_statement` with `infer_parameters` |
| `DescribeProofs` | its theorems, and that who owns a type takes it, in every build |
| `TemporalCodec` | the dates, times and timestamps of chrono, time and jiff as SQL Server's, both ways |
| `ValueCodec` | numbers, text, bytes, booleans, decimals, GUIDs and JSON, both ways; typed NULLs; the kinds of the Any driver |
| `SpatialCodec` | the native format of geometries: points, figures and shapes, both ways |
| `SpatialProofs` | that what `SpatialCodec` encodes it decodes again |
| `RoundTrip` | composes the three with `TypeInference`: a value bound, stored, fetched and decoded |
| `RoundTripProofs` | its theorems on what is bound, stored and read back, shapes too, and those on the calendar |
| `ReadingProofs` | its theorems on reading any cell as any type, shapes too, and on the rounding of floats |
| `MC...` | instances for TLC: symmetry sets, alphabets, the values and cells that are tried |

### MssqlConnection

| Variable | In the code |
|---|---|
| `transaction_depth`, `needs_reset`, `pending_rollback` | the fields of the same name |
| `call`, `at` | the future that runs and the await it is in: `close` is `close_query` of the recovery, `undo` its `rollback_transaction`, `send` the request of the call, `rows` the reading of its answer |
| `wire` | whether an answer is still to be read |
| `tran`, `durable` | the server: savepoints with the writes after each, and committed writes |
| `work` | the writes made through each open `Transaction` handle |
| `broken` | history: an answer broke off while it was read, or a future was dropped at an await |

A step runs a call from one await to the next, with everything the code does in
between. `BeginTransaction`, `FetchMany` and `Collect` start with `DrainPending`;
`CommitTransaction` and `RollbackTransaction` do not, as in the code. `Collect` stands
for all calls that read their answer to the end before returning (`query_rows`,
`exec_sql`, `collect_rows`, `execute_simple` and so `ping`). Failing calls end in
`GiveUp`: sqlx's `Transaction::begin` holds the new handle before it awaits, and
`commit` and `rollback` own theirs, so the handle's `Drop` queues a rollback. A
statement's data is reduced to which write it makes, each at most once.

What is *external*: the server's transaction (`Able`, `Serve`, `RolledBackTo`, taken
from how the driver uses BEGIN, SAVE, COMMIT and ROLLBACK: a savepoint name may
repeat and then means the latest; a savepoint or commit needs an open transaction),
and the TDS client. `ClientDrains` says whether the client discards a half-read answer
by itself when a new request is sent, which the sources here do not settle;
configurations use the value under which their claim is the stronger: `FALSE` where the
driver's own recovery is in question, `TRUE` where the claim should not depend on it.
`Faults` selects what goes wrong, so that each run can name the weakest conditions of
its claims.

### Migrations

`Lock`, `List`, `Unlock` and the steps of `run_migration_pair`, one action per
awaited statement, for a set of migrators. `scenario` fixes, for a behaviour, which migrations run outside a transaction, what
migrators are asked for, and what may fail. `tx[m]` is the session's transaction with
the set of changes in it (no two undo one another, so their order is left out), `depth[m]` the connection's `transaction_depth`: after a rollback or a
commit that failed it stays at 1, and the next `Begin` asks for a savepoint. The loop
over migrations is sqlx's and external: it lists under the lock, handles one migration
at a time, and returns at the first error *without* unlocking, so a failed migrator
keeps the lock until its session ends. The lock is re-entrant and counted
(`sp_getapplock`, owner `Session`). `Refused` is the primary key of the migrations
table. `dirty_version` always answers None and has no effect.

### ParamMarkers

One action per branch of the scanner's loop, `Bind` for the rest of `build_request`,
with a character a member of a small set and positions counted in characters. The
reference it is held against, `Reading`, reads T-SQL one character at a time with a
state, as a lexer does, instead of searching ahead as the code does; `nested` says
whether block comments nest.

### TypeInference and Describe

`TypeInference` has no variables: the table of `from_system_type_name`, type equality,
the `accepts_` predicates, and the entries of `impl_type_checking!` as lists under the
build's features. How sqlx searches them (exact match before compatible, the main list
before the sections) is external; the comments at `type_info.rs` 361-372 say the same.
Rust types of different crates with the same role are one *kind*. `Owner`, the
reference, gives each SQL type its Rust kind by what the documentation says, without
looking at predicates or order.

`Describe` has one action per server procedure. `Statements` gives each statement as
the server sees it: for every marker whether it sees it at all and what type it
suggests, and the rows of the result's columns. The answers arrive in any order. Two
deviations it does not hide: a parameter *without* a suggested type is reported as
text, as if that were known, and the exact numerics have no Rust type a column of
theirs resolves to (it gets `i8`). The properties name both exceptions.

### TemporalCodec, ValueCodec, SpatialCodec and RoundTrip

The codecs have no variables. `Bind` and `Read` operators are the `Encode` and `Decode`
implementations of one Rust type each; the arithmetic between them is the code's, helper
by helper, and gives `None` where the code gives `None` or an error. What is abstracted:

| In the code | In the model |
|---|---|
| 10^9 nanoseconds in a second, 100 in a tick | constants `NanosPerSecond`, `NanosPerTick`; days and seconds are the real ones |
| 8 to 64 bits, mantissas of 24 and 53 | constants `Width`, `Mantissa`, in the order of the real ones (`WidthAssumption`) |
| numbers with a fraction | counted in quarters |
| text | a number with or without a decimal point or with an exponent, or a word |
| `rust_decimal::Decimal`: 96 bits, at most 28 places | `DecimalBits` bits, and halves as the finest of its places: quarters are what it has no room for (`RustDecimal`) |
| `BigDecimal`: any digits, an exponent in the text of small numbers | any number of quarters, an exponent below `PlainDecimal` of them |
| `f64::to_string`: the shortest text that reads back | the same over texts that end in a quarter, half, one, ten or hundred (`Endings`, a bound) |
| a point | a number: the codec copies coordinates and never looks at them |
| a spatial payload | its three tables and header as a record; one that ends too early has a flag |

`Values` and `Cells` say what a program can bind for each Rust type and what a column of
each SQL type can hold; they are sets without bounds (but those of the widths), of which
a run takes finite parts (`Writes`, `Rows`). Only geometries have one, `MaxNesting`: how
deep collections contain one another.

The calendars of chrono and time are those crates', so their dates are day numbers. jiff
has none: `unix_days_from_date` and its inverse are the driver's own calendar arithmetic
and are modelled to the letter. `RoundTrip` holds it against `CalendarDay`, which counts
days by the leap year rule.

`RoundTrip` follows one value:

| Variable | In the code |
|---|---|
| `written`, `argument` | the value a program binds, and the `MssqlArgumentValue` made of it |
| `row` | a column's `MssqlTypeInfo` and the `ColumnValues` of a cell |
| `reader`, `result` | the type a cell is read as, by `try_get`, `try_get_unchecked` or the Any driver, and the outcome |

`Bind` is `Arguments::add` with the value's `Encode`, or `null_like`. `Execute` is the
server: it inserts the argument into a column of the type the Rust type is described as
(`Type::type_info`), nullable or not, and fails when the value does not fit or there is no
implicit conversion. What it converts, and that a geometry of one point or segment comes
back in its short form, is external. A run starts with `Bind`, or with a row that
somebody else wrote, of any type the driver models or of `vector`. `Get` and `GetAny` end it.

The two decimal types share their code and differ in their crates: `BigDecimal` keeps
every digit and reads exponents; `rust_decimal::Decimal::from_str` refuses an exponent and
a number beyond its 96 bits, and rounds the places it has no room for.

The properties name what the code does *not* do. These gaps are real. Four of them
contradict what the repository says: the first is a finding with a run of its own, the
others are exceptions that the properties name:

* time reads a `datetimeoffset` with its offset applied twice (`OffsetTwice`,
  `offset_applied_once`);
* `rust_decimal` rounds a `decimal` or `float` with more places than it keeps, although
  `decimal.rs` 3-4 promises the exact scale (`Lossy`);
* the text of a small `BigDecimal` has an exponent (`1E-7`), which the server refuses for a
  `decimal` column, although `bigdecimal.rs` 6-8 says every value converts
  (`SentWithExponent`);
* the Any driver cannot read nullable integers, money and dates at all, although
  `any.rs` 262-263 calls text a lossless carrier for them (`AnyReadsItsKinds`);
  a GUID it reads as its raw bytes taken for text.

The others contradict no text of the repository:

* `rust_decimal` fails on a number that is too large for it, `decimal(38, 0)` or `float`,
  and on a text with an exponent, though it accepts the column (`BeyondDecimal`);
* chrono stores dates before 1970 and cannot read them back (`BeforeEpoch`);
* a polygon without an exterior ring that has interior ones comes back with an interior
  ring as its exterior (`HasNoExterior`);
* an integer read from text or a decimal with a point goes through `f64` and is wrong
  beyond 2^53, as is money read as a decimal (`Lossy`);
* some columns are accepted and none of their cells can be read: `datetime` and
  `smalldatetime` by time and jiff, `real`, `float` and money by the integers, `vector` by
  whatever accepts bytes and by the Any driver (`MayFail`, `AnyReadsItsKinds`);
* some values of `i8`, `u16` and `u32` do not fit the columns these are described as: a
  `tinyint` has no -1, a `smallint` no 40000 (`Fits`).

## 3. Runs

| Run | Shows | Bounds |
|---|---|---|
| `conn_recover` | under every fault: a rollback is queued only at depth 0; and until a read breaks off or a future is dropped at an await, both flags record what is left over, statements start on a clear wire in a clear transaction, and the lazy rollback happens | 3 handles, 4 points, 2 writes |
| `conn_promise` | refinement of `NestedTransactions`; each handle's writes lie between its savepoint and the next | 3 handles, 5 points, 3 writes |
| `conn_inner_drop` | *violated*: dropping an inner handle loses the outer one's work, and its commit returns Ok | 2 handles |
| `conn_commit_half_read` | *violated*: commit and rollback go out over a half-read answer | no faults |
| `conn_cancelled_undo` | *violated*: a caller that gives up during the lazy rollback leaves the transaction open and forgotten | 1 write |
| `mig_locked` | under the lock: current lists, atomic pairs, no gaps, everybody gets done; without it: no migration takes effect twice | 2 migrators, 3 migrations; one without a transaction, or none and no lock, with skips |
| `mig_failed_rollback` | *violated*: after a failed rollback the connection cannot begin again | 1 migrator, 1 migration |
| `markers_scan` | exactly the markers are rewritten, those T-SQL sees as long as comments do not nest; parameters and arguments agree | statements up to 6 of 8 characters, up to 2 arguments |
| `describe_types` | declarations and reported types belong to their marker, column types to their column; hidden columns leave no gap; the macros take the owning Rust type | every type by itself, 2 markers of 7 kinds of types, 3 in all orders; columns up to 3; 8 builds |
| `roundtrip` | what is stored means what was bound; what fits is stored and comes back, shapes with all their rings and parts; nothing is misread, by any of 32 Rust types, checked or not, or by Any, no shape that somebody else stored either; accepted columns can be read, but for the gaps named | every value and cell described below, every column type, nullable or not |
| `offset_applied_once` | *violated*: time reads the instant of a `datetimeoffset` wrong | the same |
| `markers_nested` | *violated*: a `?` in the rest of a nested comment is rewritten | statements up to 9 of 3 characters |

**Why the bounds are enough.** Three handles give an inner handle that is neither the
first nor the last; five points let a name be used twice on two levels; three writes
put one between any two points. Two migrators already race; three migrations have a
first, a middle one without a transaction and a last. A migration's runs are counted
to 2. Six characters hold every delimiter with its doubled form and a marker on either
side; three parameters have an order that no single exchange restores, and every type
name the driver knows is described alone as parameter and as column; the shortest closed nested comment with a marker has nine.

For `roundtrip`, widths of 2, 3, 5 and 8 bits with mantissas of 4 and 7 keep every order
the conversions depend on: an 8 and a 16 bit integer fit any float, a 32 bit one an `f64`
only, a 64 bit one neither. Numbers lie on, below and above each limit, with a fraction
below and at one half. `rust_decimal` has 9 bits (`DecimalBits`), one more than the widest
integer, as its 96 are more than 64; decimals, texts and floats lie on, below and above the
largest number it holds with halves and without. Of `BigDecimal`s the smallest has an
exponent in its text and the next has none (`PlainDecimal` is 2). A second has 1000 nanoseconds and a tick 10, so that a time can end
between ticks; days are the first and last of the calendar, the ends of a century, of a
leap century and of an era of 400 years, of February, and those around 1900 and 1970;
times the first and last of a day and those with one part zero; offsets cross the date
line in both directions; chrono's times include a leap second at the end of a day.
Geometries have every kind with none, one and two parts, polygons with no ring, an empty
exterior, an empty interior between two others, and collections in collections beside
siblings (`MaxNesting` is 3, one level more than the deepest of them). Every column type
has a NULL. What differs only in size repeats these cases: every loop of the format runs
over parts it treats alike, and offsets count from tables already filled by a sibling.

**Faults excluded, and why.** `conn_recover` has them all. Its recovery properties are
said of an execution until `broken` is set, because after a broken read or a dropped
future the code does *not* keep them (`conn_cancelled_undo` shows it for the rollback; a
failed or cancelled read in `exec_sql` sets no flag); `QueuedMeansOutside` and the types
hold throughout. `conn_promise` excludes what the promise cannot survive: those two, an
aborted transaction, a refused savepoint (its handle's drop undoes every level), an
inner drop. The lockless scenario of `mig_locked` has every migration in a transaction: without one, nothing
stops two lockless migrators from running it twice.

**Fairness.** `Answer` (weak): the server answers every request and the caller reads
on. `Collect` (weak): a pooled connection is pinged at each checkout
(`connection.rs` 801-809 says so), so an idle one is used again; without this the lazy
rollback need never happen, and its locks stay. In `Migrations`: statements are
answered (weak); a waiting session gets the lock in turn, as SQL Server's lock queue
does (strong, since the lock comes and goes); a process that rests eventually ends its
session (strong, since it may start again first). The last is an assumption about
processes, not about the driver: a failed migrator in a process that never ends keeps
everybody waiting. Crashes have no fairness.

`CHECK_DEADLOCK FALSE` appears where the system really stops: a closed connection, a
statement that is scanned or described, a value that is read.

## 4. What is proved

`MssqlConnectionProofs`, for any number of handles, savepoints and writes:

* `TypeCorrect`: `Spec => []TypeOK`, under every fault. It includes that the depth,
  a `usize` that is decremented in two places, never goes below zero.
* `QueuedMeansOutsideHolds`: `Spec => []QueuedMeansOutside`, under every fault.
* `RecoveryHolds`:
  `Spec => [](StatementsStartClear /\ HalfReadIsFlagged /\ AbandonedIsQueued /\ NothingJoinsAbandoned)`,
  under every fault; each of the four is said until `broken` is set.

None of the properties is inductive. `QueuedMeansOutside` fails to be preserved from a
state in which a rollback is queued while a commit is under way, which no execution
reaches; `CallShape` says which call can be in which await with which depth and flags
(for instance, a commit is sent only at depth 1, and no rollback is queued while a
request is out), and `TypeOK /\ CallShape` is inductive. For the recovery properties
`Recovery` adds what connects the flags to the wire and the server: an unread answer
outside a draining call is flagged; a draining call has taken the flag; at depth 0 an
open transaction is queued or being undone; and the depth never exceeds the number of
handles. `IInv` is the types, the shape, and `~broken => Recovery`. The lemmas state what
`Front`, `Merged`, `Charged`, `RolledBackTo` and `Serve` return.

`MigrationsProofs`, for any number of migrators, versions and lock calls, and any mix of
scenarios:

* `TypeCorrect`: `Spec => []TypeOK`.
* `SeenIsCurrentHolds`, `RecordedInOrderHolds`: `Spec => []SeenIsCurrent` and
  `Spec => []RecordedInOrder`, under every fault but an ignored lock status, which both
  properties name. All three jobs may be mixed.
* `AppliedIffRecordedHolds`, `RanAtMostOnceHolds`: `Spec => []AppliedIffRecorded` and
  `Spec => []RanAtMostOnce`, under every fault; the lock need not be held at all, so what
  is proved of migrators without it is that the primary key is enough.

The properties say nothing of transactions that are still open, so none is inductive. The
invariant adds, in this order: who is between lock and unlock owns the lock (`LockShape`);
a migrator with a job has a target for it (`JobShape`); a transaction holds the
statements of the pair that ran so far, at depth 1, and a pair runs without one only where
it opted out (`PairShape`); a version that is being inserted is not recorded, and nobody
else inserts it (`InsertShape`, the primary key); what is not recorded has not run, and
the reverse (`RanShape`, `RecordedRan`); whoever may change the record knows it
(`SeenShape`); and the record is `1 .. n` (`OrderShape`). Two lemmas carry the argument.
`DbStep` says that the record changes in two places only, each time by the target of the
migrator that steps. `RecordKeepsOrder` says that this target is the number after the
record, or its last.

The second half of `MssqlConnectionProofs` is about savepoints, for any number of handles,
savepoints and writes:

* `SavepointsHold`: `Spec => [](~broken => SavepointsHoldWork)` if `Undisturbed`:
  until an answer breaks off or a future is dropped at an await, the writes of each handle lie between
  its savepoint and the next.
* `ImplementsPromise`: under the same condition, and with no fault but a refused BEGIN,
  which leave nothing to set `broken`, `Spec => KeepsPromise`: the connection implements
  `NestedTransactions`, mapped by `work` and `durable`.

`Undisturbed` says what is excluded, and each exclusion is a behaviour of the code that
breaks the promise: a refused savepoint and an aborted transaction end in a rollback that
undoes every level, an inner handle that is dropped does the same (`conn_inner_drop`), and
a commit or rollback can be refused for an answer left on the wire
(`conn_commit_half_read`, `ClientDrains`). The invariant `Aligned` says that the depth
counts the open handles and that the marks of the server's transaction are *levels* of
them: a BEGIN first, then one savepoint for each handle in order, each the last of its
name, so that ROLLBACK to that name reaches it. A repeated name is what makes this hard:
two savepoints of one name exist when a level was committed, which sends nothing, and
opened again. `LevelsOfBegin`, `LevelsOfSave`, `LevelsOfMerge`, `LevelsOfRollback` and
`LevelsOfWrite` show it for each request. The refinement goes step by step in `NextAligned`: an
answer to BEGIN, SAVE, COMMIT, ROLLBACK or a write is the promise's `Begin`, `Commit`,
`Rollback` or `Execute`, and every other step stutters.

`ParamMarkersProofs`, for statements of any length over any characters:

* `TypeCorrect`, `MarkersAreRewritten` (`RewritesTheMarkers`) and `ArgumentsAreUsed`
  (`EveryArgumentIsUsed`).
* `OnlyNestingDiffers` (`ReadsAsTSQL`): where T-SQL sees no comment within another, the
  scanner rewrites exactly the markers T-SQL sees. So nested comments, the finding of
  `markers_nested`, are all that is wrong with it.

The invariant `Scanned` says that whenever the scanner looks at a character, the reference is in plain code there: a
jump never lands inside a token. One lemma for each branch (`LineSkips`, `BlockSkips`,
`QuotedSkips`, `OtherSkips`) shows that the reference, character by character, arrives
where the jump does. `Reading` and `QuoteEnd` are recursive functions, of which TLA+ knows
at first only that they are a `CHOOSE`: that functions with their equations exist is proved first
by extending one by a character at a time (`Reaches`, induction up to a number).

`DescribeProofs`, for any statements, answers and builds:

* `TypeCorrect`; `DeclaredInTurn` (`DeclaredInOrder`): in whatever order parameters are
  named, sorting them by ordinal gives one list, the ascending one (`SortedIsOrder`).
* `TypesAreTheirMarkers` (`TypesMatchMarkers`): when as many parameters are named as there
  are markers, that list is 1, 2, 3, ... (`AscentIsIdentity`), so the k-th type is the k-th
  marker's; when not, none is reported.
* `OnlyVisibleColumns` (`VisibleColumnsOnly`), by an invariant of the loop over the rows.
* `OwnerTaken`: in each of the 128 builds, any set of features, the search of the macros
  ends at the documented owner of a type; TLC tries 8 builds. From it
  `OwnersAreReported` (`ReportedTypesAreOwned`) and `ColumnsHaveOwners` (`ColumnsAreOwned`),
  for columns stored as their nullable types too.

`RoundTripProofs` and `ReadingProofs`, for any widths, units of time and sets of values
and rows that the assumptions allow, so for 64 bits and nanoseconds too:

* `TypeCorrect`; `AnyReads` (`AnyReadsItsKinds`): the Any driver reads every cell of a type it
  has a kind for, but no vector, and every GUID as some text.
* `StoresMeaning` (`StoredAsMeant`): whatever is stored for a value means that value.
* `StoresWhatFits` (`StoredIfItFits`): only what the column cannot hold,
  or a `BigDecimal` whose text has an exponent, is refused, and every NULL is stored.
* `ReadsBack` (`ComesBack`): a value read as the type that wrote it comes back, NULL as
  NULL, moments down to the tick. It holds for each of the 32 types but the spatial two, in
  nullable columns and others, checked or not, or by Any.
* `ReadsShapesBack` (`ShapesComeBack`): so does any geometry or geography: its reference
  system, its kind, all its points, rings and parts, collections in collections to any depth.
  What does not come back is what the property names (`HasNoExterior`), and `Normal` says what
  the format has no room for: empty interior rings, and that a `Line` is not a `LineString`.
* `DaysRead`: each day number a column can hold is read by jiff's arithmetic as the date of
  the calendar, and sent back as the same number.
* `ReadsMeaning` (`NothingMisread`): any cell of any column, read as any type but the
  spatial two, checked, unchecked or by Any, gives the value that is in the cell or none;
  what a float gives is within a unit of its last place, and a decimal read from a float is
  one that reads back as it. The exceptions are those the property names (`Lossy`: text and
  money through `f64`, and the places `rust_decimal` rounds; `OffsetTwice`; and `String` of
  what is no text).
* `ReadsShapes` (`ShapesNotMisread`): any cell read as geometry or geography, whoever stored
  it, gives the shape that is laid out as the one in the cell, or none. It has a hypothesis
  on what others have stored, `RowsLaidOut`: a payload this driver can decode is laid out as
  the driver and the server lay one out. Without it the property says too much (two figures
  may be stored in another order and mean the same shape), and of payloads that cannot be
  decoded it asks nothing; the rows of `roundtrip` satisfy it. Of what a program stored
  through the driver nothing is assumed.
* `ReadsWhatFits` (`ReadIfItFits`): a checked read fails for a reason in `MayFail` only,
  for the spatial types too. `MayFail` has `rust_decimal`'s range and its refusal of
  exponents (`BeyondDecimal`), and the `vector` column.

The invariant says what is known of the value at each place on its way: an argument is
what `Bind` makes of the value (`Sent`), a cell is one the server stores for it or one of
the column's own (`Stored`), a refusal has its reason (`Refused`), and an outcome is what
reading the row gives (`ReadAs`). The properties follow from lemmas about the codecs. For
moments the argument is the UTC day and the nanosecond of the day (`MomentSent`), whichever
crate it comes from; that its cell means the same is then division by a tick (`FloorIs`), and
that it comes back is `DateRead` and `TimeRead`, the readings of any day and any time of a
column. Both rest on the calendar: `CalendarAgrees` says that the driver's eras of 146097
days that begin in March count the days of the leap year rule for every civil date of any
year, negative ones too; `DateFound` that the inverse finds the date again (no day of an era
belongs to two years, `YearFound`, nor to two months, `MonthFound`); and `EveryDay` that no
number is skipped.

Reading any cell as any type is 32 types by 32 columns, a `vector` among them. Two facts split it. A cell is known
by its tag (`CellsKnown`, `StoredKnown`: what a program stored is no different from what
others have), so that what its column is called matters no more; and each tag has one set
of *views*, its text, number and bytes (`NumbersViewed`, `TextsViewed`, `BytesViewed`),
from which all the types decode. What rounding does to a number is proved once: the result
is the nearest multiple of a power of two (`RoundedIs`), which leaves numbers of up to the
mantissa's bits alone (`RoundedExactly`), keeps whole numbers whole (`RoundedWhole`, the
guard `value % One = 0` of the text of integers), and is off by half a unit of the last
place at most (`RoundedNear`). An `f32` is read through an `f64`, so rounded twice:
`NearTwice` shows that the two errors stay below one unit. A decimal is read from the *text*
of a float: that there is a shortest one that reads back (`NearestExists`, `FloatTextIs`) makes
`BigDecimal`'s value a number that rounds to the float. A float of no more digits than its
mantissa is its own text (`FloatTextExact`), and one whose text `rust_decimal` refuses is
itself beyond its range (`FloatRefused`). For the 1/300ths of a second of
`datetime`, `ThirdsOfHundredths` shows that the driver's count in nanoseconds and the
reference's in hundredths truncate alike, which takes a second that is a whole number of
hundredths.

Shapes need an induction on the data. `SpatialProofs` has it, for any `MaxNesting`, in
four steps.

* *Recursion.* No prover expands a recursive function, so `EncodeGeometryIs`,
  `BuildShapeIs`, `NormalIs` and `PolygonsOfIs` first show that each satisfies its own
  equation: a function that does is built one level of nesting after the other, and for
  `BuildShape` from the end of the table of shapes, since a child always comes after its
  parent (`ChildrenComeAfter`). This is the reason why `SpatialCodec` hands `EncodeGeometry` and
  `build` on as arguments, and why each recursive case stands under `OTHER`: the prover
  reads a recursion in any other arm of a `CASE` wrongly.
* *Tables that go on.* `Sound` says what the encoder keeps of its tables: figures share out
  the points in order, a shape follows its parent. `Grown` says what one geometry adds: a run
  of points, figures and shapes with one shape on top, and interior rings only after an
  exterior one. `Follows` says when tables go on from others without a new child for these
  shapes.
* *Readers.* In all tables that follow, a figure is read as it was pushed (`FigureIsRead`;
  that it ends at the next *higher* offset is used here), a polygon with the rings it had
  (`PolygonIsRead`), and a shape has the children its parts became, in order (`ChainFollows`).
* *Induction.* So every geometry comes back wherever it is put (`GeometryComesBack`, by
  `GeometryInduction`), also when it is the only one and the server has sent its short form
  (`ExpandedIs`), and what comes back is encoded as what was written (`NormalIsSame`).

`NoExterior` enters at one place, `PolygonIsRead`: without an exterior ring the figure that
is taken for it has the offset of the first interior one.

The invariants were checked by TLC before they were proved, and every property a theorem
names is checked by a run. Assumed are the
named `ASSUME`s of the modules: that `None` is no migrator, that
bounds are natural numbers, the types of the constants that select faults, the
client's behaviour and scenarios, the order of the widths, that a `Decimal` has more digits than an
`i64` (`DecimalAssumption`), that a tick and a hundredth
divide a second (`WidthAssumption`, `UnitsAssumption`), and that rows and values are of their
column's or Rust type (`RowsAssumption`, `WritesAssumption`).

Only model-checked:

* the liveness properties, `AbandonedIsUndone` and `EveryJobEnds`: fairness and `ENABLED`
  are beyond the prover;
* what the runs that expect a violation show.

Every property of a passing run also has a mutant in `PROJECT.json`: an operator
named `Slip...` that a plausible mistake would put in place of the real one, and under
which TLC finds the property violated.

## 5. Not modelled

Databases, schemas and the quoting of names in `migrate.rs`; connect options; errors,
rows, columns; macros and CLI: they keep no state and have no behaviour beyond wording,
parsing and access. The forwarding half of the Any driver, which holds a connection and
calls it. Lengths, precisions and scales of types: no decision of the driver looks at
them; a column of a time is taken to have scale 7, the driver's own. In the codecs, the
order of bytes, the transcoding of text and the digits of GUIDs; which scale a decimal's
text shows, beyond whether it has a point; and the exponents `BigDecimal` writes for numbers
with many trailing zeros. The crates around the driver (chrono, time, jiff's types, bigdecimal, rust_decimal,
serde_json), `f64`'s conversions and the server's are external: modelled from how the code uses
them. Isolation and locking
inside the server are not modelled: the driver never relies on them, except for the
wait of an insert on an uncommitted duplicate key (`Blocked`).

## 6. Plan

Modules, most important first:

1. *(done)* `NestedTransactions`, `MssqlConnection` and its proofs: recovery and
   transactions are where the driver keeps state across calls.
2. *(done)* `Migrations` and its proofs; 3. *(done)* `ParamMarkers` and its proofs.
4. *(done)* `Describe` and 5. *(done)* `TypeInference`, and their proofs.
6. *(done)* `TemporalCodec`, `ValueCodec`, `SpatialCodec`, driven by `RoundTrip`, and its proofs.
7. A composition of `Migrations` over the recovery state of `MssqlConnection`: a
   migration's connection that comes from, and goes back to, a pool.

Every safety property and the refinement have their theorems; 7 is what is left.
