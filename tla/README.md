# A TLA+ verification of mineSQL

mineSQL is a SQL engine (Go) that keeps its rows as blocks of a Minecraft world
and reaches them through a plugin (Java) over TCP. This directory holds TLA+
modules of its core, TLC runs on small instances, and TLAPS proofs for all
values of the constants. `PROJECT.json` lists the runs, the mutants, the source
lines behind each definition, the findings, the hazards and the theorems.

## 1. The system

| component | state | operations | talks to |
|---|---|---|---|
| wire server, chat server (`internal/wire`) | a listener, a goroutine per connection | handshake, read a query, execute it under transaction 1, reply | parser, executor |
| `/sql` command (`QueryHandler.java`) | one connection per command, connect and read timeouts | send a line, read a line, tell the player | chat server |
| parser (`internal/parser`) | none | parse tree to statement | executor |
| executor (`internal/executor`) | none | CREATE TABLE, INSERT, SELECT, DELETE, WHERE | storage |
| codec (`internal/storage/codec.go`) | none | integers, booleans, null and text to banners and signs, and back | storage |
| row storage (`internal/storage`) | row count of each table (`Storage.mu`) | InsertRow, SeqScan (goroutine and channel of 100), MarkDeleted | log, HAL |
| catalog (`internal/storage`) | tables, nextCatalogZ, nextTableID; barrels at Y=10 | CreateTable, LoadCatalog | HAL |
| write-ahead log (`internal/wal`) | nextLSN (`WAL.mu`); a lectern per LSN at Z = -LSN | Append, Commit, Recover | HAL |
| HAL client (`internal/hal`) | one connection, one mutex | six block operations, redial | plugin |
| plugin (`minesql-hal`) | sockets, chunk futures, the server thread's task queue, the world | the handlers of the six operations | the world |
| main (`cmd/minesql`) | root context, error channel | recover, load catalog, serve, shut down | all |

One INSERT is: reserve a slot under `Storage.mu`, force-load the chunk, allocate
an LSN under `WAL.mu`, write a PENDING book, write the strip of blocks in one
batch, read the book back, write it COMMITTED. A DELETE scans, and does the same
for the two xmax banners of each row it picks. Each of these is a separate HAL
call, so sessions interleave between any two of them, any of them can fail with
or without having had its effect, and the process can die after any of them.

Hard behaviours and the properties that answer to them:

* concurrent statements over one log and one slot counter: `LogIntact`,
  `EntryKept`, `WriteAhead`, `SlotExclusive`, `AckedVisible`;
* scans that run while rows are inserted and deleted, over a bounded channel:
  `SelectExact`, `NoPhantomDelete`, `StatementsFinish`;
* crashes between the log, the data and the commit: `CommittedApplied`,
  `DeletedStaysDeleted`, `RecoveredPrefix`, `RecoveryFinishes`;
* concurrent CREATE TABLEs under a mutex that is held during a HAL call, with
  lost acknowledgements and refused writes: `IdsUniqueUnlessFailed`,
  `AckedKnown`, `KnownIsStored`, `CatalogAvailable`;
* one connection without request numbers, redialled after errors, with requests
  that outlive their sender, to a plugin that comes and goes:
  `ImplementsDevice`, `CallsFinish`;
* two DELETEs on one row, INSERTs that are deleted before they are acknowledged:
  `ImplementsTable`;
* values at the edge of a type, a sign line or an encoding, clauses that the
  parser or the comparison does not know: `ImplementsSql`, `TextsWellFormed`,
  `DeletesOnlyMatches`;
* answers that must match their questions, timeouts that race late answers, HAL
  calls that are never answered, a shutdown with statements in flight: `InStep`, `SuccessIsTrue`, `CommandsAnswered`,
  `QueriesAnswered`, `StoppedTrue`.

## 2. The modules

| module | models |
|---|---|
| `RowStore` | InsertRow, SeqScan, MarkDeleted, the log and recovery, the statement loops, crash, restart, cancelled context |
| `RowTable` | abstract: the life of a process's rows; `RowStore` implements it |
| `RowStoreProofs`, `RowTableProofs`, `RowScanProofs` | the theorems about `RowStore`: log and slots; rows, markers and `RowTable`; SELECT |
| `Catalog` | CreateTable, GetTable and LoadCatalog |
| `BlockDevice` | abstract: what `hal.Storage` promises |
| `HalLink` | client, network and plugin; implements `BlockDevice` |
| `Values` | constants, clauses and statements of the parse tree; text as bytes |
| `Codec` | codec.go, the conversions of storage.go, the plugin's UTF-8 round trip |
| `SqlTable` | abstract: what a client may expect of a statement |
| `Statements` | parser, row layout, WHERE evaluation, executor; implements `SqlTable` |
| `Servers` | main, wire server, chat server, the `/sql` command, wire clients |
| `CatalogProofs`, `HalLinkProofs`, `ServersProofs`, `CodecProofs`, `StatementsProofs` | the theorems about the module of that name |
| `MCRowStore`, `MCCatalog`, `MCHalLink`, `MCStatements`, `MCServers` | instances for TLC |

### RowStore

State: the world (`lectern`, `strip`), the engine (`phase`, `nextLSN`,
`rowCount`, Recover's position, `ctxDone`), per session a program counter, the
locals of its statement, its scan goroutine and its channel, and history
variables that no guard reads.

Every HAL call is one action and every critical section is one action. The
correspondence for an INSERT:

| action | code |
|---|---|
| `StartInsert` | executeInsert, the critical section of InsertRow |
| `LoadRowChunk` | InsertRow's ForceLoadChunk |
| `AllocLSN`, `AppendWrite` | Append |
| `InsertWrite` | InsertRow's BatchWrite |
| `CommitRead`, `CommitWrite` | Commit |
| `Reply` | the answer to the client |

A HAL call ends in one of the `Outcomes`: `ok`, `refused` (an error and no
effect), `noack` (the whole effect and an error), `torn` (an error after some of
the blocks). The last one is an exception in the middle of handleBatchWrite.

What is abstracted. A row is the serial number of its INSERT; a WHERE clause is
the set of rows it accepts; a strip has four groups of blocks in the order in
which they are written (xmin, the two xmax banners, the columns), and
`XmaxValue` is what `DecodeInt64` returns for a pair of which only one half has
been written. A force-load directly before another call of the same function is
folded into that call. The two reads of MarkDeleted are one step, because only
the presence of banners is tested and banners never disappear. The `row` of an
UPDATE_XMAX book is history. A scan goroutine whose consumer has returned an
error is dropped: from then on it only reads. Effects that come after their call
has failed are left to `HalLink`.

`RowTable` has four sets: the rows that are present, dead, acknowledged and
acknowledged as deleted. A row appears once and whole, a delete marks a row that
is present, and success is reported only of what has happened. The mapping takes
the rows numbered above `base`, those of the running process: a row is present
when its slot holds its columns, dead when both xmax banners hold the
transaction. A restart empties all four sets, which is honest about the code:
what a new process makes of older rows is not promised (`rows_restart`).

### Catalog

Sessions compete for `Storage.mu`. CreateTable holds it across its one HAL call:
`CreateTable` is the part before the call, `CreateWrite` the call and the rest;
`CreateExists` and `GetTable` need the mutex for one step. A crash leaves a write
in flight done or not done. LoadCatalog runs alone and has one action per barrel.
Columns are left out. Barrels hold what CreateTable wrote, so the branches of
LoadCatalog for rows that do not parse are not reachable and not modelled.

### Statements and SqlTable

One request after another, without failures: `Receive`, `Execute` (one of the
four statements, from the parse tree to blocks and answer) and `Reply`. A strip
is the sequence of its blocks, a banner its six bytes, a sign the bytes of its
joined lines; decodeStrip really decodes what InsertRow encoded, through the
plugin's conversion of sign data to a Java string and back.

`SqlTable` has the declared columns and the rows as sequences of values. The
mapping takes for `rows` what a scan decodes; the history variable `shown` holds
that scan so that it is computed once per step, and `TypeOK` states that it is
the scan. The promise is SQL's for the constants that `Fits` its column type and
the clauses that are `Understood`: conjunctions of comparisons of a known column
with a constant of its type. Outside of that it says less, because the code does
less: integers beyond int32 and numbers with a fraction or an exponent arrive as
strings and are stored as 0, NULL is stored as 0, false or the empty text, `<>` and
comparisons of booleans never hold, text that `strconv.ParseFloat` accepts (`9.0`,
`+9`, `1e3`, `inf` and the like) is compared as a number, OR and NOT are dropped, of two columns
with one name a clause means the last and a target list the first, and an INSERT
that names a column twice stores the later value. What remains is that an INSERT
adds one row and touches no other, a SELECT changes nothing, a DELETE counts what
it removes and removes at least what it should.

Bytes of a banner count to `Radix` and sign lines have `SignLineLen` bytes, so
that int32 and int64 stay within TLC's integers and texts short; the code's 256
and 16 are other values of the same constants, and the proofs cover them. What a
client can send is `SqlStatements`, any parse tree of statements over characters
of one or two bytes. CREATE TABLE
makes the one table t; several tables are the subject of `Catalog` and `RowStore`.
An int64 is a signed word and an unsigned one, because the provers cannot compute
with powers of 256 beyond the fourth.

`strconv.ParseFloat` is a constant, from texts to whether it accepts the text, whether
the result is NaN, and its value in units of 1/`FloatUnit`. `FloatAssumption` says of
it only that the digits of an integer up to `MaxExact` (2^53 for a float64) are read
as that integer; the theorems hold whatever else it accepts. `MCParseFloat` is its
instance for the texts of the run. An infinite value is a number beyond all others of
the instance, and float64's rounding does not occur: columns hold integers of 32
bits.

### Servers

A statement is one HAL call here: a task on the server thread that runs after
its call has failed, too. The call may also be left without an answer (`HalSilent`:
writeError that throws, a chunk future that fails), and its handler then waits until
the link breaks or the engine ends. In the code it holds `Client.mu` meanwhile; a call
that waits for that mutex for ever is silent itself here. Modelled are both ListenAndServe loops and the
goroutine that closes the listener; startupHandshake and the receive loop; the
chat server's handleConn; main's two selects, whose end closes everything; in
the plugin the command, its thread with its two timeouts and its message to the
player; wire clients that wait for ReadyForQuery, use the extended protocol or
disappear. Each answer carries the number of its request, which the program
does not do: it is how `InStep` can tell a late answer from the right one.

### HalLink and BlockDevice

`BlockDevice` is the promise: a call takes effect at most once and atomically, a
call that returns an answer returns the one its own effect produced, and a call
that returns an error may have had no effect, part of it or all of it, or may
have it later. `HalLink` has the mutex, dialling, sending and receiving of the
client, reading a packet, completing a chunk future and running a task in the
plugin, broken connections, engine crashes and a cancelled context. The
variables of `BlockDevice` are variables of `HalLink` under the same names
(`stage`, `answer` and `result` record what happened to each call), so the
refinement mapping is the identity. `Disable` is onDisable with stop(), which
runs on the server thread: connections closed, queued work gone, chunk tickets
taken back; `Enable` is onEnable. Response frames keep their length word,
because IsChunkLoaded reads it.

## 3. The runs

Passing runs:

| run | instance | shows |
|---|---|---|
| `rows_concurrent` | 2 sessions, 2 rows, 2 DELETEs, 1 failed call or torn batch, channel of 1 | the log and scan properties and the abstract table in all interleavings |
| `rows_recovery` | 2 sessions, 2 adjacent tables with regions of 2 slots, 2 rows, 1 DELETE, 1 crash, 1 failed call | recovery; slots of adjacent tables; the abstract table over a restart |
| `rows_liveness` | 1 session, 2 rows, 2 DELETEs, channel of 1, 2 failed calls or torn batches, 1 crash, shutdown | every statement ends, also when scanner and session wait for each other; every crash is recovered from; a scan that is cut short reports nothing twice or deleted |
| `catalog` | 2 sessions, 3 names, 3 CREATE TABLEs, LoadCatalog reads 2 barrels, 2 failed calls, 2 crashes | unique IDs, nothing forgotten, nobody locked out |
| `link_refinement` | 2 callers, 3 calls, and one each of break, exception, silence, crash, disabled plugin | the link implements the device |
| `link_liveness` | 2 callers, 2 calls, break, exception, crash, disabled plugin, shutdown | every call returns |
| `sql` | 6 schemas, 14 INSERTs, 22 SELECTs, 17 DELETEs, 2 rows | parser, codec, layout and WHERE implement `SqlTable` |
| `servers` | 1 wire client with 1 request, 1 command | answers true and in step, none missing unless a HAL call is unanswered; shutdown |

Bounds. Two sessions are enough to interleave any two steps of two statements,
and with two rows one of them is settled while the other is being written. A
channel of one slot makes the scanner block on its consumer, as 100 slots do for
a table of more than 100 rows; the liveness of a scan is checked with two rows, so
that the channel really is full. `rows_liveness` has one session: sessions share
no lock over a HAL call in `RowStore` and never wait for each other. One failure or
crash at any step covers every single-fault history; a second would only repeat recovery, which has its own
failure budget in `rows_recovery`. `MaxLSN` is one more than the books that the
statements can write, so that the log always ends in an empty lectern and
`AllocLSN` is never stopped by the bound. `MaxConns` in `link_liveness` is one
more than the events that cost a connection. Sessions and callers are symmetric
and no operator chooses among them; runs with liveness use no symmetry. In `sql`
two rows let a clause accept one and reject the other; each schema puts signs and
banners in another order, one has two columns of one name, and the constants are
at both ends of int32, one beyond it, at the length of a sign, one beyond it,
across its line ends and its cut, half a character, and the spellings of a number
that are not digits alone. In `servers` a wire
client and a command compete for the server thread, and the start, which is also
answered with ReadyForQuery, precedes the one request; two requests with all
fairness are beyond the time of a run.

Deadlock is checked except in `link_refinement`, where a request may go
unanswered and the client then really stops, and in `servers`, where everything
has ended after main has returned.

Fairness. `RowStore`: weak fairness for the steps of each session and of each
scanner (the Go scheduler runs every runnable goroutine), for recovery and for
restart (the container is started again). No fairness is assumed for new
statements, failures or crashes. `HalLink`: weak fairness for each caller and
for the plugin (handler threads run, chunk futures complete, the server thread
empties its queue) and for its return after it was disabled. A dial that may
succeed does so eventually; `DialRetry` stands for the attempts before. `Catalog`:
weak fairness for the catalog write, loading and restart, strong fairness for the
steps that take `Storage.mu`, because `sync.Mutex` hands the lock over in order
once a goroutine has waited for a millisecond. `Servers`: weak fairness for main,
the accept loops, the handler goroutines, the threads of the command with their
timers, the server thread, and clients that read what they are sent. None is
assumed for signals, requests, failed calls, lost connections or departures.

Violation runs. Each checks what `docs/spec.md` says and the code does not do;
`PROJECT.json` quotes the lines. The behaviours that TLC finds:

* `rows_restart`: INSERT is acknowledged, the engine restarts, LoadCatalog sets
  the row count to zero, and no scan reaches the row.
* `rows_replay`: crash after the PENDING book; replayInsert writes nothing and
  the entry becomes COMMITTED.
* `rows_log_gap`: session 1 allocates LSN 1, session 2 writes the book of LSN 2,
  crash; Recover stops at lectern 1.
* `sql_delete`: one row, and a DELETE with an OR clause that does not match it; the
  row is removed.

Conditions. Some properties hold only under a condition that the code does not
check, and say so:

* That a SELECT has every row it must have (in `SelectExact`) is about a context that
  has not been cancelled: a cancelled scan closes its channel without an error, like
  one that has reached the end. That it has no row twice and none that was deleted
  before holds with a cancelled context too.
* `EntryKept` holds until the first crash. After a hole in the log and a restart,
  `nextLSN` starts again at the hole and runs over the books behind it.
* `AckedVisible`, `NoPhantomDelete` and the completeness of `SelectExact` are
  about the first process of a world (`FirstInWorld`). After a restart an INSERT
  reuses the slots of older rows; when it does so between a DELETE's read of the
  old row and its marker, the new row is marked and disappears.
* The same properties, `SlotExclusive`, `ImplementsTable` and what `CommittedApplied`
  says of INSERTs require `WithinRegions`: a table with more than
  `tableZSpacing` rows is given slots of the next table.
* `DeletedStaysDeleted`, what `CommittedApplied` says of delete markers and what
  `SelectExact` says of deleted rows hold for rows of which `MarkerLasts`. An
  INSERT that reuses the slot of a deleted row after a restart writes the xmax
  banners before the columns; when its batch is torn between them, the deleted
  row is visible again. Without torn batches markers last over every restart,
  and with them those on the rows of the running process do.
* `AckedKnown` requires that no catalog write has failed and that there are at
  most `MaxCatalogZ` tables: a refused write leaves an empty barrel at which
  LoadCatalog stops, and LoadCatalog does not read past `maxCatalogZ`.
* `IdsUniqueUnlessFailed` requires, over restarts, that no catalog write has
  failed: when the acknowledgement of one is lost its barrel stays, the next
  table gets the same ID, and after a restart both are known.
* `CallsFinish` is checked with `MaxSilent = 0`. A chunk future that completes
  exceptionally, or an exception without a message, leaves a request without an
  answer, and the caller waits with the mutex held.
* `QueriesAnswered` excludes behaviours in which a HAL call is left without an answer,
  for the same reason. `CommandsAnswered` does not: the socket timeout of `/sql` ends
  the command whatever the engine waits for.
* `InStep` is about clients that keep to simple queries. Each message of the
  extended protocol is answered with its own ReadyForQuery.
* `SuccessIsTrue` has no counterpart for failures: a statement reported as failed
  after a timeout or a broken link may take effect.
* `StoppedTrue`: after a signal, main waits for one of its two servers and says
  that all have stopped.
* `BlockDevice` lets a failed call have its effect later: the plugin executes a
  request that it has queued even when the connection, or the engine, is gone.
* IS_CHUNK_LOADED is not among the operations of the runs, and the theorem about
  the refinement excludes it. The engine never calls it, and `Decode` shows that
  the client would take the first byte of the length word for the answer
  (client.go:175) and break the refinement.
* `torn` is among the `Faults` of `rows_concurrent` and not of `rows_recovery`,
  where it would make `MarkerLasts` false of the older rows. The theorems cover
  it together with crashes.

## 4. The proofs

The theorems hold for any number of sessions, tables, rows, callers, calls,
clients, failures, cancellations and crashes; for any region and log length,
channel capacity and LoadCatalog limit; for any tables, constants, clauses and
requests; for the source's bytes and sign lines.

| module | theorem | statement |
|---|---|---|
| `RowStoreProofs` | `Typing` | `Spec => []TypeOK` |
| | `LogIntactAlways` | `Spec => []LogIntact` |
| | `WriteAheadAlways` | `Spec => WriteAhead` |
| | `SlotExclusiveAlways` | `Spec => []SlotExclusive` |
| | `RecoveredPrefixAlways` | `Spec => RecoveredPrefix` |
| `RowTableProofs` | `AckedVisibleAlways` | `Spec => []AckedVisible` |
| | `CommittedAppliedAlways` | `Spec => []CommittedApplied` |
| | `DeletedStaysDeletedAlways` | `Spec => []DeletedStaysDeleted` |
| | `NoPhantomDeleteAlways` | `Spec => []NoPhantomDelete` |
| | `EntryKeptAlways` | `Spec => EntryKept` |
| | `TableImplemented` | `Spec /\ []WithinRegions => ImplementsTable` |
| | `TableImplementedWithRoom` | `Spec => ImplementsTable`, if `MaxRows <= TableZSpacing` |
| `RowScanProofs` | `SelectExactAlways` | `Spec => []SelectExact` |
| `CatalogProofs` | `TypeCorrect`, `KnownIsStoredAlways`, `IdsUniqueAlways`, `AckedKnownAlways` | `Spec => []TypeOK`, `[]KnownIsStored`, `[]IdsUniqueUnlessFailed`, `[]AckedKnown` |
| `HalLinkProofs` | `TypeCorrect` | `Spec => []TypeOK` |
| | `LinkImplementsDevice` | `Spec => ImplementsDevice`, if `"IS_CHUNK_LOADED" \notin Ops` |
| `ServersProofs` | `TypeCorrect`, `StoppedTrueAlways`, `SuccessIsTrueAlways`, `InStepAlways` | `Spec => []TypeOK`, `[]StoppedTrue`, `[]SuccessIsTrue`, `[]InStep` |
| `CodecProofs` | `Int32RoundTrip`, `Int64RoundTrip`, `BoolRoundTrip`, `TextRoundTrip` | decoding what was encoded gives the value back |
| | `Int64NeverNull` | no integer encodes to the banners of "not deleted" |
| `StatementsProofs` | `StatementsTypeOK`, `StatementsTextsWellFormed` | `Spec => []TypeOK`, `[]TextsWellFormed` |
| | `StatementsImplementsSql` | `Spec => ImplementsSql` |

Assumptions: the `ASSUME`s of the modules. They say that the bounds are natural
numbers (not zero where the model counts to them), that the two kinds of client
in `Servers` differ, that a WHERE clause accepts rows, that the faults and
operations are among those modelled, that a byte has 4, 16 or 256 values and a
sign line more than three bytes, that requests are sequences of `SqlStatements`, and
that ParseFloat reads the digits of an integer as that integer (`FloatAssumption`). TLC evaluates them in the runs.

### The log and the slots (`RowStoreProofs`)

The inductive invariant is `IInv`, the conjunction of `TypeOK` and

* `CountInv`: a row count never exceeds the INSERTs received, which keeps every
  computed slot inside the world (`RowZType`);
* `ProcInv`: statements run only while the engine serves; Recover replays and
  commits only what it has read PENDING; the last lectern is empty, which keeps
  Recover inside the log;
* `LogInv`: an LSN in use is below `nextLSN`, and `LogIntact`. The first part is
  what makes a fresh LSN different from all others; the second is preserved
  because a session writes no lectern but its own (`LogFrame`).

`WriteAhead` follows from `IInv` step by step: an INSERT or DELETE writes blocks
at the position of its own PENDING book, and recovery at that of the book it has
just read. `SlotExclusive` needs `HomeInv` in addition: every row of the running
process lies in the counted part of some table's region, and nothing is counted
before the engine serves; then `RowZInjective` (regions are `TableZSpacing`
apart) separates a new slot from all others. `RecoveredPrefix` needs `RecInv`:
everything below the lectern that Recover reads is settled, and `nextLSN` has not
passed it.

### The rows (`RowTableProofs`, `RowScanProofs`)

`GInv` adds `SlotInv` (slots of the running process belong to one row) and
`TableInv`, which follows a row through its statements:

* `OpInv`, `InsertInv`: which statement is at which step; an INSERT has a row and
  a slot of its own, empty before the data write (in a world's first process) and
  with the row after it;
* `StripInv`: the columns in a slot are those of a row that belongs there and has
  been written, and the row is whole unless a DELETE has picked it;
* `ItemInv`, `DeleteInv`: what a scan has read and a DELETE is about to mark is a
  row of that slot and, if it is of the running process, still there;
* `BookInv`, `ToldInv`: what a book or an answer says has happened.

The invariant has the conditions `WithinRegions`, `FirstInWorld` and
`MarkerLasts` inside, not around: it is inductive in every state, and each part
claims what it can where its condition holds. That is how the conditions of
section 3 were found: without them the induction fails, and in each case there is
a behaviour behind the failure. `TableImplemented` maps every action to a step of
`RowTable` or a stutter; a data write of an INSERT is the row's appearance, the
write of both banners its death, the end of the statement the acknowledgement,
and a restart the restart. `EntryKept` needs `FreshInv`: before
the first crash every lectern from `nextLSN` on, and that of every statement
which has not yet appended, is empty.

`SelectExact` needs `ScanInv`: where the scan loop is (`LoopInv`), that what was
seen lies in slots already passed (`SeenInv`) and once only (`OnceInv`), that
each row the SELECT must report is seen or still ahead (`MustInv`), and that a
row deleted before its start is not among those seen (`MustNotInv`).

### Catalog

`IInv` of `CatalogProofs`: the session that is at the catalog write holds the
mutex (`MutexInv`); the counters cannot exceed the CREATE TABLEs received
(`BoundInv`); a known table has its row in a barrel below `Upto`, where nothing is
overwritten (`KnownInv`); the first process gives every table a fresh ID
(`FirstInv`), and while no write has failed barrels and IDs are counted in step
(`InStepInv`), without gaps or repeated names, and every acknowledged table has a
barrel (`RowsInv`). `Upto` is the number of barrels that count: the loader's
position while it loads, `nextCatalogZ` afterwards, without the barrel of a write
in flight.

### HalLink

`IInv` of `HalLinkProofs`: a request is in one place, network, chunk future or
task queue, and its effect is still to come, except that a FORCE_LOAD in the
queue is only to be acknowledged (`OnceInv`); what has not been sent is nowhere
(`UnsentInv`); what is open on the client's connection, or has come back on it,
belongs to the caller that waits there (`TurnInv`): the mutex admits one caller,
and a connection on which anything failed is not used again. With that, the
answer found in a response frame is the one the call's own effect produced. The
refinement mapping is the identity, so `LinkImplementsDevice` is one step lemma
for each action.

### Servers

`ServersInv`: the values in `errCh` and those that main has received are as many
as the servers that have returned (`StopInv`); the requests on a connection have
different numbers (`OrderInv`); a statement is unasked, unread, waiting for the
server thread or done, in this order and once (`EffectInv`); whoever is told of a
success has its effect (`DoneInv`); a client that keeps to simple queries has at
most one request under way, unread, in execution, or answered and not yet taken
(`TurnInv`).

### Codec

The mask is its own inverse; four bytes written with the most significant first
add up to the number modulo the fourth power of the radix, whose upper half
stands for the negative numbers; an int64 is two such words. `TextRoundTrip`
joins the four lines one by one, also where the text has ended before a line
starts (`NextLine`).

### Statements

`IInv` of `StatementsProofs`: the columns are the declared ones under their
normalized types (`SchemaInv`); every counted row has a strip that is `RowOK`, as
wide as SeqScan reads, banners first and well-formed texts behind them
(`StripInv`); what the table shows is what a scan returns (`ShownInv`); an INSERT
that is not answered yet has room (`RequestInv`); answers hold well-formed texts
(`AnswerInv`). `TypeOK` and `TextsWellFormed` alone are not inductive: what a
SELECT sends is well-formed because every sign on the wall is, and the plugin's
conversion made it so when the row was written (`PluginWellFormed`).

Rows, texts, clauses and column lists have any length, so that the proof needs
induction over them. The library's induction theorems cannot be used, but
well-foundedness of the numbers can: `SetInduction` derives from it that a set
with 0 and every successor of its elements has all numbers, and each induction is
about a set given by a formula. `Recursion` gives the same way a function with a
prescribed recursion. On these rest

* the offsets of `FlattenSeq` (`Flattened`), with which `RowLayout` says which
  block holds which column, and `DecodedColumn` finds it;
* the places of the banners and signs before a column (`SumUnique`,
  `BannerPrefix`, `SignPrefix`, `ColumnPlace`): InsertRow's two passes and
  decodeStrip's two counters meet at the same block for every schema;
* the decimal digits of a number, whose reading is the number (`DigitsTexts`,
  `FloatRead`), so that comparing the readings is comparing the integers (`FloatOrder`);
* texts that fit a sign: the plugin leaves each line as it is, and decodeSignData
  finds the three line ends again (`TextFits`); the order of texts is total
  (`LexTotal`);
* `Kept`, the selected elements in their order: it is the one sequence that an
  increasing enumeration of the selected places gives (`KeptSelects`,
  `KeptUnique`), which makes selecting twice selecting once and appending a kept
  element appending.

`StatementsImplementsSql` takes one step lemma for each statement.
`InsertRefines`: a scan after the INSERT returns the old rows and one more
(`ScanAppend`), whose values are the given ones where they fit (`FitsStored`).
`SelectRefines`: the conditions that the parser leaves of an understood clause
hold of a row exactly when SQL's three-valued logic makes the clause true
(`ClauseMatches`), and the columns are the named ones (`ChosenColumns`).
`DeleteRefines`: marking a row changes neither its columns nor the other rows
(`ScanMarked`), the rows that disappear are those the loop accepted, and their
number is the answer's. `CreateRefines` is the rest.

The attempt corrected the abstract table, whose promise was too strong where no
instance had looked: for two columns of one name, for a name that an INSERT lists
twice, for a text that is not well-formed, for an empty target list and for
column types without a wire type. The instances of `sql` have such cases now.

### Only model-checked

* Liveness (`StatementsFinish`, `RecoveryFinishes`, `CatalogAvailable`,
  `CallsFinish`, `CommandsAnswered`, `QueriesAnswered`): outside the prover's reach.
  Every safety property and every refinement that a passing run checks has a theorem.
* The four violation runs, which are counterexamples.

## 5. Not modelled, and the plan

Not modelled: pg_query itself (third-party; requests are its parse trees),
qualified names and CREATE TABLE without columns; floating-point columns, which
have no block at all; Recover's skip of a book that does not parse (wal.go:124), which
the engine's own books never are; the bytes of
PostgreSQL messages and socket write errors, which the servers ignore; the JSON
and the chat table of `/sql`; how a block stores a string (banner patterns, sign
lines, PDC); the threads inside stop(), of which only the effect is modelled;
the test mock, deployment files. Chunk numbers (integer division of a negative
Z) have no effect in the models: the plugin loads the chunk of a block it
touches. A scan goroutine that outlives its statement is dropped, and the counts
of two DELETEs that mark one row are not kept. The world survives every crash:
when the Minecraft server saves its chunks is not in this repository.

What is left: for `RowStore` a bound on what a second process can do to older
rows, where today only delete markers have a theorem; for `Statements` characters
of three and four bytes, which `WellFormed` knows only as the replacement
character.
