------------------------------ MODULE RowStore ------------------------------
(***************************************************************************)
(* The row engine of mineSQL: INSERT, SELECT and DELETE statements run by  *)
(* concurrent sessions (one goroutine per connection) over the block       *)
(* world, with the write-ahead log, process crashes and WAL recovery.      *)
(*                                                                         *)
(* Source: internal/storage/storage.go (InsertRow, SeqScan, MarkDeleted),  *)
(* internal/wal/wal.go (Append, Commit, Recover), the statement loops of   *)
(* internal/executor/executor.go and the start-up order of                 *)
(* cmd/minesql/main.go.                                                    *)
(*                                                                         *)
(* Granularity: every HAL call is one step, because Client.mu serialises   *)
(* the calls of one engine and the plugin runs each request as one task on *)
(* the server thread; every critical section (Storage.mu, WAL.mu) is one   *)
(* step.  A ForceLoadChunk directly before another HAL call of the same    *)
(* function is folded into that call: it changes nothing modelled here and *)
(* its failure is the other call's "refused" outcome.                      *)
(*                                                                         *)
(* Data: a row is its serial number (the order in which the INSERTs were   *)
(* received), a WHERE clause is the set of rows it accepts, and every      *)
(* statement runs under transaction 1, as both servers call Execute.       *)
(***************************************************************************)
EXTENDS Integers, Sequences, FiniteSets

CONSTANTS
  Sessions,       \* connection goroutines
  NTables,        \* tables 1 .. NTables are in the catalog
  TableZSpacing,  \* length of a table's Z region (10000 in the source)
  MaxRows,        \* bound: INSERT statements over the whole behaviour
  MaxLSN,         \* bound: lecterns 1 .. MaxLSN, the last one stays empty
  MaxDeletes,     \* bound: DELETE statements
  ChanCap,        \* capacity of SeqScan's result channel (100 in the source)
  Wheres,         \* the WHERE clauses that statements use
  Faults,         \* kinds of HAL failure that may happen
  MaxFaults,      \* bound: failed HAL calls
  MaxCrashes,     \* bound: process deaths
  MayShutdown     \* whether SIGTERM may cancel the root context

Tables == 1 .. NTables
Rows   == 1 .. MaxRows
LSNs   == 1 .. MaxLSN
MaxZ   == NTables * TableZSpacing + MaxRows
Zs     == 0 .. MaxZ

ASSUME BoundsAssumption ==
  /\ NTables \in Nat \ {0}
  /\ TableZSpacing \in Nat \ {0}
  /\ MaxRows \in Nat
  /\ MaxLSN \in Nat \ {0}
  /\ MaxDeletes \in Nat
  /\ ChanCap \in Nat \ {0}
  /\ MaxFaults \in Nat
  /\ MaxCrashes \in Nat
  /\ MayShutdown \in BOOLEAN

\* The kinds of failure: the call had no effect, it had its whole effect but
\* the answer was lost, or a batch stopped after some of its blocks.
ASSUME FaultsAssumption == Faults \subseteq {"refused", "noack", "torn"}

\* A WHERE clause accepts rows; 0 stands for a row without column values.
ASSUME WheresAssumption == Wheres \subseteq SUBSET (0 .. MaxRows)

VARIABLES
  \* the world: what survives a crash of the engine
  lectern,   \* lectern[l]: the book at Z = -l
  strip,     \* strip[z]: the blocks of the row at Z = z
  \* the engine process
  phase,     \* "down", "recover", "catalog", "serve"
  nextLSN,   \* WAL.nextLSN
  rowCount,  \* rowCount[t]: TableMeta.RowCount
  recAt,     \* the lectern Recover has reached
  recPc,     \* Recover's position: "read", "replay", "commit"
  ctxDone,   \* the root context is cancelled
  \* the sessions
  pc, op, tab, pos, row, lsn, book, where, got,
  scan,      \* the SeqScan goroutine of a session's statement
  chan,      \* its result channel
  \* history and bounds, never read by a guard of the program
  nrows, deletes, faults, crashes,
  home,      \* home[r]: the slot InsertRow reserved for row r
  base,      \* rows numbered above base belong to the running process
  acked,     \* rows whose INSERT was acknowledged
  marked,    \* rows some DELETE has handed to MarkDeleted
  deleted,   \* rows whose MarkDeleted has returned success
  skipped,   \* lecterns Recover left PENDING after a replay error
  must,      \* rows a running scan has to report
  mustNot    \* rows a running scan may not report

world   == <<lectern, strip>>
engine  == <<phase, nextLSN, rowCount, recAt, recPc, ctxDone>>
locals  == <<op, tab, pos, row, lsn, book, where, got>>
scans   == <<scan, chan>>
history == <<nrows, deletes, crashes, home, base, acked, marked, deleted,
             skipped, must, mustNot>>
vars    == <<world, engine, pc, locals, scans, faults, history>>

-----------------------------------------------------------------------------
(* The contents of the world.                                              *)

Ops == {"INSERT", "UPDATE_XMAX"}

Books == [status : {"AIR", "PENDING", "COMMITTED"}, op : Ops,
          pos : Zs, row : 0 .. MaxRows]

EmptyLectern == [status |-> "AIR", op |-> "INSERT", pos |-> 0, row |-> 0]

\* The blocks of a strip in the order InsertRow writes them: the xmin pair,
\* the two xmax banners ("null" is nullHex, "tx" the half of transaction 1),
\* and the columns (0: not written).
Strips == [xmin : {"air", "tx"}, xmax0 : {"air", "null", "tx"},
           xmax1 : {"air", "null", "tx"}, cols : 0 .. MaxRows]

EmptyStrip == [xmin |-> "air", xmax0 |-> "air", xmax1 |-> "air", cols |-> 0]

FullStrip(r) == [xmin |-> "tx", xmax0 |-> "null", xmax1 |-> "null",
                 cols |-> r]

\* The strip after the first k block groups of an INSERT's batch.
InsertBlocks(s, r, k) ==
  [xmin  |-> IF k >= 1 THEN "tx" ELSE s.xmin,
   xmax0 |-> IF k >= 2 THEN "null" ELSE s.xmax0,
   xmax1 |-> IF k >= 3 THEN "null" ELSE s.xmax1,
   cols  |-> IF k >= 4 THEN r ELSE s.cols]

XmaxBlocksHigh(s, k) == [s EXCEPT !.xmax0 = IF k >= 1 THEN "tx" ELSE @]

\* The strip after the first k banners of a delete marker's batch.
XmaxBlocks(s, k) ==
  [s EXCEPT !.xmax0 = IF k >= 1 THEN "tx" ELSE @,
            !.xmax1 = IF k >= 2 THEN "tx" ELSE @]

-----------------------------------------------------------------------------
(* Layout, decoding and visibility.                                        *)

Txid == 1

ZStartMissing(t) == 0
ZStart(t) == (t - 1) * TableZSpacing

RowZ(t, i) == ZStart(t) + i

\* decodeStrip fails unless all four header banners hold six bytes.
Decodable(s) == s.xmin # "air" /\ s.xmax0 # "air" /\ s.xmax1 # "air"

IsNull(s) == s.xmax0 = "null" /\ s.xmax1 = "null"

\* DecodeInt64 of the two xmax banners: bytes 0-5 in one, 6-7 in the other.
XmaxValue(s) ==
  CASE s.xmax0 = "tx" /\ s.xmax1 = "tx"     -> Txid
    [] s.xmax0 = "tx" /\ s.xmax1 = "null"   -> 65535
    [] s.xmax0 = "null" /\ s.xmax1 = "tx"   -> -65535
    [] OTHER                                -> -1

VisibleXmaxInclusive(s, txid) == IsNull(s) \/ XmaxValue(s) >= txid
VisibleXmax(s, txid) == IsNull(s) \/ XmaxValue(s) > txid

isVisible(s, txid) == Decodable(s) /\ Txid <= txid /\ VisibleXmax(s, txid)


-----------------------------------------------------------------------------
(* HAL calls.                                                              *)

Outcomes == {"ok"} \cup Faults

\* What one call does to the budget of failures.
Hal(o) ==
  \/ o = "ok" /\ UNCHANGED faults
  \/ o # "ok" /\ faults < MaxFaults /\ faults' = faults + 1

\* How many of the n blocks of a write are in the world afterwards.
Written(o, n) ==
  CASE o = "refused" -> {0}
    [] o = "torn"    -> 1 .. (n - 1)
    [] OTHER         -> {n}

Goto(p, l) == pc' = [pc EXCEPT ![p] = l]

-----------------------------------------------------------------------------
(* INSERT: executeInsert and InsertRow.                                    *)

NextRowCountKept(n) == n
NextRowCountTwice(n) == n + 2
NextRowCount(n) == n + 1

\* GetTable and the critical section of InsertRow: reserve a slot.
StartInsert(p, t) ==
  /\ phase = "serve" /\ pc[p] = "idle" /\ nrows < MaxRows
  /\ nrows' = nrows + 1
  /\ op' = [op EXCEPT ![p] = "INSERT"]
  /\ tab' = [tab EXCEPT ![p] = t]
  /\ pos' = [pos EXCEPT ![p] = RowZ(t, rowCount[t])]
  /\ row' = [row EXCEPT ![p] = nrows + 1]
  /\ home' = [home EXCEPT ![nrows + 1] = RowZ(t, rowCount[t])]
  /\ rowCount' = [rowCount EXCEPT ![t] = NextRowCount(@)]
  /\ Goto(p, "load")
  /\ UNCHANGED <<world, phase, nextLSN, recAt, recPc, ctxDone, lsn, book,
                 where, got, scans, faults, deletes, crashes, base, acked,
                 marked, deleted, skipped, must, mustNot>>

\* InsertRow's ForceLoadChunk; on an error the reserved slot stays unused.
LoadRowChunk(p) ==
  /\ pc[p] = "load"
  /\ \E o \in Outcomes :
       Hal(o) /\ Goto(p, IF o = "ok" THEN "alloc" ELSE "err")
  /\ UNCHANGED <<world, engine, locals, scans, history>>

-----------------------------------------------------------------------------
(* The write-ahead log: Append, the data write, Commit.                    *)

AfterAllocUnlogged == "data"
AfterAlloc == "append"

NextLSNKept(n) == n
NextLSN(n) == n + 1

\* The critical section of Append.
AllocLSN(p) ==
  /\ pc[p] = "alloc" /\ nextLSN < MaxLSN
  /\ lsn' = [lsn EXCEPT ![p] = nextLSN]
  /\ nextLSN' = NextLSN(nextLSN)
  /\ Goto(p, AfterAlloc)
  /\ UNCHANGED <<world, phase, rowCount, recAt, recPc, ctxDone, op, tab, pos,
                 row, book, where, got, scans, faults, history>>

AfterAppendNoData == "cread"
AfterAppend == "data"

Entry(p) == [status |-> "PENDING",
             op     |-> IF op[p] = "INSERT" THEN "INSERT" ELSE "UPDATE_XMAX",
             pos    |-> pos[p], row |-> row[p]]

\* Append writes the PENDING book.
AppendWrite(p) ==
  /\ pc[p] = "append"
  /\ \E o \in Outcomes : \E k \in Written(o, 1) :
       /\ Hal(o)
       /\ lectern' = IF k = 1 THEN [lectern EXCEPT ![lsn[p]] = Entry(p)]
                     ELSE lectern
       /\ Goto(p, IF o = "ok" THEN AfterAppend ELSE "err")
  /\ UNCHANGED <<strip, engine, locals, scans, history>>

\* The BatchWrite of InsertRow.
InsertWrite(p) ==
  /\ pc[p] = "data" /\ op[p] = "INSERT"
  /\ \E o \in Outcomes : \E k \in Written(o, 4) :
       /\ Hal(o)
       /\ strip' = [strip EXCEPT ![pos[p]] = InsertBlocks(@, row[p], k)]
       /\ Goto(p, IF o = "ok" THEN "cread" ELSE "err")
  /\ UNCHANGED <<lectern, engine, locals, scans, history>>

\* The BatchWrite of MarkDeleted.
XmaxWrite(p) ==
  /\ pc[p] = "data" /\ op[p] = "DELETE"
  /\ \E o \in Outcomes : \E k \in Written(o, 2) :
       /\ Hal(o)
       /\ strip' = [strip EXCEPT ![pos[p]] = XmaxBlocks(@, k)]
       /\ Goto(p, IF o = "ok" THEN "cread" ELSE "err")
  /\ UNCHANGED <<lectern, engine, locals, scans, history>>

\* Commit reads the book back and refuses one that is not PENDING.
CommitRead(p) ==
  /\ pc[p] = "cread"
  /\ \E o \in Outcomes :
       LET b    == lectern[lsn[p]]
           good == o = "ok" /\ b.status = "PENDING"
       IN  /\ Hal(o)
           /\ book' = IF good THEN [book EXCEPT ![p] = b] ELSE book
           /\ Goto(p, IF good THEN "cwrite" ELSE "err")
  /\ UNCHANGED <<world, engine, op, tab, pos, row, lsn, where, got, scans,
                 history>>

\* Commit writes the book it read back as COMMITTED; its success is the
\* success of InsertRow or of this row's MarkDeleted.
CommitWrite(p) ==
  /\ pc[p] = "cwrite"
  /\ \E o \in Outcomes : \E k \in Written(o, 1) :
       LET isInsert == op[p] = "INSERT"
       IN
       /\ Hal(o)
       /\ lectern' = IF k = 1
                     THEN [lectern EXCEPT ![lsn[p]] =
                             [book[p] EXCEPT !.status = "COMMITTED"]]
                     ELSE lectern
       /\ Goto(p, CASE o # "ok" -> "err"
                    [] o = "ok" /\ isInsert -> "ok"
                    [] OTHER -> "recv")
       /\ acked' = IF o = "ok" /\ isInsert THEN acked \cup {row[p]} ELSE acked
       /\ deleted' = IF o = "ok" /\ ~isInsert THEN deleted \cup {row[p]}
                     ELSE deleted
  /\ UNCHANGED <<strip, engine, locals, scans, nrows, deletes, crashes, home,
                 base, marked, skipped, must, mustNot>>


-----------------------------------------------------------------------------
(* SELECT and DELETE: SeqScan's goroutine and the loop that consumes it.   *)

Items == [kind : {"none", "row", "err"}, pos : Zs, row : 0 .. MaxRows]

NoItem  == [kind |-> "none", pos |-> 0, row |-> 0]
ErrItem == [kind |-> "err", pos |-> 0, row |-> 0]

\* A result on the channel: the row and its _z.
RowItemAtOrigin(z, s) == [kind |-> "row", pos |-> 0, row |-> s.cols]
RowItem(z, s) == [kind |-> "row", pos |-> z, row |-> s.cols]

NoScan == [on |-> FALSE, n |-> 0, at |-> 0, held |-> NoItem]

\* Whether a table's scan range covers the slot z.
InRange(t, z) == \E i \in 0 .. (rowCount[t] - 1) : z = RowZ(t, i)

ScanLength(t) == rowCount[t]

\* GetTable and SeqScan: the row count is read once, then the goroutine runs.
StartScan(p, t, w, kind) ==
  /\ phase = "serve" /\ pc[p] = "idle"
  /\ kind = "DELETE" => deletes < MaxDeletes
  /\ deletes' = IF kind = "DELETE" THEN deletes + 1 ELSE deletes
  /\ op' = [op EXCEPT ![p] = kind]
  /\ tab' = [tab EXCEPT ![p] = t]
  /\ where' = [where EXCEPT ![p] = w]
  /\ scan' = [scan EXCEPT ![p] = [on |-> TRUE, n |-> ScanLength(t), at |-> 0,
                                  held |-> NoItem]]
  /\ must' = [must EXCEPT ![p] = {r \in (acked \ marked) \cap w :
                                    r > base /\ InRange(t, home[r])}]
  /\ mustNot' = [mustNot EXCEPT ![p] = deleted]
  /\ Goto(p, "recv")
  /\ UNCHANGED <<world, engine, pos, row, lsn, book, got, chan, faults, nrows,
                 crashes, home, base, acked, marked, deleted, skipped>>

StartSelect(p, t, w) == StartScan(p, t, w, "SELECT")
StartDelete(p, t, w) == StartScan(p, t, w, "DELETE")

\* One turn of the goroutine's loop: BatchRead, decodeStrip, isVisible.  A
\* failed read is sent to the consumer and ends the loop.
ScanRead(p) ==
  /\ scan[p].on /\ scan[p].held = NoItem /\ scan[p].at < scan[p].n /\ ~ctxDone
  /\ \E o \in Outcomes :
       LET z == RowZ(tab[p], scan[p].at)
           s == strip[z]
       IN  /\ Hal(o)
           /\ scan' = [scan EXCEPT
                ![p].at = IF o = "ok" THEN @ + 1 ELSE scan[p].n,
                ![p].held =
                  CASE o # "ok" -> ErrItem
                    [] o = "ok" /\ isVisible(s, Txid) -> RowItem(z, s)
                    [] OTHER -> NoItem]
  /\ UNCHANGED <<world, engine, pc, locals, chan, history>>

\* ch <- result, which blocks while the channel is full.
ScanSend(p) ==
  /\ scan[p].held # NoItem /\ Len(chan[p]) < ChanCap
  /\ chan' = [chan EXCEPT ![p] = Append(@, scan[p].held)]
  /\ scan' = [scan EXCEPT ![p].held = NoItem]
  /\ UNCHANGED <<world, engine, pc, locals, faults, history>>

LoopOver(p) == scan[p].at = scan[p].n \/ ctxDone

\* The goroutine returns and closes the channel; a cancelled context ends the
\* loop the same way, without an error.
ScanClose(p) ==
  /\ scan[p].on /\ scan[p].held = NoItem /\ LoopOver(p)
  /\ scan' = [scan EXCEPT ![p].on = FALSE]
  /\ UNCHANGED <<world, engine, pc, locals, chan, faults, history>>

\* There is a result to take, while the goroutine is still scanning too.
ArrivedLate(p) == chan[p] # <<>> /\ ~scan[p].on
Arrived(p) == chan[p] # <<>>

\* One turn of the loop of executeSelect or executeDelete.
Recv(p) ==
  /\ pc[p] = "recv" /\ Arrived(p)
  /\ LET item == Head(chan[p])
         hit  == item.kind = "row" /\ item.row \in where[p]
     IN  /\ got' = IF hit /\ op[p] = "SELECT"
                   THEN [got EXCEPT ![p] = Append(@, item.row)] ELSE got
         /\ pos' = IF hit /\ op[p] = "DELETE"
                   THEN [pos EXCEPT ![p] = item.pos] ELSE pos
         /\ row' = IF hit /\ op[p] = "DELETE"
                   THEN [row EXCEPT ![p] = item.row] ELSE row
         /\ Goto(p, CASE item.kind = "err" -> "err"
                      [] hit /\ op[p] = "DELETE" -> "mark"
                      [] OTHER -> "recv")
  /\ chan' = [chan EXCEPT ![p] = Tail(@)]
  /\ UNCHANGED <<world, engine, op, tab, lsn, book, where, scan, faults,
                 history>>

\* The range loop ends when the channel is closed and empty.
RecvDone(p) ==
  /\ pc[p] = "recv" /\ chan[p] = <<>> /\ ~scan[p].on
  /\ Goto(p, "ok")
  /\ UNCHANGED <<world, engine, locals, scans, faults, history>>

\* MarkDeleted up to Append: both xmax banners have to be there.  Its two
\* reads are one step: a banner that is there never disappears again.
Mark(p) ==
  /\ pc[p] = "mark"
  /\ marked' = marked \cup {row[p]}
  /\ \E o \in Outcomes :
       LET s == strip[pos[p]]
       IN  /\ Hal(o)
           /\ Goto(p, IF o = "ok" /\ s.xmax0 # "air" /\ s.xmax1 # "air"
                      THEN "alloc" ELSE "err")
  /\ UNCHANGED <<world, engine, locals, scans, nrows, deletes, crashes, home,
                 base, acked, deleted, skipped, must, mustNot>>

\* The statement's result or error goes to the client.  A goroutine that is
\* still scanning after an error is dropped: from here on it only reads.
Reply(p) ==
  /\ pc[p] \in {"ok", "err"}
  /\ Goto(p, "idle")
  /\ op' = [op EXCEPT ![p] = "NONE"]
  /\ tab' = [tab EXCEPT ![p] = 1]
  /\ pos' = [pos EXCEPT ![p] = 0]
  /\ row' = [row EXCEPT ![p] = 0]
  /\ lsn' = [lsn EXCEPT ![p] = 1]
  /\ book' = [book EXCEPT ![p] = EmptyLectern]
  /\ where' = [where EXCEPT ![p] = {}]
  /\ got' = [got EXCEPT ![p] = <<>>]
  /\ scan' = [scan EXCEPT ![p] = NoScan]
  /\ chan' = [chan EXCEPT ![p] = <<>>]
  /\ must' = [must EXCEPT ![p] = {}]
  /\ mustNot' = [mustNot EXCEPT ![p] = {}]
  /\ UNCHANGED <<world, engine, faults, nrows, deletes, crashes, home, base,
                 acked, marked, deleted, skipped>>


-----------------------------------------------------------------------------
(* The process: start, recovery, shutdown, crash.                          *)

MaxOf(a, b) == IF a >= b THEN a ELSE b

\* Everything in memory, as a new process has it.
Volatile ==
  /\ nextLSN' = 1 /\ recAt' = 1 /\ recPc' = "read" /\ ctxDone' = FALSE
  /\ rowCount' = [t \in Tables |-> 0]
  /\ pc' = [p \in Sessions |-> "idle"]
  /\ op' = [p \in Sessions |-> "NONE"]
  /\ tab' = [p \in Sessions |-> 1]
  /\ pos' = [p \in Sessions |-> 0]
  /\ row' = [p \in Sessions |-> 0]
  /\ lsn' = [p \in Sessions |-> 1]
  /\ book' = [p \in Sessions |-> EmptyLectern]
  /\ where' = [p \in Sessions |-> {}]
  /\ got' = [p \in Sessions |-> <<>>]
  /\ scan' = [p \in Sessions |-> NoScan]
  /\ chan' = [p \in Sessions |-> <<>>]
  /\ must' = [p \in Sessions |-> {}]
  /\ mustNot' = [p \in Sessions |-> {}]
  /\ base' = nrows
  /\ skipped' = {}

\* The process dies: a kill, a panic, or main returning after a shutdown
\* while sessions are still running.
Crash ==
  /\ phase # "down" /\ crashes < MaxCrashes
  /\ crashes' = crashes + 1
  /\ phase' = "down"
  /\ Volatile
  /\ UNCHANGED <<world, faults, nrows, deletes, home, acked, marked, deleted>>

\* main connects to the plugin and calls Recover.
Restart ==
  /\ phase = "down"
  /\ phase' = "recover"
  /\ UNCHANGED <<world, nextLSN, rowCount, recAt, recPc, ctxDone, pc, locals,
                 scans, faults, history>>

\* log.Fatalf: recovery or the catalog could not be read.
Fatal ==
  /\ phase' = "down"
  /\ Volatile
  /\ UNCHANGED <<nrows, deletes, crashes, home, acked, marked, deleted>>

NextLecternKept(l) == l
NextLectern(l) == l + 1

\* Recover goes on with the next lectern, nextLSN being n.
RecoverNext(n) ==
  /\ recAt' = NextLectern(recAt) /\ recPc' = "read" /\ nextLSN' = n
  /\ UNCHANGED <<phase, rowCount, ctxDone, pc, locals, scans, nrows, deletes,
                 crashes, home, base, acked, marked, deleted, must, mustNot>>

AtEndKept == nextLSN
AtEnd == MaxOf(nextLSN, recAt)

\* Recover reads the next lectern; the first empty one ends it.
RecoverRead ==
  /\ phase = "recover" /\ recPc = "read"
  /\ UNCHANGED world
  /\ \E o \in Outcomes :
       LET b == lectern[recAt]
       IN  /\ Hal(o)
           /\ \/ o # "ok" /\ Fatal
              \/ /\ o = "ok" /\ b.status = "AIR"
                 /\ nextLSN' = AtEnd
                 /\ phase' = "catalog"
                 /\ UNCHANGED <<rowCount, recAt, recPc, ctxDone, pc, locals,
                                scans, history>>
              \/ /\ o = "ok" /\ b.status = "COMMITTED"
                 /\ RecoverNext(MaxOf(nextLSN, recAt + 1))
                 /\ UNCHANGED skipped
              \/ /\ o = "ok" /\ b.status = "PENDING"
                 /\ recPc' = "replay"
                 /\ UNCHANGED <<phase, nextLSN, rowCount, recAt, ctxDone, pc,
                                locals, scans, history>>

ToCommit ==
  /\ recPc' = "commit"
  /\ UNCHANGED <<phase, nextLSN, rowCount, recAt, ctxDone, pc, locals, scans,
                 history>>

\* A replay error is logged and the entry stays PENDING.
Skip == RecoverNext(nextLSN) /\ skipped' = skipped \cup {recAt}

\* replayInsert: one read, and nothing is written whatever it finds.
ReplayInsert ==
  /\ phase = "recover" /\ recPc = "replay" /\ lectern[recAt].op = "INSERT"
  /\ UNCHANGED world
  /\ \E o \in Outcomes :
       Hal(o) /\ IF o = "ok" THEN ToCommit ELSE Skip

ReplayNeededUnlessNull(s) == ~IsNull(s)
ReplayNeeded(s) == XmaxValue(s) # Txid

\* replayUpdateXmax: both xmax banners are written unless they already hold
\* the deleting transaction.
ReplayUpdateXmax ==
  /\ phase = "recover" /\ recPc = "replay"
  /\ lectern[recAt].op = "UPDATE_XMAX"
  /\ \E o \in Outcomes : \E k \in Written(o, 2) :
       LET z == lectern[recAt].pos
       IN  /\ Hal(o)
           /\ strip' = IF ReplayNeeded(strip[z])
                       THEN [strip EXCEPT ![z] = XmaxBlocks(@, k)] ELSE strip
           /\ IF o = "ok" THEN ToCommit ELSE Skip
  /\ UNCHANGED lectern

\* Recover writes the entry back as COMMITTED; a failure is fatal.
RecoverCommit ==
  /\ phase = "recover" /\ recPc = "commit"
  /\ \E o \in Outcomes : \E k \in Written(o, 1) :
       /\ Hal(o)
       /\ lectern' = IF k = 1
                     THEN [lectern EXCEPT ![recAt].status = "COMMITTED"]
                     ELSE lectern
       /\ \/ o # "ok" /\ Fatal
          \/ /\ o = "ok"
             /\ RecoverNext(MaxOf(nextLSN, recAt + 1))
             /\ UNCHANGED skipped
  /\ UNCHANGED strip

\* LoadCatalog: the tables are back, each with a row count of zero.
LoadCatalog ==
  /\ phase = "catalog"
  /\ UNCHANGED world
  /\ \E o \in Outcomes :
       /\ Hal(o)
       /\ \/ o # "ok" /\ Fatal
          \/ /\ o = "ok"
             /\ phase' = "serve"
             /\ rowCount' = [t \in Tables |-> 0]
             /\ UNCHANGED <<nextLSN, recAt, recPc, ctxDone, pc, locals, scans,
                            history>>

\* SIGTERM cancels the root context; sessions go on until main returns.
Shutdown ==
  /\ MayShutdown /\ phase = "serve" /\ ~ctxDone
  /\ ctxDone' = TRUE
  /\ UNCHANGED <<world, phase, nextLSN, rowCount, recAt, recPc, pc, locals,
                 scans, faults, history>>

-----------------------------------------------------------------------------
Init ==
  /\ lectern = [l \in LSNs |-> EmptyLectern]
  /\ strip = [z \in Zs |-> EmptyStrip]
  /\ phase = "recover"
  /\ nextLSN = 1 /\ recAt = 1 /\ recPc = "read" /\ ctxDone = FALSE
  /\ rowCount = [t \in Tables |-> 0]
  /\ pc = [p \in Sessions |-> "idle"]
  /\ op = [p \in Sessions |-> "NONE"]
  /\ tab = [p \in Sessions |-> 1]
  /\ pos = [p \in Sessions |-> 0]
  /\ row = [p \in Sessions |-> 0]
  /\ lsn = [p \in Sessions |-> 1]
  /\ book = [p \in Sessions |-> EmptyLectern]
  /\ where = [p \in Sessions |-> {}]
  /\ got = [p \in Sessions |-> <<>>]
  /\ scan = [p \in Sessions |-> NoScan]
  /\ chan = [p \in Sessions |-> <<>>]
  /\ nrows = 0 /\ deletes = 0 /\ faults = 0 /\ crashes = 0
  /\ home = [r \in Rows |-> 0]
  /\ base = 0
  /\ acked = {} /\ marked = {} /\ deleted = {} /\ skipped = {}
  /\ must = [p \in Sessions |-> {}]
  /\ mustNot = [p \in Sessions |-> {}]

\* The steps of a session that is executing a statement, and of its scanner.
Step(p) ==
  \/ LoadRowChunk(p) \/ AllocLSN(p) \/ AppendWrite(p)
  \/ InsertWrite(p) \/ XmaxWrite(p) \/ CommitRead(p) \/ CommitWrite(p)
  \/ Recv(p) \/ RecvDone(p) \/ Mark(p) \/ Reply(p)

Scanner(p) == ScanRead(p) \/ ScanSend(p) \/ ScanClose(p)

Start(p) ==
  \/ \E t \in Tables : StartInsert(p, t)
  \/ \E t \in Tables, w \in Wheres : StartSelect(p, t, w) \/ StartDelete(p, t, w)

Recovery ==
  \/ RecoverRead \/ ReplayInsert \/ ReplayUpdateXmax \/ RecoverCommit
  \/ LoadCatalog

Next ==
  \/ \E p \in Sessions : Start(p) \/ Step(p) \/ Scanner(p)
  \/ Restart \/ Recovery \/ Shutdown \/ Crash

Spec == Init /\ [][Next]_vars

\* The Go scheduler runs every goroutine that can run, every HAL call returns,
\* and the process is started again after it died.
Fairness ==
  /\ \A p \in Sessions : WF_vars(Step(p)) /\ WF_vars(Scanner(p))
  /\ WF_vars(Recovery) /\ WF_vars(Restart)

FairSpec == Spec /\ Fairness


-----------------------------------------------------------------------------
(* Properties.                                                             *)

Pcs == {"idle", "load", "alloc", "append", "data", "cread", "cwrite", "recv",
        "mark", "ok", "err"}

WorldOK == lectern \in [LSNs -> Books] /\ strip \in [Zs -> Strips]

EngineOK ==
  /\ phase \in {"down", "recover", "catalog", "serve"}
  /\ nextLSN \in LSNs /\ recAt \in LSNs
  /\ recPc \in {"read", "replay", "commit"}
  /\ rowCount \in [Tables -> 0 .. MaxRows]

SessionOK ==
  /\ pc \in [Sessions -> Pcs]
  /\ op \in [Sessions -> {"NONE", "INSERT", "SELECT", "DELETE"}]
  /\ tab \in [Sessions -> Tables]
  /\ pos \in [Sessions -> Zs]
  /\ row \in [Sessions -> 0 .. MaxRows]
  /\ lsn \in [Sessions -> LSNs]
  /\ book \in [Sessions -> Books]
  /\ where \in [Sessions -> SUBSET (0 .. MaxRows)]
  /\ got \in [Sessions -> Seq(0 .. MaxRows)]

Scans == [on : BOOLEAN, n : 0 .. MaxRows, at : 0 .. MaxRows, held : Items]

ScanOK == scan \in [Sessions -> Scans] /\ chan \in [Sessions -> Seq(Items)]

HistoryOK ==
  /\ nrows \in 0 .. MaxRows /\ deletes \in 0 .. MaxDeletes
  /\ faults \in 0 .. MaxFaults /\ crashes \in 0 .. MaxCrashes
  /\ home \in [Rows -> Zs]
  /\ base \in 0 .. MaxRows
  /\ acked \subseteq 0 .. MaxRows /\ marked \subseteq 0 .. MaxRows
  /\ deleted \subseteq 0 .. MaxRows /\ skipped \subseteq LSNs
  /\ must \in [Sessions -> SUBSET (0 .. MaxRows)]
  /\ mustNot \in [Sessions -> SUBSET (0 .. MaxRows)]

\* Every variable holds a value the program can have: in particular no slot
\* or lectern outside the bounds is ever computed.
TypeOK ==
  /\ WorldOK /\ EngineOK /\ SessionOK /\ ScanOK /\ HistoryOK
  /\ ctxDone \in BOOLEAN

HasLSN(p) == pc[p] \in {"append", "data", "cread", "cwrite"}
InLog(p)  == pc[p] \in {"data", "cread", "cwrite"}

\* Between Append and the commit write, a statement's own PENDING book is in
\* its lectern whatever the other sessions append or commit in between, and
\* no two statements in flight own the same lectern.
LogIntact ==
  \A p \in Sessions :
    /\ InLog(p) => lectern[lsn[p]] = Entry(p)
    /\ \A q \in Sessions \ {p} : HasLSN(p) /\ HasLSN(q) => lsn[p] # lsn[q]

\* No slot is reserved for two rows of a process's lifetime, whichever tables
\* they belong to.
NoCollision ==
  \A r1, r2 \in (base + 1) .. nrows : r1 # r2 => home[r1] # home[r2]

\* No table has outgrown its region of tableZSpacing slots.
WithinRegions == \A t \in Tables : rowCount[t] <= TableZSpacing

\* Concurrent INSERTs, into one table or into several, reserve different
\* slots as long as every table stays within its region.
SlotExclusive == WithinRegions => NoCollision

\* The process runs over a world without rows of an earlier process, so every
\* slot it reserves is empty: no scan finds another row there before the
\* INSERT has written its own.
FirstInWorld == base = 0

\* A delete marker on row r outlives the reuse of the row's slot: slots of the
\* running process are not reused within their regions, and after a restart an
\* INSERT into the slot replaces the row as a whole unless its batch is torn.
MarkerLasts(r) == "torn" \notin Faults \/ (WithinRegions /\ r > base)

\* An acknowledged INSERT can be read back complete from a slot that a scan
\* covers, until a DELETE picks the row.
AckedVisible ==
  FirstInWorld /\ WithinRegions =>
    \A r \in acked \ marked : /\ strip[home[r]] = FullStrip(r)
                              /\ \E t \in Tables : InRange(t, home[r])

\* A COMMITTED book of the running process's INSERTs, and any COMMITTED
\* delete marker, describes blocks that are in the world.
CommittedApplied ==
  \A l \in LSNs :
    LET b == lectern[l]
        s == strip[b.pos]
    IN  b.status = "COMMITTED" =>
          \/ /\ b.op = "INSERT"
             /\ WithinRegions /\ b.row > base => s.xmin = "tx" /\ s.cols = b.row
          \/ /\ b.op = "UPDATE_XMAX"
             /\ MarkerLasts(b.row) /\ s.cols = b.row => s.xmax0 = "tx" /\ s.xmax1 = "tx"

\* Once MarkDeleted has reported success the row is never visible again,
\* across crashes and recoveries too.
DeletedStaysDeleted ==
  \A r \in deleted \ {0} :
    MarkerLasts(r) /\ strip[home[r]].cols = r => ~isVisible(strip[home[r]], Txid)

\* Only rows that a DELETE statement picked carry a delete marker.
NoPhantomDelete ==
  FirstInWorld /\ WithinRegions =>
    \A z \in Zs : strip[z].xmax0 = "tx" /\ strip[z].cols # 0
                    => strip[z].cols \in marked

Reported(p) == {got[p][i] : i \in 1 .. Len(got[p])}

\* A SELECT that ends without an error reported no row deleted before it
\* started, no row twice and, unless the root context was cancelled, every row
\* acknowledged before it started that nobody is deleting: a cancelled context
\* ends a scan like the end of the table does.
SelectExact ==
  \A p \in Sessions :
    pc[p] = "ok" /\ op[p] = "SELECT" =>
      /\ FirstInWorld /\ WithinRegions /\ ~ctxDone =>
           must[p] \ marked \subseteq Reported(p)
      /\ \A r \in (Reported(p) \cap mustNot[p]) \ {0} : ~MarkerLasts(r)
      /\ \A i, j \in 1 .. Len(got[p]) :
           i # j /\ got[p][i] # 0 => got[p][i] # got[p][j]

\* A row's blocks change only while a PENDING book for that slot is in the
\* log: the write sequence of InsertRow, MarkDeleted and recovery.
WriteAhead ==
  [][\A z \in Zs : strip'[z] # strip[z] =>
       \E l \in LSNs : lectern[l].status = "PENDING" /\ lectern[l].pos = z]_vars

\* Until the first crash, a lectern that holds a book keeps that book, only its
\* status goes from PENDING to COMMITTED.
EntryKept ==
  [][crashes = 0 =>
       \A l \in LSNs : lectern[l].status # "AIR" =>
         lectern'[l] \in {lectern[l], [lectern[l] EXCEPT !.status = "COMMITTED"]}]_vars

\* When Recover returns, every lectern below nextLSN is settled (COMMITTED, or
\* left PENDING after a logged replay error) and nextLSN's lectern is empty.
RecoveredPrefix ==
  [][phase = "recover" /\ phase' = "catalog" =>
       /\ \A l \in 1 .. (nextLSN' - 1) :
            lectern[l].status = "COMMITTED" \/ l \in skipped
       /\ lectern[nextLSN'].status = "AIR"]_vars

\* Every statement is answered, with a result or an error: no session waits
\* for ever on its scanner, nor a scanner on its session.
StatementsFinish == \A p \in Sessions : pc[p] # "idle" ~> pc[p] = "idle"

\* After every crash the engine serves again: recovery reaches the end of the
\* log even when replays and commits fail on the way.
RecoveryFinishes == phase = "down" ~> phase = "serve"


-----------------------------------------------------------------------------
(* The abstract table.                                                     *)

\* The rows of the running process that a scan would decode.
PresentRows == {r \in Rows : r > base /\ strip[home[r]].cols = r}

DeadRows == {r \in PresentRows : strip[home[r]].xmax0 = "tx"
                                   /\ strip[home[r]].xmax1 = "tx"}

Table == INSTANCE RowTable WITH
  Rows    <- Rows,
  present <- PresentRows,
  dead    <- DeadRows,
  acked   <- {r \in acked : r > base},
  deleted <- {r \in deleted : r > base}

\* INSERT and DELETE implement the abstract table: over all interleavings,
\* failures and crashes a row appears whole, is deleted once however many
\* DELETEs mark it, never comes back, and success follows the effect.
ImplementsTable == Table!Spec

-----------------------------------------------------------------------------
(* What docs/spec.md says of the engine and the code does not do.          *)

\* "Data survives engine restart": whenever the engine serves, an acknowledged
\* row that no DELETE picked is complete in its slot and some scan covers it.
AckedSurvive ==
  phase = "serve" =>
    \A r \in acked \ marked : /\ strip[home[r]] = FullStrip(r)
                              /\ \E t \in Tables : InRange(t, home[r])

\* "The PENDING entry is found, the data write is replayed": a COMMITTED
\* INSERT has its row, or a later one in the same slot, in the world.
InsertReplayed ==
  \A l \in LSNs : lectern[l].status = "COMMITTED" /\ lectern[l].op = "INSERT"
                    => strip[lectern[l].pos].cols >= lectern[l].row

\* "Scan all blocks in the WAL region ... for each PENDING entry": recovery
\* leaves no PENDING entry behind but those whose replay failed.
RecoverAll ==
  [][phase = "recover" /\ phase' = "catalog" =>
       \A l \in LSNs : lectern[l].status = "PENDING" => l \in skipped]_vars

=============================================================================
