--------------------------- MODULE RowTableProofs ---------------------------
(***************************************************************************)
(* Proofs about what RowStore's statements do to the rows: acknowledged    *)
(* rows, delete markers, committed books, and the refinement of RowTable.  *)
(* They build on the types, the log and the slots of RowStoreProofs.       *)
(***************************************************************************)
EXTENDS RowStoreProofs

\* Row r's INSERT has reserved a slot and not yet reached its data write.
Unwritten(r) ==
  \E p \in Sessions : /\ op[p] = "INSERT" /\ row[p] = r
                      /\ pc[p] \in {"load", "alloc", "append", "data"}

\* Somebody has read row r (0: a strip without columns) in slot z: an item on
\* a channel, a DELETE in progress, a delete marker in the log.
Read(z, r) ==
  /\ Decodable(strip[z])
  /\ r <= nrows
  /\ r # 0 => home[r] = z /\ ~Unwritten(r)
  /\ WithinRegions /\ (r > base \/ FirstInWorld) => strip[z].cols = r

\* The delete marker of row r is on slot z as long as the row is there.
Dead(z, r) ==
  MarkerLasts(r) /\ strip[z].cols = r => strip[z].xmax0 = "tx" /\ strip[z].xmax1 = "tx"

\* Row r of the running process is in its slot.
Present(z, r) == WithinRegions /\ r > base => strip[z].xmin = "tx" /\ strip[z].cols = r

\* Which statements are where, and that recovery finds no running statement.
OpInv ==
  /\ base <= nrows
  /\ \A p \in Sessions :
       /\ pc[p] = "load" => op[p] = "INSERT"
       /\ pc[p] \in {"alloc", "append", "data", "cread", "cwrite"} =>
            op[p] \in {"INSERT", "DELETE"}
       /\ pc[p] = "mark" => op[p] = "DELETE"
       /\ pc[p] = "recv" => op[p] \in {"SELECT", "DELETE"}
       /\ pc[p] = "idle" => op[p] = "NONE"

\* The rows that INSERTs in progress have reserved a slot for.
InsertInv ==
  \A p \in Sessions : op[p] = "INSERT" =>
    /\ row[p] \in (base + 1) .. nrows /\ pos[p] = home[row[p]]
    /\ \A q \in Sessions : op[q] = "INSERT" /\ row[p] = row[q] => p = q
    /\ pc[p] \in {"cread", "cwrite"} => Present(pos[p], row[p])
    /\ FirstInWorld /\ WithinRegions /\ pc[p] \in {"load", "alloc", "append", "data"}
         => strip[pos[p]] = EmptyStrip

\* What the strips hold.
StripInv ==
  \A z \in Zs :
    /\ strip[z].cols # 0 =>
         /\ strip[z].cols <= nrows /\ home[strip[z].cols] = z
         /\ ~Unwritten(strip[z].cols)
         /\ FirstInWorld /\ WithinRegions =>
              strip[z].cols \in marked \/ strip[z] = FullStrip(strip[z].cols)
    /\ FirstInWorld /\ strip[z] # EmptyStrip => \E r \in 1 .. nrows : home[r] = z

\* What scans have found and not yet handed over.
ItemInv ==
  \A p \in Sessions :
    /\ scan[p].held.kind = "row" => Read(scan[p].held.pos, scan[p].held.row)
    /\ \A i \in 1 .. Len(chan[p]) :
         chan[p][i].kind = "row" => Read(chan[p][i].pos, chan[p][i].row)

\* The rows that DELETEs in progress are working on.
DeleteInv ==
  \A p \in Sessions : op[p] = "DELETE" =>
    /\ pc[p] \in {"mark", "alloc", "append", "data", "cread", "cwrite"} =>
         Read(pos[p], row[p])
    /\ pc[p] \in {"alloc", "append", "data", "cread", "cwrite"} => row[p] \in marked
    /\ pc[p] \in {"cread", "cwrite"} => Dead(pos[p], row[p])

\* What the books in the log describe.
BookInv ==
  /\ \A l \in LSNs :
       /\ lectern[l].status # "AIR" /\ lectern[l].op = "UPDATE_XMAX" =>
            Read(lectern[l].pos, lectern[l].row)
       /\ lectern[l].status # "AIR" /\ lectern[l].op = "INSERT" =>
            lectern[l].row \in 1 .. nrows /\ home[lectern[l].row] = lectern[l].pos
       /\ lectern[l].status = "COMMITTED" /\ lectern[l].op = "UPDATE_XMAX" =>
            Dead(lectern[l].pos, lectern[l].row)
       /\ lectern[l].status = "COMMITTED" /\ lectern[l].op = "INSERT" =>
            Present(lectern[l].pos, lectern[l].row)
  /\ recPc = "commit" /\ lectern[recAt].op = "UPDATE_XMAX" =>
       Dead(lectern[recAt].pos, lectern[recAt].row)
  /\ \A p \in Sessions : pc[p] = "cwrite" => book[p] = Entry(p)

\* What clients have been told.
ToldInv ==
  /\ \A r \in acked : r \in 1 .. nrows /\ ~Unwritten(r) /\ Present(home[r], r)
  /\ \A r \in deleted \ {0} : r \in Rows /\ Read(home[r], r) /\ Dead(home[r], r)

TableInv ==
  /\ OpInv /\ InsertInv /\ StripInv /\ ItemInv /\ DeleteInv /\ BookInv /\ ToldInv

\* Everything the steps below start from.
GInv == IInv /\ SlotInv /\ TableInv


-----------------------------------------------------------------------------
(* What a step may change.                                                 *)

\* The types that the proofs below use.
LEMMA Facts ==
  ASSUME IInv
  PROVE  /\ strip \in [Zs -> Strips] /\ lectern \in [LSNs -> Books]
         /\ pc \in [Sessions -> Pcs]
         /\ op \in [Sessions -> {"NONE", "INSERT", "SELECT", "DELETE"}]
         /\ tab \in [Sessions -> Tables] /\ pos \in [Sessions -> Zs]
         /\ row \in [Sessions -> 0 .. MaxRows] /\ lsn \in [Sessions -> LSNs]
         /\ book \in [Sessions -> Books] /\ scan \in [Sessions -> Scans]
         /\ chan \in [Sessions -> Seq(Items)] /\ recAt \in LSNs
         /\ rowCount \in [Tables -> 0 .. MaxRows] /\ home \in [Rows -> Zs]
         /\ nrows \in 0 .. MaxRows /\ base \in 0 .. MaxRows /\ MaxRows \in Nat
BY BoundsAssumption DEF IInv, TypeOK, WorldOK, EngineOK, SessionOK, ScanOK, HistoryOK

\* Only StartInsert and the end of a process touch the row numbers, the homes
\* and the row counts.
LEMMA Counters ==
  ASSUME GInv, [Next]_vars
  PROVE  \/ \E p \in Sessions, t \in Tables : StartInsert(p, t)
         \/ Volatile /\ UNCHANGED <<nrows, home, strip>>
         \/ /\ UNCHANGED <<nrows, home, base>>
            /\ WithinRegions' => WithinRegions
<1>1. ASSUME NEW p \in Sessions, Start(p) \/ Step(p) \/ Scanner(p)
      PROVE  \/ \E t \in Tables : StartInsert(p, t)
             \/ UNCHANGED <<nrows, home, base, rowCount>>
  BY <1>1 DEF Start, StartSelect, StartDelete, StartScan, Step,
     LoadRowChunk, AllocLSN, AppendWrite, InsertWrite, XmaxWrite, CommitRead,
     CommitWrite, Recv, RecvDone, Mark, Reply, Scanner, ScanRead, ScanSend, ScanClose,
     engine, history
<1>2. CASE LoadCatalog
  <2>1. \A t \in Tables : rowCount[t] = 0
    BY <1>2 DEF LoadCatalog, GInv, SlotInv, HomeInv
  <2>2. WithinRegions
    BY <2>1, BoundsAssumption DEF WithinRegions
  <2> QED
    BY <1>2, <2>2 DEF LoadCatalog, Fatal, history, world
<1>3. ASSUME Restart \/ Recovery \/ Shutdown \/ Crash
      PROVE  \/ Volatile /\ UNCHANGED <<nrows, home, strip>>
             \/ UNCHANGED <<nrows, home, base, rowCount>> \/ LoadCatalog
  BY <1>3 DEF Restart, Recovery, RecoverRead, ReplayInsert, ReplayUpdateXmax,
     RecoverCommit, Shutdown, Crash, Fatal, RecoverNext, ToCommit, Skip, history, world
<1>4. UNCHANGED rowCount => (WithinRegions' => WithinRegions)
  BY DEF WithinRegions
<1>5. CASE UNCHANGED vars
  BY <1>4, <1>5 DEF vars, engine, history
<1> QED
  BY <1>1, <1>2, <1>3, <1>4, <1>5, SMTT(30) DEF Next

\* INSERTs that have yet to write only get fewer, but for the row that
\* StartInsert numbers.
LEMMA UnwrittenKept ==
  ASSUME GInv, [Next]_vars, NEW r \in 0 .. MaxRows, r <= nrows, Unwritten(r)'
  PROVE  Unwritten(r)
<1> USE DEF GInv
<1>0. OpInv /\ pc \in [Sessions -> Pcs] /\ nrows \in Nat
      /\ op \in [Sessions -> {"NONE", "INSERT", "SELECT", "DELETE"}]
      /\ row \in [Sessions -> 0 .. MaxRows]
  BY Facts DEF TableInv
<1>1. PICK q \in Sessions : /\ op'[q] = "INSERT" /\ row'[q] = r
                            /\ pc'[q] \in {"load", "alloc", "append", "data"}
  BY DEF Unwritten
<1>2. SUFFICES /\ op[q] = "INSERT" /\ row[q] = r
               /\ pc[q] \in {"load", "alloc", "append", "data"}
  BY DEF Unwritten
<1>3. CASE UNCHANGED <<op, row, pc>>
  BY <1>1, <1>3
<1>4. ASSUME Volatile PROVE FALSE
  BY <1>1, <1>4 DEF Volatile
<1>5. ASSUME NEW p \in Sessions, Start(p) \/ Step(p) \/ Scanner(p)
      PROVE  /\ op[q] = "INSERT" /\ row[q] = r
             /\ pc[q] \in {"load", "alloc", "append", "data"}
  <2>1. ASSUME NEW t \in Tables, StartInsert(p, t)
        PROVE  /\ op[q] = "INSERT" /\ row[q] = r
               /\ pc[q] \in {"load", "alloc", "append", "data"}
    <3>1. row'[p] = nrows + 1
      BY <1>0, <2>1 DEF StartInsert
    <3>2. q # p
      BY <1>0, <1>1, <3>1
    <3> QED
      BY <1>0, <1>1, <2>1, <3>2 DEF StartInsert, Goto
  <2>2. ASSUME NEW t \in Tables, NEW w \in Wheres,
               StartSelect(p, t, w) \/ StartDelete(p, t, w)
        PROVE  /\ op[q] = "INSERT" /\ row[q] = r
               /\ pc[q] \in {"load", "alloc", "append", "data"}
    BY <1>0, <1>1, <2>2 DEF StartSelect, StartDelete, StartScan, Goto
  <2>3. CASE LoadRowChunk(p) \/ AllocLSN(p) \/ AppendWrite(p)
    BY <1>0, <1>1, <2>3 DEF LoadRowChunk, AllocLSN, AppendWrite, Goto, locals
  <2>4. CASE InsertWrite(p) \/ XmaxWrite(p) \/ CommitRead(p) \/ CommitWrite(p)
    BY <1>0, <1>1, <2>4 DEF InsertWrite, XmaxWrite, CommitRead, CommitWrite, Goto, locals
  <2>5. CASE Recv(p)
    BY <1>0, <1>1, <2>5 DEF Recv, Arrived, Goto, OpInv
  <2>6. CASE RecvDone(p) \/ Mark(p) \/ Reply(p)
    BY <1>0, <1>1, <2>6 DEF RecvDone, Mark, Reply, Goto, locals, OpInv
  <2>7. CASE Scanner(p)
    BY <1>3, <2>7 DEF Scanner, ScanRead, ScanSend, ScanClose, locals
  <2> QED
    BY <1>5, <2>1, <2>2, <2>3, <2>4, <2>5, <2>6, <2>7 DEF Start, Step
<1>6. ASSUME Restart \/ Recovery \/ Shutdown \/ Crash
      PROVE  UNCHANGED <<op, row, pc>> \/ Volatile
  BY <1>6 DEF Restart, Recovery, RecoverRead, ReplayInsert, ReplayUpdateXmax,
     RecoverCommit, LoadCatalog, Shutdown, Crash, Fatal, RecoverNext, ToCommit, Skip,
     locals
<1> QED
  BY <1>3, <1>4, <1>5, <1>6 DEF Next, vars, locals

\* Row numbers only grow, homes are kept, and a row of the running process
\* after a step was one before it, in tables no larger.
LEMMA Kept ==
  ASSUME GInv, [Next]_vars, NEW r \in 0 .. MaxRows, r <= nrows
  PROVE  /\ nrows' \in Int /\ nrows \in Int /\ base \in Int /\ r <= nrows' /\ base <= nrows
         /\ r # 0 => home'[r] = home[r] /\ r \in Rows
         /\ WithinRegions' /\ r > base' => WithinRegions /\ r > base
         /\ WithinRegions' /\ r > base' => ~Volatile
         /\ WithinRegions' /\ base' = 0 => base = 0 /\ (WithinRegions \/ nrows = 0)
         /\ Unwritten(r)' => Unwritten(r)
<1> USE DEF GInv
<1>0. /\ nrows \in 0 .. MaxRows /\ base \in 0 .. MaxRows /\ MaxRows \in Nat
      /\ home \in [Rows -> Zs] /\ base <= nrows
      /\ rowCount \in [Tables -> 0 .. MaxRows] /\ TableZSpacing \in Nat
  BY Facts, BoundsAssumption DEF TableInv, OpInv
<1>1. Unwritten(r)' => Unwritten(r)
  BY UnwrittenKept
<1>2. CASE \E p \in Sessions, t \in Tables : StartInsert(p, t)
  <2>1. PICK p \in Sessions, t \in Tables : StartInsert(p, t)
    BY <1>2
  <2>2. /\ nrows' = nrows + 1 /\ base' = base /\ nrows + 1 \in Rows
        /\ home' = [home EXCEPT ![nrows + 1] = RowZ(t, rowCount[t])]
        /\ rowCount' = [rowCount EXCEPT ![t] = rowCount[t] + 1] /\ phase = "serve"
        /\ phase' = phase
    BY <1>0, <2>1 DEF StartInsert, NextRowCount, Rows
  <2>3. WithinRegions' => WithinRegions
    <3> SUFFICES ASSUME WithinRegions', NEW u \in Tables PROVE rowCount[u] <= TableZSpacing
      BY DEF WithinRegions
    <3>1. rowCount'[u] <= TableZSpacing /\ rowCount[u] <= rowCount'[u]
          /\ rowCount'[u] \in Int /\ rowCount[u] \in Int
      BY <1>0, <2>2 DEF WithinRegions
    <3> QED
      BY <1>0, <3>1
  <2>4. r # 0 => home'[r] = home[r] /\ r \in Rows
    BY <1>0, <2>2 DEF Rows
  <2>5. ~Volatile
    BY <2>1, <2>2, <1>0 DEF Volatile, StartInsert, Goto, Tables
  <2> QED
    BY <1>0, <1>1, <2>2, <2>3, <2>4, <2>5
<1>3. CASE Volatile /\ UNCHANGED <<nrows, home, strip>>
  BY <1>0, <1>1, <1>3 DEF Volatile, Rows
<1>4. CASE /\ UNCHANGED <<nrows, home, base>>
           /\ WithinRegions' => WithinRegions
  <2>1. ASSUME Volatile, r > base' PROVE FALSE
    BY <1>0, <1>4, <2>1 DEF Volatile
  <2> QED
    BY <1>0, <1>1, <1>4, <2>1 DEF Rows
<1> QED
  BY <1>2, <1>3, <1>4, Counters

\* An INSERT's data write goes to the slot of its own row, and within the
\* regions no other row of the process has that slot.
LEMMA Exclusive ==
  ASSUME GInv, NEW p \in Sessions, InsertWrite(p)
  PROVE  /\ op[p] = "INSERT" /\ pc[p] = "data" /\ Unwritten(row[p])
         /\ row[p] \in (base + 1) .. nrows /\ row[p] \in Rows /\ pos[p] = home[row[p]]
         /\ \A r \in 1 .. nrows :
              WithinRegions /\ r > base /\ home[r] = pos[p] => r = row[p]
         /\ \A q \in Sessions : op[q] = "INSERT" /\ row[q] = row[p] => q = p
<1> USE DEF GInv
<1>1. op[p] = "INSERT" /\ pc[p] = "data" /\ Unwritten(row[p])
  BY DEF InsertWrite, Unwritten
<1>2. /\ row[p] \in (base + 1) .. nrows /\ pos[p] = home[row[p]]
      /\ \A q \in Sessions : op[q] = "INSERT" /\ row[q] = row[p] => q = p
  BY <1>1 DEF TableInv, InsertInv
<1>3. nrows \in 0 .. MaxRows /\ base \in 0 .. MaxRows /\ MaxRows \in Nat
  BY Facts
<1>4. row[p] \in Rows
  BY <1>2, <1>3 DEF Rows
<1>5. ASSUME NEW r \in 1 .. nrows, WithinRegions, r > base, home[r] = pos[p]
      PROVE  r = row[p]
  <2>1. r \in (base + 1) .. nrows
    BY <1>3, <1>5
  <2> QED
    BY <1>2, <1>5, <2>1 DEF SlotInv, SlotExclusive, NoCollision
<1> QED
  BY <1>1, <1>2, <1>4, <1>5

\* The data write of an INSERT: a number of its block groups.
LEMMA InsertEffect ==
  ASSUME GInv, NEW p \in Sessions, InsertWrite(p)
  PROVE  \E k \in 0 .. 4 :
           /\ strip' = [strip EXCEPT ![pos[p]] = InsertBlocks(strip[pos[p]], row[p], k)]
           /\ "torn" \notin Faults => k \in {0, 4}
           /\ pc'[p] = "cread" => k = 4
<1>0. PICK o \in Outcomes : \E k \in Written(o, 4) :
        /\ strip' = [strip EXCEPT ![pos[p]] = InsertBlocks(strip[pos[p]], row[p], k)]
        /\ Goto(p, IF o = "ok" THEN "cread" ELSE "err")
  BY DEF InsertWrite
<1>1. PICK k \in Written(o, 4) :
        /\ strip' = [strip EXCEPT ![pos[p]] = InsertBlocks(strip[pos[p]], row[p], k)]
        /\ Goto(p, IF o = "ok" THEN "cread" ELSE "err")
  BY <1>0
<1>2. k \in 0 .. 4 /\ (o = "ok" => k = 4) /\ (o # "torn" => k \in {0, 4})
  BY DEF Written
<1>3. "torn" \notin Faults => o # "torn"
  BY DEF Outcomes
<1>4. pc'[p] = "cread" => o = "ok"
  BY <1>1, Facts DEF Goto, GInv
<1> QED
  BY <1>1, <1>2, <1>3, <1>4

\* The three ways in which a step leaves the strips.
LEMMA StripMoves ==
  ASSUME GInv, [Next]_vars
  PROVE  \/ strip' = strip
         \/ \E p \in Sessions : InsertWrite(p)
         \/ \E z \in Zs, k \in 0 .. 2, r \in 0 .. MaxRows :
              /\ strip' = [strip EXCEPT ![z] = XmaxBlocks(strip[z], k)]
              /\ Read(z, r) /\ (r \in marked \/ base = nrows)
<1> USE DEF GInv
<1>1. ASSUME NEW p \in Sessions, XmaxWrite(p)
      PROVE  \E z \in Zs, k \in 0 .. 2, r \in 0 .. MaxRows :
               /\ strip' = [strip EXCEPT ![z] = XmaxBlocks(strip[z], k)]
               /\ Read(z, r) /\ (r \in marked \/ base = nrows)
  <2>0. PICK o \in Outcomes : \E k \in Written(o, 2) :
          strip' = [strip EXCEPT ![pos[p]] = XmaxBlocks(strip[pos[p]], k)]
    BY <1>1 DEF XmaxWrite
  <2>1. PICK k \in Written(o, 2) :
          strip' = [strip EXCEPT ![pos[p]] = XmaxBlocks(strip[pos[p]], k)]
    BY <2>0
  <2>2. k \in 0 .. 2
    BY DEF Written
  <2>3. Read(pos[p], row[p]) /\ row[p] \in marked
    BY <1>1 DEF XmaxWrite, TableInv, DeleteInv
  <2>4. pos[p] \in Zs /\ row[p] \in 0 .. MaxRows
    BY Facts
  <2> QED
    BY <2>1, <2>2, <2>3, <2>4
<1>2. ASSUME ReplayUpdateXmax
      PROVE  \/ strip' = strip
             \/ \E z \in Zs, k \in 0 .. 2, r \in 0 .. MaxRows :
                  /\ strip' = [strip EXCEPT ![z] = XmaxBlocks(strip[z], k)]
                  /\ Read(z, r) /\ (r \in marked \/ base = nrows)
  <2> DEFINE b == lectern[recAt]
  <2>0. PICK o \in Outcomes : \E k \in Written(o, 2) :
          /\ strip' = IF ReplayNeeded(strip[b.pos])
                      THEN [strip EXCEPT ![b.pos] = XmaxBlocks(strip[b.pos], k)]
                      ELSE strip
          /\ IF o = "ok" THEN ToCommit ELSE Skip
    BY <1>2 DEF ReplayUpdateXmax
  <2>1. PICK k \in Written(o, 2) :
          /\ strip' = IF ReplayNeeded(strip[b.pos])
                      THEN [strip EXCEPT ![b.pos] = XmaxBlocks(strip[b.pos], k)]
                      ELSE strip
          /\ IF o = "ok" THEN ToCommit ELSE Skip
    BY <2>0
  <2>2. k \in 0 .. 2
    BY DEF Written
  <2>3. recAt \in LSNs /\ b \in Books
    BY Facts
  <2>4. b.status = "PENDING" /\ b.op = "UPDATE_XMAX" /\ base = nrows
    BY <1>2 DEF ReplayUpdateXmax, IInv, ProcInv, SlotInv, HomeInv
  <2>5. Read(b.pos, b.row)
    BY <2>3, <2>4 DEF TableInv, BookInv
  <2>6. b.pos \in Zs /\ b.row \in 0 .. MaxRows
    BY <2>3, SMTT(30) DEF Books
  <2> QED
    BY <2>1, <2>2, <2>4, <2>5, <2>6
<1>3. ASSUME NEW p \in Sessions, Start(p) \/ Step(p) \/ Scanner(p)
      PROVE  strip' = strip \/ InsertWrite(p) \/ XmaxWrite(p)
  BY <1>3 DEF Start, StartInsert, StartSelect, StartDelete, StartScan, Step,
     LoadRowChunk, AllocLSN, AppendWrite, CommitRead, CommitWrite, Recv, RecvDone, Mark,
     Reply, Scanner, ScanRead, ScanSend, ScanClose, world
<1>4. ASSUME Restart \/ Recovery \/ Shutdown \/ Crash
      PROVE  strip' = strip \/ ReplayUpdateXmax
  BY <1>4 DEF Restart, Recovery, RecoverRead, ReplayInsert, RecoverCommit,
     LoadCatalog, Shutdown, Crash, world
<1>5. CASE UNCHANGED vars
  BY <1>5 DEF vars, world
<1> QED
  BY <1>1, <1>2, <1>3, <1>4, <1>5 DEF Next

\* What a step may do to the strip at z: nothing, an INSERT's blocks, or a
\* delete marker's banners over a strip that somebody has read.
LEMMA StripEffect ==
  ASSUME GInv, [Next]_vars, NEW z \in Zs
  PROVE  \/ strip'[z] = strip[z]
         \/ \E p \in Sessions, k \in 0 .. 4 :
              /\ InsertWrite(p) /\ z = pos[p]
              /\ strip'[z] = InsertBlocks(strip[z], row[p], k)
              /\ "torn" \notin Faults => k \in {0, 4}
         \/ \E k \in 0 .. 2, r \in 0 .. MaxRows :
              /\ strip'[z] = XmaxBlocks(strip[z], k)
              /\ Read(z, r) /\ (r \in marked \/ base = nrows)
<1>0. strip \in [Zs -> Strips]
  BY Facts DEF GInv
<1>1. CASE strip' = strip
  BY <1>1
<1>2. ASSUME NEW p \in Sessions, InsertWrite(p)
      PROVE  \/ strip'[z] = strip[z]
             \/ \E k \in 0 .. 4 :
                  /\ z = pos[p] /\ strip'[z] = InsertBlocks(strip[z], row[p], k)
                  /\ "torn" \notin Faults => k \in {0, 4}
  <2>1. PICK k \in 0 .. 4 :
          /\ strip' = [strip EXCEPT ![pos[p]] = InsertBlocks(strip[pos[p]], row[p], k)]
          /\ "torn" \notin Faults => k \in {0, 4}
    BY <1>2, InsertEffect
  <2> QED
    BY <1>0, <2>1
<1>3. ASSUME NEW y \in Zs, NEW k \in 0 .. 2, NEW r \in 0 .. MaxRows,
             strip' = [strip EXCEPT ![y] = XmaxBlocks(strip[y], k)], Read(y, r),
             r \in marked \/ base = nrows
      PROVE  \/ strip'[z] = strip[z]
             \/ /\ strip'[z] = XmaxBlocks(strip[z], k)
                /\ Read(z, r) /\ (r \in marked \/ base = nrows)
  BY <1>0, <1>3
<1> QED
  BY <1>1, <1>2, <1>3, StripMoves

\* Block writes over a strip: banners never turn to air again, xmin stays.
LEMMA BlocksKept ==
  ASSUME NEW s \in Strips, NEW k \in Int, NEW r \in 0 .. MaxRows
  PROVE  /\ Decodable(s) => Decodable(InsertBlocks(s, r, k)) /\ Decodable(XmaxBlocks(s, k))
         /\ s.xmin = "tx" => InsertBlocks(s, r, k).xmin = "tx"
         /\ XmaxBlocks(s, k).xmin = s.xmin /\ XmaxBlocks(s, k).cols = s.cols
         /\ s.xmax0 = "tx" => XmaxBlocks(s, k).xmax0 = "tx"
         /\ s.xmax1 = "tx" => XmaxBlocks(s, k).xmax1 = "tx"
         /\ InsertBlocks(s, r, k).cols \in {s.cols, r}
         /\ k >= 4 => InsertBlocks(s, r, k) = FullStrip(r)
         /\ ~(k >= 4) => InsertBlocks(s, r, k).cols = s.cols
         /\ k = 0 => InsertBlocks(s, r, k) = s
BY DEF Strips, Decodable, InsertBlocks, XmaxBlocks, FullStrip

\* An INSERT never writes over a row of the running process that has been
\* read, nor, in the first process, over anything that has been read.
LEMMA NotOver ==
  ASSUME GInv, NEW p \in Sessions, InsertWrite(p), NEW r \in 0 .. MaxRows,
         r <= nrows, r # 0 => home[r] = pos[p] /\ ~Unwritten(r), WithinRegions,
         r > base \/ (FirstInWorld /\ Decodable(strip[pos[p]]))
  PROVE  FALSE
<1>0. nrows \in 0 .. MaxRows /\ base \in 0 .. MaxRows /\ MaxRows \in Nat
  BY Facts DEF GInv
<1>1. /\ Unwritten(row[p]) /\ op[p] = "INSERT" /\ pc[p] = "data"
      /\ \A q \in 1 .. nrows : q > base /\ home[q] = pos[p] => q = row[p]
  BY Exclusive
<1>2. CASE r > base
  <2>1. r \in 1 .. nrows /\ r # 0
    BY <1>0, <1>2
  <2> QED
    BY <1>1, <1>2, <2>1
<1>3. CASE FirstInWorld /\ Decodable(strip[pos[p]])
  <2>1. strip[pos[p]] = EmptyStrip
    BY <1>1, <1>3 DEF GInv, TableInv, InsertInv
  <2> QED
    BY <1>3, <2>1 DEF Decodable, EmptyStrip
<1> QED
  BY <1>2, <1>3

\* What has been read stays as it was read.
LEMMA ReadKept ==
  ASSUME GInv, [Next]_vars, NEW z \in Zs, NEW r \in 0 .. MaxRows, Read(z, r)
  PROVE  Read(z, r)'
<1>0. strip[z] \in Strips /\ r <= nrows
  BY Facts DEF GInv, Read
<1>1. /\ r <= nrows' /\ (r # 0 => home'[r] = home[r])
      /\ WithinRegions' /\ r > base' => WithinRegions /\ r > base
      /\ WithinRegions' /\ base' = 0 => base = 0 /\ (WithinRegions \/ nrows = 0)
      /\ Unwritten(r)' => Unwritten(r)
  BY <1>0, Kept
<1>2. r # 0 => home'[r] = z /\ ~Unwritten(r)'
  BY <1>1 DEF Read
<1>3. Decodable(strip'[z])
  <2>1. Decodable(strip[z])
    BY DEF Read
  <2> QED
    <3>1. \A p \in Sessions : row[p] \in 0 .. MaxRows
      BY Facts DEF GInv
    <3>2. ASSUME NEW p \in Sessions, NEW k \in 0 .. 4,
                 strip'[z] = InsertBlocks(strip[z], row[p], k)
          PROVE  Decodable(strip'[z])
      BY <1>0, <2>1, <3>1, <3>2, BlocksKept
    <3>3. ASSUME NEW k \in 0 .. 2, strip'[z] = XmaxBlocks(strip[z], k)
          PROVE  Decodable(strip'[z])
      BY <1>0, <2>1, <3>3, BlocksKept
    <3> QED
      BY <2>1, <3>2, <3>3, StripEffect
<1>4. ASSUME WithinRegions', r > base' \/ FirstInWorld'
      PROVE  strip'[z].cols = r
  <2>1. WithinRegions /\ (r > base \/ FirstInWorld)
    <3>1. CASE nrows = 0 /\ base = 0
      \* no INSERT has been received: no table has grown
      <4>1. \A t \in Tables : rowCount[t] <= 0 /\ rowCount[t] \in Int
        BY <3>1, Facts DEF GInv, IInv, CountInv
      <4>2. WithinRegions
        BY <4>1, BoundsAssumption DEF WithinRegions
      <4> QED
        BY <3>1, <4>2 DEF FirstInWorld
    <3> QED
      BY <1>1, <1>4, <3>1 DEF FirstInWorld
  <2>2. strip[z].cols = r /\ Decodable(strip[z])
    BY <2>1 DEF Read
  <2>3. ASSUME NEW p \in Sessions, InsertWrite(p), z = pos[p] PROVE FALSE
    <3>1. r # 0 => home[r] = pos[p] /\ ~Unwritten(r)
      BY <2>3 DEF Read
    <3> QED
      BY <1>0, <2>1, <2>2, <2>3, <3>1, NotOver
  <2> QED
    BY <1>0, <2>2, <2>3, StripEffect, BlocksKept
<1> QED
  BY <1>1, <1>2, <1>3, <1>4 DEF Read

\* Delete markers stay.
LEMMA DeadKept ==
  ASSUME GInv, [Next]_vars, NEW z \in Zs, NEW r \in 0 .. MaxRows, r <= nrows,
         r # 0 => home[r] = z /\ ~Unwritten(r), Dead(z, r)
  PROVE  Dead(z, r)'
<1> SUFFICES ASSUME MarkerLasts(r)', strip'[z].cols = r
             PROVE  strip'[z].xmax0 = "tx" /\ strip'[z].xmax1 = "tx"
  BY DEF Dead
<1>0. strip[z] \in Strips
  BY Facts DEF GInv
<1>1. MarkerLasts(r)
  BY Kept DEF MarkerLasts
<1>2. CASE strip'[z] = strip[z]
  BY <1>1, <1>2 DEF Dead
<1>3. ASSUME NEW p \in Sessions, NEW k \in 0 .. 4, InsertWrite(p), z = pos[p],
             strip'[z] = InsertBlocks(strip[z], row[p], k),
             "torn" \notin Faults => k \in {0, 4}
      PROVE  strip'[z].xmax0 = "tx" /\ strip'[z].xmax1 = "tx"
  <2>1. ~(WithinRegions /\ r > base)
    BY <1>3, NotOver
  <2>2. k \in {0, 4}
    BY <1>1, <1>3, <2>1 DEF MarkerLasts
  <2>3. row[p] # r /\ row[p] \in 0 .. MaxRows
    <3>1. Unwritten(row[p]) /\ row[p] \in Rows
      BY <1>3, Exclusive
    <3> QED
      BY <3>1, BoundsAssumption DEF Rows
  <2>4. k # 4
    BY <1>0, <1>3, <2>3, BlocksKept DEF FullStrip
  <2> QED
    BY <1>0, <1>1, <1>3, <2>2, <2>3, <2>4, BlocksKept DEF Dead
<1>4. ASSUME NEW k \in 0 .. 2, strip'[z] = XmaxBlocks(strip[z], k)
      PROVE  strip'[z].xmax0 = "tx" /\ strip'[z].xmax1 = "tx"
  <2>1. strip[z].cols = r
    BY <1>0, <1>4, BlocksKept
  <2> QED
    BY <1>0, <1>1, <1>4, <2>1, BlocksKept DEF Dead
<1> QED
  BY <1>2, <1>3, <1>4, StripEffect

\* Rows that were written stay.
LEMMA PresentKept ==
  ASSUME GInv, [Next]_vars, NEW r \in 1 .. nrows, Present(home[r], r)
  PROVE  Present(home[r], r)'
<1>a. nrows \in 0 .. MaxRows /\ MaxRows \in Nat
  BY Facts DEF GInv
<1>b. r \in 0 .. MaxRows /\ r # 0 /\ r <= nrows /\ r \in Rows
  BY <1>a DEF Rows
<1>0. r \in 0 .. MaxRows /\ r # 0 /\ r <= nrows /\ home[r] \in Zs
      /\ strip[home[r]] \in Strips
  BY <1>b, Facts DEF GInv
<1> SUFFICES ASSUME WithinRegions', r > base'
             PROVE  strip'[home'[r]].xmin = "tx" /\ strip'[home'[r]].cols = r
  BY DEF Present
<1>1. home'[r] = home[r] /\ WithinRegions /\ r > base
  BY <1>0, Kept
<1>2. strip[home[r]].xmin = "tx" /\ strip[home[r]].cols = r
  BY <1>1 DEF Present
<1>3. ASSUME NEW p \in Sessions, InsertWrite(p), home[r] = pos[p] PROVE FALSE
  <2>1. ~Unwritten(r)
    BY <1>0, <1>2 DEF GInv, TableInv, StripInv
  <2> QED
    BY <1>0, <1>1, <1>3, <2>1, NotOver
<1>4. strip'[home[r]] = strip[home[r]]
      \/ \E k \in 0 .. 2 : strip'[home[r]] = XmaxBlocks(strip[home[r]], k)
  BY <1>0, <1>3, StripEffect
<1> QED
  BY <1>0, <1>1, <1>2, <1>4, BlocksKept, SMTT(30)


-----------------------------------------------------------------------------
(* How statements move.                                                    *)

\* A session's step leaves the other sessions where they are.
LEMMA Others ==
  ASSUME IInv, NEW p \in Sessions, Start(p) \/ Step(p) \/ Scanner(p),
         NEW q \in Sessions, q # p
  PROVE  /\ pc'[q] = pc[q] /\ op'[q] = op[q] /\ pos'[q] = pos[q] /\ row'[q] = row[q]
         /\ lsn'[q] = lsn[q] /\ book'[q] = book[q] /\ scan'[q] = scan[q]
         /\ chan'[q] = chan[q]
<1>0. /\ pc \in [Sessions -> Pcs] /\ pos \in [Sessions -> Zs]
      /\ op \in [Sessions -> {"NONE", "INSERT", "SELECT", "DELETE"}]
      /\ row \in [Sessions -> 0 .. MaxRows] /\ lsn \in [Sessions -> LSNs]
      /\ book \in [Sessions -> Books] /\ scan \in [Sessions -> Scans]
      /\ chan \in [Sessions -> Seq(Items)]
  BY Facts
<1>1. ASSUME NEW t \in Tables, StartInsert(p, t)
      PROVE  /\ pc'[q] = pc[q] /\ op'[q] = op[q] /\ pos'[q] = pos[q] /\ row'[q] = row[q]
             /\ lsn'[q] = lsn[q] /\ book'[q] = book[q] /\ scan'[q] = scan[q]
             /\ chan'[q] = chan[q]
  BY <1>0, <1>1 DEF StartInsert, Goto, scans
<1>2. ASSUME NEW t \in Tables, NEW w \in Wheres, NEW k, StartScan(p, t, w, k)
      PROVE  /\ pc'[q] = pc[q] /\ op'[q] = op[q] /\ pos'[q] = pos[q] /\ row'[q] = row[q]
             /\ lsn'[q] = lsn[q] /\ book'[q] = book[q] /\ scan'[q] = scan[q]
             /\ chan'[q] = chan[q]
  BY <1>0, <1>2 DEF StartScan, Goto
<1>3. CASE LoadRowChunk(p) \/ AllocLSN(p) \/ AppendWrite(p) \/ InsertWrite(p)
           \/ XmaxWrite(p)
  BY <1>0, <1>3
  DEF LoadRowChunk, AllocLSN, AppendWrite, InsertWrite, XmaxWrite, Goto, locals, scans
<1>4. CASE CommitRead(p) \/ CommitWrite(p) \/ RecvDone(p) \/ Mark(p)
  BY <1>0, <1>4 DEF CommitRead, CommitWrite, RecvDone, Mark, Goto, locals, scans
<1>5. CASE Recv(p) \/ Reply(p)
  BY <1>0, <1>5 DEF Recv, Arrived, Reply, Goto
<1>6. CASE Scanner(p)
  BY <1>0, <1>6 DEF Scanner, ScanRead, ScanSend, ScanClose, locals
<1> QED
  BY <1>1, <1>2, <1>3, <1>4, <1>5, <1>6 DEF Start, StartSelect, StartDelete, Step

\* The steps of the process leave the sessions alone or end them.
LEMMA ProcessMoves ==
  ASSUME Restart \/ Recovery \/ Shutdown \/ Crash \/ UNCHANGED vars
  PROVE  \/ UNCHANGED <<pc, locals, scans, marked, acked, deleted>>
         \/ Volatile /\ UNCHANGED <<marked, acked, deleted>>
BY DEF Restart, Recovery, RecoverRead, ReplayInsert, ReplayUpdateXmax, RecoverCommit,
   LoadCatalog, Shutdown, Crash, Fatal, RecoverNext, ToCommit, Skip, vars, history

\* Where an INSERT in progress comes from.
LEMMA InsertMoves ==
  ASSUME GInv, [Next]_vars, NEW q \in Sessions, op'[q] = "INSERT"
  PROVE  \/ \E t \in Tables : StartInsert(q, t)
         \/ /\ op[q] = "INSERT" /\ row'[q] = row[q] /\ pos'[q] = pos[q]
            /\ pc'[q] \in {"load", "alloc", "append", "data"} =>
                 pc[q] \in {"load", "alloc", "append", "data"}
            /\ pc'[q] \in {"cread", "cwrite"} =>
                 \/ pc[q] \in {"cread", "cwrite"}
                 \/ InsertWrite(q) /\ pc'[q] = "cread"
<1> USE DEF GInv
<1>0. /\ pc \in [Sessions -> Pcs] /\ pos \in [Sessions -> Zs] /\ OpInv
      /\ op \in [Sessions -> {"NONE", "INSERT", "SELECT", "DELETE"}]
      /\ row \in [Sessions -> 0 .. MaxRows]
  BY Facts DEF TableInv
<1> DEFINE Kin == /\ op[q] = "INSERT" /\ row'[q] = row[q] /\ pos'[q] = pos[q]
                  /\ pc'[q] \in {"load", "alloc", "append", "data"} =>
                       pc[q] \in {"load", "alloc", "append", "data"}
                  /\ pc'[q] \in {"cread", "cwrite"} =>
                       \/ pc[q] \in {"cread", "cwrite"}
                       \/ InsertWrite(q) /\ pc'[q] = "cread"
<1>1. CASE UNCHANGED <<pc, op, row, pos>>
  BY <1>1
<1>2. ASSUME Volatile PROVE FALSE
  BY <1>2 DEF Volatile
<1>3. ASSUME NEW p \in Sessions, Start(p) \/ Step(p) \/ Scanner(p), p # q PROVE Kin
  BY <1>3, Others
<1>4. ASSUME NEW t \in Tables, NEW w \in Wheres,
             StartSelect(q, t, w) \/ StartDelete(q, t, w) PROVE FALSE
  BY <1>0, <1>4 DEF StartSelect, StartDelete, StartScan
<1>5. ASSUME Step(q) PROVE Kin
  <2>1. CASE LoadRowChunk(q) \/ AllocLSN(q) \/ AppendWrite(q)
    BY <1>0, <2>1
    DEF LoadRowChunk, AllocLSN, AppendWrite, Goto, locals, AfterAlloc, AfterAppend
  <2>2. CASE InsertWrite(q) \/ XmaxWrite(q)
    BY <1>0, <2>2 DEF InsertWrite, XmaxWrite, Goto, locals
  <2>3. CASE CommitRead(q) \/ CommitWrite(q)
    BY <1>0, <2>3 DEF CommitRead, CommitWrite, Goto, locals
  <2>4. CASE Recv(q)
    BY <1>0, <2>4 DEF Recv, Arrived, Goto, OpInv
  <2>5. CASE RecvDone(q) \/ Mark(q) \/ Reply(q)
    BY <1>0, <2>5 DEF RecvDone, Mark, Reply, Goto, OpInv, locals
  <2> QED
    BY <1>5, <2>1, <2>2, <2>3, <2>4, <2>5 DEF Step
<1>6. ASSUME Scanner(q) PROVE Kin
  BY <1>1, <1>6 DEF Scanner, ScanRead, ScanSend, ScanClose, locals
<1>7. ASSUME Restart \/ Recovery \/ Shutdown \/ Crash \/ UNCHANGED vars PROVE Kin
  BY <1>1, <1>2, <1>7, ProcessMoves DEF locals
<1> QED
  BY <1>3, <1>4, <1>5, <1>6, <1>7 DEF Next, Start

\* Where a DELETE in progress comes from.
LEMMA DeleteMoves ==
  ASSUME GInv, [Next]_vars, NEW q \in Sessions, op'[q] = "DELETE",
         pc'[q] \in {"mark", "alloc", "append", "data", "cread", "cwrite"}
  PROVE  \/ Recv(q) /\ pc'[q] = "mark"
         \/ /\ op[q] = "DELETE" /\ row'[q] = row[q] /\ pos'[q] = pos[q]
            /\ pc[q] \in {"mark", "alloc", "append", "data", "cread", "cwrite"}
            /\ pc'[q] \in {"alloc", "append", "data", "cread", "cwrite"} =>
                 pc[q] \in {"alloc", "append", "data", "cread", "cwrite"} \/ Mark(q)
            /\ pc'[q] \in {"cread", "cwrite"} =>
                 \/ pc[q] \in {"cread", "cwrite"}
                 \/ XmaxWrite(q) /\ pc'[q] = "cread"
<1> USE DEF GInv
<1>0. /\ pc \in [Sessions -> Pcs] /\ pos \in [Sessions -> Zs] /\ OpInv
      /\ op \in [Sessions -> {"NONE", "INSERT", "SELECT", "DELETE"}]
      /\ row \in [Sessions -> 0 .. MaxRows]
  BY Facts DEF TableInv
<1> DEFINE Kin == /\ op[q] = "DELETE" /\ row'[q] = row[q] /\ pos'[q] = pos[q]
                  /\ pc[q] \in {"mark", "alloc", "append", "data", "cread", "cwrite"}
                  /\ pc'[q] \in {"alloc", "append", "data", "cread", "cwrite"} =>
                       pc[q] \in {"alloc", "append", "data", "cread", "cwrite"} \/ Mark(q)
                  /\ pc'[q] \in {"cread", "cwrite"} =>
                       \/ pc[q] \in {"cread", "cwrite"}
                       \/ XmaxWrite(q) /\ pc'[q] = "cread"
<1>1. CASE UNCHANGED <<pc, op, row, pos>>
  BY <1>1
<1>2. ASSUME Volatile PROVE FALSE
  BY <1>2 DEF Volatile
<1>3. ASSUME NEW p \in Sessions, Start(p) \/ Step(p) \/ Scanner(p), p # q PROVE Kin
  BY <1>3, Others
<1>4. ASSUME Start(q) PROVE FALSE
  <2>1. ASSUME NEW t \in Tables, StartInsert(q, t) PROVE FALSE
    BY <1>0, <2>1 DEF StartInsert
  <2>2. ASSUME NEW t \in Tables, NEW w \in Wheres, NEW k, StartScan(q, t, w, k) PROVE FALSE
    BY <1>0, <2>2 DEF StartScan, Goto
  <2> QED
    BY <1>4, <2>1, <2>2 DEF Start, StartSelect, StartDelete
<1>5. ASSUME Step(q), ~(Recv(q) /\ pc'[q] = "mark") PROVE Kin
  <2>1. CASE LoadRowChunk(q) \/ AllocLSN(q) \/ AppendWrite(q)
    BY <1>0, <2>1
    DEF LoadRowChunk, AllocLSN, AppendWrite, Goto, locals, AfterAlloc, AfterAppend, OpInv
  <2>2. CASE InsertWrite(q) \/ XmaxWrite(q)
    BY <1>0, <2>2 DEF InsertWrite, XmaxWrite, Goto, locals
  <2>3. CASE CommitRead(q) \/ CommitWrite(q)
    BY <1>0, <2>3 DEF CommitRead, CommitWrite, Goto, locals
  <2>4. CASE Recv(q)
    BY <1>0, <1>5, <2>4 DEF Recv, Arrived, Goto
  <2>5. CASE RecvDone(q) \/ Mark(q) \/ Reply(q)
    BY <1>0, <2>5 DEF RecvDone, Mark, Reply, Goto, locals
  <2> QED
    BY <1>5, <2>1, <2>2, <2>3, <2>4, <2>5 DEF Step
<1>6. ASSUME Scanner(q) PROVE Kin
  BY <1>1, <1>6 DEF Scanner, ScanRead, ScanSend, ScanClose, locals
<1>7. ASSUME Restart \/ Recovery \/ Shutdown \/ Crash \/ UNCHANGED vars PROVE Kin
  BY <1>1, <1>2, <1>7, ProcessMoves DEF locals
<1> QED
  BY <1>3, <1>4, <1>5, <1>6, <1>7 DEF Next


-----------------------------------------------------------------------------
(* The invariant is kept, one part after the other.                        *)

\* Statements stay on their own paths.
LEMMA OpStep == GInv /\ [Next]_vars => OpInv'
<1> SUFFICES ASSUME GInv, [Next]_vars PROVE OpInv'
  OBVIOUS
<1> USE DEF GInv
<1>0. /\ pc \in [Sessions -> Pcs] /\ OpInv
      /\ op \in [Sessions -> {"NONE", "INSERT", "SELECT", "DELETE"}]
      /\ nrows \in Int /\ base \in Int
  BY Facts DEF TableInv
<1>1. base' <= nrows'
  <2>1. ASSUME NEW p \in Sessions, NEW t \in Tables, StartInsert(p, t) PROVE base' <= nrows'
    BY <1>0, <2>1 DEF StartInsert, OpInv
  <2>2. CASE Volatile /\ UNCHANGED <<nrows, home, strip>>
    BY <1>0, <2>2 DEF Volatile
  <2>3. CASE UNCHANGED <<nrows, home, base>>
    BY <1>0, <2>3 DEF OpInv
  <2> QED
    BY <2>1, <2>2, <2>3, Counters
<1> DEFINE Fits(q) ==
       /\ pc[q] = "load" => op[q] = "INSERT"
       /\ pc[q] \in {"alloc", "append", "data", "cread", "cwrite"} =>
            op[q] \in {"INSERT", "DELETE"}
       /\ pc[q] = "mark" => op[q] = "DELETE"
       /\ pc[q] = "recv" => op[q] \in {"SELECT", "DELETE"}
       /\ pc[q] = "idle" => op[q] = "NONE"
<1>2. ASSUME NEW q \in Sessions PROVE Fits(q)'
  <2>1. ASSUME NEW p \in Sessions, Start(p) \/ Step(p) \/ Scanner(p), p # q PROVE Fits(q)'
    BY <1>0, <2>1, Others DEF OpInv
  <2>2. ASSUME Start(q) PROVE Fits(q)'
    <3>1. ASSUME NEW t \in Tables, StartInsert(q, t) PROVE Fits(q)'
      BY <1>0, <3>1 DEF StartInsert, Goto
    <3>2. ASSUME NEW t \in Tables, NEW w \in Wheres, NEW k \in {"SELECT", "DELETE"},
                 StartScan(q, t, w, k) PROVE Fits(q)'
      BY <1>0, <3>2 DEF StartScan, Goto
    <3> QED
      BY <2>2, <3>1, <3>2 DEF Start, StartSelect, StartDelete
  <2>3. ASSUME Step(q) PROVE Fits(q)'
    <3>1. CASE LoadRowChunk(q) \/ AllocLSN(q) \/ AppendWrite(q)
      BY <1>0, <3>1
      DEF LoadRowChunk, AllocLSN, AppendWrite, Goto, locals, AfterAlloc, AfterAppend, OpInv
    <3>2. CASE InsertWrite(q) \/ XmaxWrite(q) \/ CommitRead(q)
      BY <1>0, <3>2 DEF InsertWrite, XmaxWrite, CommitRead, Goto, locals, OpInv
    <3>3. CASE CommitWrite(q)
      BY <1>0, <3>3 DEF CommitWrite, Goto, locals, OpInv
    <3>4. CASE Recv(q)
      BY <1>0, <3>4 DEF Recv, Arrived, Goto, OpInv
    <3>5. CASE RecvDone(q) \/ Mark(q) \/ Reply(q)
      BY <1>0, <3>5 DEF RecvDone, Mark, Reply, Goto, OpInv, locals
    <3> QED
      BY <2>3, <3>1, <3>2, <3>3, <3>4, <3>5 DEF Step
  <2>4. ASSUME Scanner(q) PROVE Fits(q)'
    BY <1>0, <2>4 DEF Scanner, ScanRead, ScanSend, ScanClose, locals, OpInv
  <2>5. ASSUME Restart \/ Recovery \/ Shutdown \/ Crash \/ UNCHANGED vars PROVE Fits(q)'
    <3>1. CASE UNCHANGED <<pc, op>>
      BY <1>0, <3>1 DEF OpInv
    <3>2. CASE Volatile
      BY <3>2 DEF Volatile
    <3> QED
      BY <2>5, <3>1, <3>2, ProcessMoves DEF locals
  <2> QED
    BY <2>1, <2>2, <2>3, <2>4, <2>5 DEF Next
<1> QED
  BY <1>1, <1>2 DEF OpInv

\* Rows that INSERTs in progress have numbered.
LEMMA InsertRow ==
  ASSUME GInv, NEW q \in Sessions, op[q] = "INSERT"
  PROVE  /\ row[q] \in 1 .. nrows /\ row[q] \in 0 .. MaxRows /\ row[q] <= nrows /\ row[q] # 0
         /\ row[q] > base /\ pos[q] = home[row[q]]
         /\ pc[q] \notin {"load", "alloc", "append", "data"} => ~Unwritten(row[q])
<1>0. nrows \in 0 .. MaxRows /\ base \in 0 .. MaxRows /\ MaxRows \in Nat
  BY Facts DEF GInv
<1>1. /\ row[q] \in (base + 1) .. nrows /\ pos[q] = home[row[q]]
      /\ \A p \in Sessions : op[p] = "INSERT" /\ row[q] = row[p] => q = p
  BY DEF GInv, TableInv, InsertInv
<1>2. pc[q] \notin {"load", "alloc", "append", "data"} => ~Unwritten(row[q])
  BY <1>1 DEF Unwritten
<1> QED
  BY <1>0, <1>1, <1>2

\* An INSERT's slot holds its row once the data write has succeeded, and in a
\* first process nothing before.
LEMMA InsertStep == GInv /\ [Next]_vars => InsertInv'
<1> SUFFICES ASSUME GInv, [Next]_vars PROVE InsertInv'
  OBVIOUS
<1>0. /\ nrows \in 0 .. MaxRows /\ base \in 0 .. MaxRows /\ MaxRows \in Nat
      /\ strip \in [Zs -> Strips] /\ pos \in [Sessions -> Zs] /\ home \in [Rows -> Zs]
      /\ row \in [Sessions -> 0 .. MaxRows]
  BY Facts DEF GInv
\* The row that a StartInsert numbers.
<1>1. ASSUME NEW q \in Sessions, NEW t \in Tables, StartInsert(q, t)
      PROVE  /\ row'[q] = nrows + 1 /\ nrows' = nrows + 1 /\ base' = base
             /\ pos'[q] = home'[nrows + 1] /\ pc'[q] = "load" /\ strip' = strip
             /\ pos'[q] \in Zs
  <2>1. nrows + 1 \in Rows /\ RowZ(t, rowCount[t]) \in Zs
    BY <1>0, <1>1, RowZType, Facts DEF StartInsert, Rows, GInv
  <2> QED
    BY <1>0, <1>1, <2>1, Facts DEF StartInsert, Goto, world, GInv
\* An INSERT that goes on keeps its row, and no new one has it.
<1>2. ASSUME NEW q \in Sessions, op[q] = "INSERT", op'[q] = "INSERT", row'[q] = row[q],
             pos'[q] = pos[q]
      PROVE  /\ row'[q] \in (base' + 1) .. nrows' /\ pos'[q] = home'[row'[q]]
  <2>1. /\ row[q] \in 0 .. MaxRows /\ row[q] <= nrows /\ row[q] # 0 /\ row[q] > base
        /\ pos[q] = home[row[q]] /\ row[q] \in 1 .. nrows
    BY <1>2, InsertRow
  <2>2. home'[row[q]] = home[row[q]] /\ row[q] <= nrows'
    BY <2>1, Kept
  <2>3. ~Volatile
    BY <1>2 DEF Volatile
  <2>4. base' = base /\ nrows' \in Int
    BY <1>0, <2>3, Counters DEF StartInsert
  <2> QED
    BY <1>0, <1>2, <2>1, <2>2, <2>4
<1>3. ASSUME NEW q \in Sessions, op'[q] = "INSERT"
      PROVE  row'[q] \in (base' + 1) .. nrows' /\ pos'[q] = home'[row'[q]]
  <2>1. ASSUME NEW t \in Tables, StartInsert(q, t)
        PROVE  row'[q] \in (base' + 1) .. nrows' /\ pos'[q] = home'[row'[q]]
    BY <1>0, <1>1, <2>1 DEF GInv, TableInv, OpInv
  <2> QED
    BY <1>2, <1>3, <2>1, InsertMoves
<1>4. ASSUME NEW q \in Sessions, NEW p \in Sessions, op'[q] = "INSERT",
             op'[p] = "INSERT", row'[q] = row'[p]
      PROVE  q = p
  <2>1. ASSUME NEW s1 \in Sessions, NEW s2 \in Sessions, NEW t \in Tables,
               StartInsert(s1, t), s1 # s2, op'[s2] = "INSERT"
        PROVE  row'[s2] # row'[s1]
    <3>1. op[s2] = "INSERT" /\ row'[s2] = row[s2]
      BY <2>1, Others DEF GInv, Start
    <3>2. row[s2] <= nrows /\ row[s2] \in Int
      BY <1>0, <3>1, InsertRow
    <3> QED
      BY <1>0, <1>1, <2>1, <3>1, <3>2
  <2>2. CASE \E t \in Tables : StartInsert(q, t) \/ StartInsert(p, t)
    BY <1>4, <2>1, <2>2
  <2>3. CASE ~ \E t \in Tables : StartInsert(q, t) \/ StartInsert(p, t)
    <3>1. op[q] = "INSERT" /\ row'[q] = row[q] /\ op[p] = "INSERT" /\ row'[p] = row[p]
      BY <1>4, <2>3, InsertMoves
    <3> QED
      BY <1>4, <3>1 DEF GInv, TableInv, InsertInv
  <2> QED
    BY <2>2, <2>3
<1>5. ASSUME NEW q \in Sessions, op'[q] = "INSERT", pc'[q] \in {"cread", "cwrite"}
      PROVE  Present(pos[q], row[q])'
  <2>1. ASSUME NEW t \in Tables, StartInsert(q, t) PROVE FALSE
    BY <1>1, <1>5, <2>1
  <2>2. op[q] = "INSERT" /\ row'[q] = row[q] /\ pos'[q] = pos[q]
        /\ (pc[q] \in {"cread", "cwrite"} \/ (InsertWrite(q) /\ pc'[q] = "cread"))
    <3>1. ~ \E t \in Tables : StartInsert(q, t)
      BY <2>1
    <3> HIDE <1>5
    <3>2. op'[q] = "INSERT" /\ pc'[q] \in {"cread", "cwrite"}
      BY <1>5
    <3> QED
      BY <3>1, <3>2, InsertMoves
  <2>3. /\ row[q] \in 1 .. nrows /\ row[q] \in 0 .. MaxRows /\ pos[q] = home[row[q]]
        /\ pc[q] \in {"cread", "cwrite"} => ~Unwritten(row[q])
    BY <2>2, InsertRow
  <2>4. CASE pc[q] \in {"cread", "cwrite"}
    <3>1. Present(home[row[q]], row[q])
      BY <2>2, <2>3, <2>4 DEF GInv, TableInv, InsertInv
    <3>2. Present(home[row[q]], row[q])'
      <4>1. \A r \in 1 .. nrows : ~Unwritten(r) /\ Present(home[r], r) =>
              (WithinRegions' /\ r > base' =>
                 strip'[home'[r]].xmin = "tx" /\ strip'[home'[r]].cols = r)
        BY PresentKept DEF Present
      <4>2. WithinRegions' /\ row[q] > base' =>
              strip'[home'[row[q]]].xmin = "tx" /\ strip'[home'[row[q]]].cols = row[q]
        BY <2>3, <2>4, <3>1, <4>1
      <4> QED
        BY <2>2, <4>2 DEF Present
    <3> QED
      BY <1>3, <1>5, <3>2
  <2>5. CASE InsertWrite(q) /\ pc'[q] = "cread"
    <3>1. strip' = [strip EXCEPT ![pos[q]] = InsertBlocks(strip[pos[q]], row[q], 4)]
      BY <2>5, InsertEffect
    <3>2. strip'[pos[q]] = FullStrip(row[q])
      BY <1>0, <2>3, <3>1, BlocksKept
    <3> QED
      BY <2>2, <3>2 DEF Present, FullStrip
  <2> QED
    BY <2>2, <2>4, <2>5
<1>6. ASSUME NEW q \in Sessions, op'[q] = "INSERT", FirstInWorld', WithinRegions',
             pc'[q] \in {"load", "alloc", "append", "data"}
      PROVE  strip'[pos'[q]] = EmptyStrip
  <2>1. ASSUME NEW t \in Tables, StartInsert(q, t) PROVE strip'[pos'[q]] = EmptyStrip
    <3>1. /\ nrows' = nrows + 1 /\ base' = base /\ pos'[q] = home'[nrows + 1]
          /\ strip' = strip /\ pos'[q] \in Zs
      BY <1>1, <2>1
    <3>2. ASSUME NEW r \in 1 .. nrows PROVE home[r] # pos'[q]
      <4>1. SlotInv'
        BY SlotStep DEF GInv
      <4>2. r \in (base' + 1) .. nrows' /\ nrows + 1 \in (base' + 1) .. nrows'
            /\ r # nrows + 1
        BY <1>0, <1>6, <3>1 DEF FirstInWorld
      <4>3. home'[r] # home'[nrows + 1]
        BY <1>6, <4>1, <4>2 DEF SlotInv, SlotExclusive, NoCollision
      <4>4. home'[r] = home[r]
        BY <1>0, Kept
      <4> QED
        BY <3>1, <4>3, <4>4
    <3>3. FirstInWorld
      BY <1>6, <3>1 DEF FirstInWorld
    <3> QED
      BY <3>1, <3>2, <3>3 DEF GInv, TableInv, StripInv
  <2>2. CASE ~ \E t \in Tables : StartInsert(q, t)
    <3>1. /\ op[q] = "INSERT" /\ row'[q] = row[q] /\ pos'[q] = pos[q]
          /\ pc[q] \in {"load", "alloc", "append", "data"}
      BY <1>6, <2>2, InsertMoves
    <3>2. /\ row[q] \in 1 .. nrows /\ row[q] \in 0 .. MaxRows /\ row[q] <= nrows
          /\ row[q] > base /\ pos[q] = home[row[q]]
      BY <3>1, InsertRow
    <3>3. row'[q] > base'
      BY <1>0, <1>3, <1>6 DEF FirstInWorld
    <3>4. WithinRegions /\ FirstInWorld
      BY <1>6, <3>1, <3>2, <3>3, Kept DEF FirstInWorld
    <3>5. strip[pos[q]] = EmptyStrip /\ pos[q] \in Zs
      BY <1>0, <3>1, <3>4 DEF GInv, TableInv, InsertInv
    <3>6. ASSUME NEW p \in Sessions, InsertWrite(p), pos[q] = pos[p] PROVE FALSE
      <4>1. row[q] = row[p] /\ p = q
        BY <3>1, <3>2, <3>4, <3>6, Exclusive, ZenonT(30)
      <4> QED
        BY <1>6, <3>6, <4>1, Facts DEF InsertWrite, Goto, GInv
    <3>7. ASSUME NEW r \in 0 .. MaxRows, Read(pos[q], r) PROVE FALSE
      BY <3>5, <3>7 DEF Read, Decodable, EmptyStrip
    <3> QED
      BY <3>1, <3>5, <3>6, <3>7, StripEffect
  <2> QED
    BY <2>1, <2>2
<1> QED
  BY <1>3, <1>4, <1>5, <1>6 DEF InsertInv

\* A process that runs over an empty world did so before the step.
LEMMA FirstKept ==
  ASSUME GInv, [Next]_vars, FirstInWorld'
  PROVE  FirstInWorld
<1>0. nrows \in Int /\ base \in 0 .. MaxRows /\ base <= nrows /\ MaxRows \in Nat
  BY Facts DEF GInv, TableInv, OpInv
<1>1. ASSUME NEW p \in Sessions, NEW t \in Tables, StartInsert(p, t) PROVE FirstInWorld
  BY <1>1 DEF StartInsert, FirstInWorld
<1>2. CASE Volatile /\ UNCHANGED <<nrows, home, strip>>
  BY <1>0, <1>2 DEF Volatile, FirstInWorld
<1>3. CASE UNCHANGED <<nrows, home, base>>
  BY <1>3 DEF FirstInWorld
<1> QED
  BY <1>1, <1>2, <1>3, Counters

\* The data write of an INSERT ends the wait for its row.
LEMMA InsertEnds ==
  ASSUME GInv, NEW p \in Sessions, InsertWrite(p), NEW r, r = row[p]
  PROVE  ~Unwritten(r)'
<1>1. /\ op' = op /\ row' = row /\ pc'[p] \in {"cread", "err"}
      /\ \A q \in Sessions : q # p => pc'[q] = pc[q]
  BY Facts DEF InsertWrite, locals, Goto, GInv
<1>2. \A q \in Sessions : op[q] = "INSERT" /\ row[q] = row[p] => q = p
  BY Exclusive
<1> QED
  BY <1>1, <1>2 DEF Unwritten

\* Rows that a DELETE picked stay picked, and what clients are told stays told.
LEMMA HistoryGrows ==
  ASSUME [Next]_vars
  PROVE  marked \subseteq marked' /\ acked \subseteq acked' /\ deleted \subseteq deleted'
<1>1. ASSUME NEW p \in Sessions, Start(p) \/ Step(p) \/ Scanner(p)
      PROVE  marked \subseteq marked' /\ acked \subseteq acked' /\ deleted \subseteq deleted'
  <2>1. CASE Mark(p) \/ CommitWrite(p)
    BY <2>1 DEF Mark, CommitWrite
  <2>2. CASE Start(p)
    BY <2>2 DEF Start, StartInsert, StartSelect, StartDelete, StartScan
  <2>3. CASE LoadRowChunk(p) \/ AllocLSN(p) \/ AppendWrite(p) \/ InsertWrite(p)
             \/ XmaxWrite(p) \/ CommitRead(p) \/ Recv(p) \/ RecvDone(p) \/ Reply(p)
             \/ Scanner(p)
    BY <2>3 DEF LoadRowChunk, AllocLSN, AppendWrite, InsertWrite, XmaxWrite, CommitRead,
       Recv, RecvDone, Reply, Scanner, ScanRead, ScanSend, ScanClose, history
  <2> QED
    BY <1>1, <2>1, <2>2, <2>3 DEF Step
<1>2. ASSUME Restart \/ Recovery \/ Shutdown \/ Crash \/ UNCHANGED vars
      PROVE  marked \subseteq marked' /\ acked \subseteq acked' /\ deleted \subseteq deleted'
  BY <1>2, ProcessMoves
<1> QED
  BY <1>1, <1>2 DEF Next

\* A strip's columns are those of a row that was written to it, and a first
\* process finds each of them whole until a DELETE picks the row.
LEMMA StripStep == GInv /\ [Next]_vars => StripInv'
<1> SUFFICES ASSUME GInv, [Next]_vars, NEW z \in Zs
             PROVE  /\ strip'[z].cols # 0 =>
                         /\ strip'[z].cols <= nrows' /\ home'[strip'[z].cols] = z
                         /\ \A r : r = strip'[z].cols => ~Unwritten(r)'
                         /\ FirstInWorld' /\ WithinRegions' =>
                              \/ strip'[z].cols \in marked'
                              \/ strip'[z] = FullStrip(strip'[z].cols)
                    /\ FirstInWorld' /\ strip'[z] # EmptyStrip =>
                         \E r \in 1 .. nrows' : home'[r] = z
  BY DEF StripInv, Unwritten
<1>0. /\ nrows \in 0 .. MaxRows /\ base \in 0 .. MaxRows /\ MaxRows \in Nat
      /\ strip[z] \in Strips /\ strip[z].cols \in 0 .. MaxRows
      /\ \A p \in Sessions : row[p] \in 0 .. MaxRows
  <2>1. strip[z] \in Strips
    BY Facts DEF GInv
  <2> QED
    BY <2>1, Facts DEF GInv, Strips
<1>1. /\ strip[z].cols # 0 =>
           /\ strip[z].cols <= nrows /\ home[strip[z].cols] = z
           /\ ~Unwritten(strip[z].cols)
           /\ FirstInWorld /\ WithinRegions =>
                strip[z].cols \in marked \/ strip[z] = FullStrip(strip[z].cols)
      /\ FirstInWorld /\ strip[z] # EmptyStrip => \E r \in 1 .. nrows : home[r] = z
  BY DEF GInv, TableInv, StripInv
<1>2. \A r \in 1 .. nrows : home'[r] = home[r] /\ r \in 1 .. nrows'
  <2> TAKE r \in 1 .. nrows
  <2>1. r \in 0 .. MaxRows /\ r <= nrows /\ r # 0 /\ 1 <= r /\ r \in Int
    BY <1>0
  <2>2. home'[r] = home[r] /\ nrows' \in Int /\ r <= nrows'
    BY <2>1, Kept
  <2> QED
    BY <2>1, <2>2
<1>3. ASSUME strip[z] # EmptyStrip, FirstInWorld' PROVE \E r \in 1 .. nrows' : home'[r] = z
  BY <1>1, <1>2, <1>3, FirstKept
\* What holds of columns that the step does not change.
<1>4. ASSUME strip[z].cols # 0
      PROVE  /\ strip[z].cols <= nrows' /\ home'[strip[z].cols] = z
             /\ \A r : r = strip[z].cols => ~Unwritten(r)'
             /\ FirstInWorld' /\ WithinRegions' => FirstInWorld /\ WithinRegions
  <2>1. strip[z].cols \in 1 .. nrows /\ nrows # 0
    BY <1>0, <1>1, <1>4
  <2>2. \A r \in 0 .. MaxRows : r <= nrows =>
          (Unwritten(r)' => Unwritten(r)) /\ r <= nrows'
          /\ (WithinRegions' /\ base' = 0 => base = 0 /\ (WithinRegions \/ nrows = 0))
    BY Kept
  <2> QED
    BY <1>0, <1>1, <1>2, <1>4, <2>1, <2>2 DEF FirstInWorld
<1>5. CASE strip'[z] = strip[z]
  BY <1>1, <1>3, <1>4, <1>5, HistoryGrows
<1>6. ASSUME NEW p \in Sessions, NEW k \in 0 .. 4, InsertWrite(p), z = pos[p],
             strip'[z] = InsertBlocks(strip[z], row[p], k)
      PROVE  /\ strip'[z].cols # 0 =>
                  /\ strip'[z].cols <= nrows' /\ home'[strip'[z].cols] = z
                  /\ \A r : r = strip'[z].cols => ~Unwritten(r)'
                  /\ FirstInWorld' /\ WithinRegions' =>
                       \/ strip'[z].cols \in marked'
                       \/ strip'[z] = FullStrip(strip'[z].cols)
             /\ FirstInWorld' => \E r \in 1 .. nrows' : home'[r] = z
  <2>1. row[p] \in 1 .. nrows /\ home[row[p]] = z /\ pc[p] = "data" /\ op[p] = "INSERT"
    BY <1>0, <1>6, Exclusive
  <2>2. CASE k = 4
    <3>1. strip'[z] = FullStrip(row[p]) /\ strip'[z].cols = row[p]
      BY <1>0, <1>6, <2>2, BlocksKept DEF FullStrip
    <3> QED
      BY <1>0, <1>2, <1>6, <2>1, <3>1, InsertEnds
  <2>3. CASE k # 4
    <3>1. strip'[z].cols = strip[z].cols
      BY <1>0, <1>6, <2>3, BlocksKept, SMTT(30)
    <3>2. FirstInWorld /\ WithinRegions => strip[z].cols = 0
      BY <1>6, <2>1 DEF GInv, TableInv, InsertInv, EmptyStrip
    <3> QED
      BY <1>2, <1>4, <2>1, <3>1, <3>2
  <2> QED
    BY <2>2, <2>3
<1>7. ASSUME NEW k \in 0 .. 2, NEW r \in 0 .. MaxRows,
             strip'[z] = XmaxBlocks(strip[z], k), Read(z, r), r \in marked \/ base = nrows
      PROVE  /\ strip'[z].cols # 0 =>
                  /\ strip'[z].cols <= nrows' /\ home'[strip'[z].cols] = z
                  /\ \A n : n = strip'[z].cols => ~Unwritten(n)'
                  /\ FirstInWorld' /\ WithinRegions' => strip'[z].cols \in marked'
             /\ FirstInWorld' => \E n \in 1 .. nrows' : home'[n] = z
  <2>1. strip'[z].cols = strip[z].cols
    BY <1>0, <1>7, BlocksKept
  <2>2. strip[z] # EmptyStrip
    BY <1>7 DEF Read, Decodable, EmptyStrip
  <2>3. FirstInWorld /\ WithinRegions => strip[z].cols = r /\ r <= nrows
    BY <1>7 DEF Read
  <2>4. FirstInWorld /\ WithinRegions /\ r # 0 => r \in marked'
    BY <1>0, <1>7, <2>3, HistoryGrows DEF FirstInWorld
  <2> QED
    BY <1>3, <1>4, <2>1, <2>2, <2>3, <2>4
<1> QED
  BY <1>5, <1>6, <1>7, StripEffect

\* What a scan has found: an item it holds or one on its channel.
Found(p, x) == x = scan[p].held \/ \E i \in 1 .. Len(chan[p]) : x = chan[p][i]

\* A row found after a step was found before it, or is read in the step.
LEMMA ItemMoves ==
  ASSUME GInv, [Next]_vars, NEW q \in Sessions, NEW x \in Items, x.kind = "row",
         Found(q, x)'
  PROVE  Found(q, x) \/ Read(x.pos, x.row)
<1>0. /\ scan \in [Sessions -> Scans] /\ chan \in [Sessions -> Seq(Items)]
      /\ tab \in [Sessions -> Tables] /\ strip \in [Zs -> Strips] /\ nrows \in 0 .. MaxRows
  BY Facts DEF GInv
<1>1. CASE UNCHANGED <<scan, chan>>
  BY <1>1 DEF Found
<1>2. ASSUME Volatile PROVE FALSE
  BY <1>2 DEF Volatile, Found, NoScan, NoItem
<1>3. ASSUME NEW p \in Sessions, Start(p) \/ Step(p) \/ Scanner(p), p # q
      PROVE  Found(q, x)
  BY <1>3, Others DEF GInv, Found
<1>4. ASSUME Start(q) PROVE Found(q, x)
  <2>1. ASSUME NEW t \in Tables, StartInsert(q, t) PROVE Found(q, x)
    BY <1>1, <2>1 DEF StartInsert, scans, Found
  <2>2. ASSUME NEW t \in Tables, NEW w \in Wheres, NEW k, StartScan(q, t, w, k)
        PROVE  Found(q, x)
    BY <1>0, <2>2 DEF StartScan, Found, NoItem
  <2> QED
    BY <1>4, <2>1, <2>2 DEF Start, StartSelect, StartDelete
<1>5. ASSUME Step(q) PROVE Found(q, x)
  <2>1. CASE LoadRowChunk(q) \/ AllocLSN(q) \/ AppendWrite(q) \/ InsertWrite(q)
             \/ XmaxWrite(q) \/ CommitRead(q) \/ CommitWrite(q) \/ RecvDone(q) \/ Mark(q)
    BY <2>1 DEF LoadRowChunk, AllocLSN, AppendWrite, InsertWrite, XmaxWrite, CommitRead,
       CommitWrite, RecvDone, Mark, scans, Found
  <2>2. CASE Recv(q)
    <3>1. scan' = scan /\ chan'[q] = Tail(chan[q]) /\ chan[q] # <<>> /\ chan[q] \in Seq(Items)
      BY <1>0, <2>2 DEF Recv, Arrived
    <3>2. \A i \in 1 .. Len(chan'[q]) : chan'[q][i] = chan[q][i + 1] /\ i + 1 \in 1 .. Len(chan[q])
      BY <3>1
    <3> QED
      BY <3>1, <3>2 DEF Found
  <2>3. CASE Reply(q)
    BY <1>0, <2>3 DEF Reply, Found, NoScan, NoItem
  <2> QED
    BY <1>5, <2>1, <2>2, <2>3 DEF Step
<1>6. ASSUME ScanRead(q) PROVE Found(q, x) \/ Read(x.pos, x.row)
  <2> DEFINE z == RowZ(tab[q], scan[q].at)
  <2>1. PICK o \in Outcomes :
          scan' = [scan EXCEPT
                ![q].at = IF o = "ok" THEN @ + 1 ELSE scan[q].n,
                ![q].held =
                  CASE o # "ok" -> ErrItem
                    [] o = "ok" /\ isVisible(strip[z], Txid) -> RowItem(z, strip[z])
                    [] OTHER -> NoItem]
    BY <1>6 DEF ScanRead
  <2>2. chan' = chan
    BY <1>6 DEF ScanRead
  <2>3. scan'[q].held = CASE o # "ok" -> ErrItem
                    [] o = "ok" /\ isVisible(strip[z], Txid) -> RowItem(z, strip[z])
                    [] OTHER -> NoItem
    <3> HIDE DEF z
    <3> QED
      BY <1>0, <2>1 DEF Scans
  <2>4. Found(q, x) \/ (isVisible(strip[z], Txid) /\ x = RowItem(z, strip[z]))
    <3> HIDE DEF z
    <3> QED
      BY <2>2, <2>3 DEF Found, ErrItem, NoItem
  <2>5. z \in Zs /\ strip[z] \in Strips
    <3>1. scan[q].at \in 0 .. MaxRows
      BY <1>0 DEF Scans
    <3> QED
      BY <1>0, <3>1, RowZType
  <2>6. ASSUME isVisible(strip[z], Txid) PROVE Read(z, strip[z].cols)
    <3> HIDE DEF z
    <3>1. /\ strip[z].cols # 0 => /\ strip[z].cols <= nrows /\ home[strip[z].cols] = z
                                  /\ ~Unwritten(strip[z].cols)
      BY <2>5 DEF GInv, TableInv, StripInv
    <3>2. strip[z].cols <= nrows
      BY <1>0, <2>5, <3>1 DEF Strips
    <3> QED
      BY <2>6, <3>1, <3>2 DEF Read, isVisible
  <2> QED
    BY <2>4, <2>6 DEF RowItem
<1>7. ASSUME ScanSend(q) PROVE Found(q, x)
  <2>1. /\ chan'[q] = Append(chan[q], scan[q].held) /\ chan[q] \in Seq(Items)
        /\ scan'[q].held = NoItem /\ scan[q].held \in Items
    BY <1>0, <1>7 DEF ScanSend, Scans
  <2>2. x # scan'[q].held
    BY <2>1 DEF NoItem
  <2>3. \A i \in 1 .. Len(chan'[q]) :
          \/ chan'[q][i] = scan[q].held
          \/ i \in 1 .. Len(chan[q]) /\ chan'[q][i] = chan[q][i]
    BY <2>1
  <2> QED
    BY <2>2, <2>3 DEF Found
<1>8. ASSUME ScanClose(q) PROVE Found(q, x)
  BY <1>0, <1>8 DEF ScanClose, Found, Scans
<1>9. ASSUME Restart \/ Recovery \/ Shutdown \/ Crash \/ UNCHANGED vars PROVE Found(q, x)
  BY <1>1, <1>2, <1>9, ProcessMoves DEF scans, Found
<1> QED
  BY <1>3, <1>4, <1>5, <1>6, <1>7, <1>8, <1>9 DEF Next, Scanner

\* Every item that a scan found is still what it read, whatever happened since.
LEMMA ItemRead ==
  ASSUME GInv, NEW q \in Sessions, NEW x \in Items, x.kind = "row", Found(q, x)
  PROVE  Read(x.pos, x.row)
BY DEF GInv, TableInv, ItemInv, Found

\* What scans have found stays as they read it.
LEMMA ItemStep == GInv /\ [Next]_vars => ItemInv'
<1> SUFFICES ASSUME GInv, [Next]_vars PROVE ItemInv'
  OBVIOUS
<1>0. scan' \in [Sessions -> Scans] /\ chan' \in [Sessions -> Seq(Items)]
  BY StepInv DEF GInv, IInv, TypeOK, ScanOK
<1>1. ASSUME NEW q \in Sessions, NEW x \in Items, x.kind = "row", Found(q, x)'
      PROVE  Read(x.pos, x.row)'
  <2>1. Read(x.pos, x.row)
    BY <1>1, ItemMoves, ItemRead
  <2>2. x.pos \in Zs /\ x.row \in 0 .. MaxRows
    BY DEF Items
  <2> QED
    BY <2>1, <2>2, ReadKept
<1> QED
  BY <1>0, <1>1 DEF ItemInv, Found, Read, Unwritten, Scans

\* A DELETE in progress works on a row that was read in its slot; it is marked
\* from MarkDeleted on and dead once the data write has succeeded.
LEMMA DeleteStep == GInv /\ [Next]_vars => DeleteInv'
<1> SUFFICES ASSUME GInv, [Next]_vars PROVE DeleteInv'
  OBVIOUS
<1>0. /\ pos \in [Sessions -> Zs] /\ row \in [Sessions -> 0 .. MaxRows]
      /\ pos' \in [Sessions -> Zs] /\ row' \in [Sessions -> 0 .. MaxRows]
      /\ strip \in [Zs -> Strips] /\ chan \in [Sessions -> Seq(Items)]
      /\ pc \in [Sessions -> Pcs]
  BY Facts, StepInv DEF GInv, IInv, TypeOK, SessionOK
<1>1. ASSUME NEW q \in Sessions, NEW z \in Zs, NEW r \in 0 .. MaxRows, z = pos'[q],
             r = row'[q], op'[q] = "DELETE",
             pc'[q] \in {"mark", "alloc", "append", "data", "cread", "cwrite"}
      PROVE  /\ Read(z, r)'
             /\ pc'[q] \in {"alloc", "append", "data", "cread", "cwrite"} => r \in marked'
             /\ pc'[q] \in {"cread", "cwrite"} => Dead(z, r)'
  <2>1. CASE Recv(q) /\ pc'[q] = "mark"
    <3>1. /\ chan[q] # <<>> /\ chan[q] \in Seq(Items) /\ Head(chan[q]).kind = "row"
          /\ z = Head(chan[q]).pos /\ r = Head(chan[q]).row
      BY <1>0, <1>1, <2>1 DEF Recv, Arrived, Goto
    <3>2. Head(chan[q]) = chan[q][1] /\ 1 \in 1 .. Len(chan[q]) /\ chan[q][1] \in Items
      BY <3>1
    <3>3. Read(z, r)
      BY <3>1, <3>2, ItemRead DEF Found
    <3> QED
      BY <2>1, <3>3, ReadKept
  <2>2. CASE ~(Recv(q) /\ pc'[q] = "mark")
    <3>1. /\ op[q] = "DELETE" /\ r = row[q] /\ z = pos[q]
          /\ pc[q] \in {"mark", "alloc", "append", "data", "cread", "cwrite"}
          /\ pc'[q] \in {"alloc", "append", "data", "cread", "cwrite"} =>
               pc[q] \in {"alloc", "append", "data", "cread", "cwrite"} \/ Mark(q)
          /\ pc'[q] \in {"cread", "cwrite"} =>
               \/ pc[q] \in {"cread", "cwrite"}
               \/ XmaxWrite(q) /\ pc'[q] = "cread"
      BY <1>1, <2>2, DeleteMoves
    <3>2. /\ Read(z, r)
          /\ pc[q] \in {"alloc", "append", "data", "cread", "cwrite"} => r \in marked
          /\ pc[q] \in {"cread", "cwrite"} => Dead(z, r)
      BY <3>1 DEF GInv, TableInv, DeleteInv
    <3>3. Read(z, r)'
      BY <3>2, ReadKept
    <3>4. pc'[q] \in {"alloc", "append", "data", "cread", "cwrite"} => r \in marked'
      BY <3>1, <3>2, HistoryGrows DEF Mark
    <3>5. CASE pc[q] \in {"cread", "cwrite"}
      <4>1. r <= nrows /\ (r # 0 => home[r] = z /\ ~Unwritten(r))
        BY <3>2 DEF Read
      <4>2. Dead(z, r)'
        BY <3>2, <3>5, <4>1, DeadKept
      <4> QED
        BY <3>3, <3>4, <4>2
    <3>6. CASE XmaxWrite(q) /\ pc'[q] = "cread"
      <4>1. PICK o \in Outcomes : \E k \in Written(o, 2) :
              /\ strip' = [strip EXCEPT ![pos[q]] = XmaxBlocks(strip[pos[q]], k)]
              /\ Goto(q, IF o = "ok" THEN "cread" ELSE "err")
        BY <3>6 DEF XmaxWrite
      <4>2. o = "ok"
        BY <1>0, <3>6, <4>1 DEF Goto
      <4>3. strip'[z] = XmaxBlocks(strip[z], 2)
        BY <1>0, <3>1, <4>1, <4>2 DEF Written
      <4>4. strip'[z].xmax0 = "tx" /\ strip'[z].xmax1 = "tx"
        BY <1>0, <4>3 DEF XmaxBlocks, Strips
      <4> QED
        BY <3>3, <3>4, <4>4 DEF Dead
    <3> QED
      BY <3>1, <3>3, <3>4, <3>5, <3>6
  <2> QED
    BY <2>1, <2>2
<1> QED
  BY <1>0, <1>1 DEF DeleteInv, Read, Dead, Unwritten, MarkerLasts

\* How the log changes: Append, Commit and the commit of recovery.
LEMMA LecternMoves ==
  ASSUME GInv, [Next]_vars, NEW l \in LSNs
  PROVE  \/ lectern'[l] = lectern[l]
         \/ \E p \in Sessions : AppendWrite(p) /\ l = lsn[p] /\ lectern'[l] = Entry(p)
         \/ \E p \in Sessions :
              /\ CommitWrite(p) /\ l = lsn[p]
              /\ lectern'[l] = [book[p] EXCEPT !.status = "COMMITTED"]
         \/ /\ RecoverCommit /\ l = recAt
            /\ lectern'[l] = [lectern[l] EXCEPT !.status = "COMMITTED"]
<1>0. lectern \in [LSNs -> Books] /\ recAt \in LSNs /\ lsn \in [Sessions -> LSNs]
  BY Facts, SMTT(30) DEF GInv
<1>1. ASSUME NEW p \in Sessions, Start(p) \/ Step(p) \/ Scanner(p)
      PROVE  lectern' = lectern \/ AppendWrite(p) \/ CommitWrite(p)
  BY <1>1 DEF Start, StartInsert, StartSelect, StartDelete, StartScan, Step,
     LoadRowChunk, AllocLSN, InsertWrite, XmaxWrite, CommitRead, Recv, Arrived, RecvDone, Mark,
     Reply, Scanner, ScanRead, ScanSend, ScanClose, world
<1>2. ASSUME NEW p \in Sessions, AppendWrite(p)
      PROVE  lectern'[l] = lectern[l] \/ (l = lsn[p] /\ lectern'[l] = Entry(p))
  <2>1. lectern' = lectern \/ lectern' = [lectern EXCEPT ![lsn[p]] = Entry(p)]
    BY <1>2 DEF AppendWrite
  <2> QED
    BY <1>0, <2>1
<1>3. ASSUME NEW p \in Sessions, CommitWrite(p)
      PROVE  \/ lectern'[l] = lectern[l]
             \/ l = lsn[p] /\ lectern'[l] = [book[p] EXCEPT !.status = "COMMITTED"]
  <2>1. \/ lectern' = lectern
        \/ lectern' = [lectern EXCEPT ![lsn[p]] = [book[p] EXCEPT !.status = "COMMITTED"]]
    BY <1>3 DEF CommitWrite
  <2> QED
    BY <1>0, <2>1
<1>4. ASSUME RecoverCommit
      PROVE  \/ lectern'[l] = lectern[l]
             \/ l = recAt /\ lectern'[l] = [lectern[l] EXCEPT !.status = "COMMITTED"]
  <2>1. lectern' = lectern \/ lectern' = [lectern EXCEPT ![recAt].status = "COMMITTED"]
    BY <1>4 DEF RecoverCommit
  <2> QED
    BY <1>0, <2>1
<1>5. ASSUME Restart \/ Recovery \/ Shutdown \/ Crash \/ UNCHANGED vars
      PROVE  lectern' = lectern \/ RecoverCommit
  BY <1>5 DEF Restart, Recovery, RecoverRead, ReplayInsert, ReplayUpdateXmax, LoadCatalog,
     Shutdown, Crash, world, vars
<1> QED
  BY <1>1, <1>2, <1>3, <1>4, <1>5 DEF Next

\* A book that describes row r, deleted in or inserted into slot z, keeps
\* describing it.
LEMMA BookKept ==
  ASSUME GInv, [Next]_vars, NEW z \in Zs, NEW r \in 0 .. MaxRows
  PROVE  /\ Read(z, r) => Read(z, r)'
         /\ Read(z, r) /\ Dead(z, r) => Dead(z, r)'
         /\ r \in 1 .. nrows /\ home[r] = z => r \in 1 .. nrows' /\ home'[r] = z
         /\ r \in 1 .. nrows /\ home[r] = z /\ Present(z, r) => Present(z, r)'
<1>0. nrows \in 0 .. MaxRows /\ MaxRows \in Nat
  BY Facts DEF GInv
<1>1. Read(z, r) => Read(z, r)'
  BY ReadKept
<1>2. ASSUME Read(z, r), Dead(z, r) PROVE Dead(z, r)'
  <2>1. r <= nrows /\ (r # 0 => home[r] = z /\ ~Unwritten(r))
    BY <1>2 DEF Read
  <2> QED
    BY <1>2, <2>1, DeadKept
<1>3. ASSUME r \in 1 .. nrows, home[r] = z PROVE r \in 1 .. nrows' /\ home'[r] = z
  <2>1. r <= nrows /\ r # 0
    BY <1>0, <1>3
  <2>2. r <= nrows' /\ home'[r] = home[r] /\ nrows' \in Int
    BY <2>1, Kept
  <2> QED
    BY <1>0, <1>3, <2>1, <2>2
<1>4. ASSUME r \in 1 .. nrows, home[r] = z, Present(z, r) PROVE Present(z, r)'
  <2>1. Present(home[r], r)'
    BY <1>4, PresentKept
  <2>2. home'[r] = z
    BY <1>3, <1>4
  <2> QED
    BY <2>1, <2>2 DEF Present
<1> QED
  BY <1>1, <1>2, <1>3, <1>4

\* What a statement in the log is about.
LEMMA EntryFacts ==
  ASSUME GInv, NEW p \in Sessions, pc[p] \in {"append", "cwrite"}
  PROVE  /\ pos[p] \in Zs /\ row[p] \in 0 .. MaxRows
         /\ op[p] = "INSERT" =>
              /\ row[p] \in 1 .. nrows /\ home[row[p]] = pos[p]
              /\ pc[p] = "cwrite" => Present(pos[p], row[p]) /\ ~Unwritten(row[p])
         /\ op[p] # "INSERT" =>
              Read(pos[p], row[p]) /\ (pc[p] = "cwrite" => Dead(pos[p], row[p]))
<1>1. pos[p] \in Zs /\ row[p] \in 0 .. MaxRows
  BY Facts DEF GInv
<1>2. CASE op[p] = "INSERT"
  BY <1>1, <1>2, InsertRow DEF GInv, TableInv, InsertInv
<1>3. CASE op[p] # "INSERT"
  <2>1. op[p] = "DELETE"
    BY <1>3 DEF GInv, TableInv, OpInv
  <2> QED
    BY <1>1, <2>1 DEF GInv, TableInv, DeleteInv
<1> QED
  BY <1>1, <1>2, <1>3

\* The books of the log describe what was read or reserved, and the COMMITTED
\* ones what is in the world.
LEMMA BookLog ==
  ASSUME GInv, [Next]_vars, NEW l \in LSNs, NEW b \in Books, b = lectern'[l],
         b.status # "AIR", NEW z, z = b.pos, NEW r, r = b.row
  PROVE  /\ b.op = "UPDATE_XMAX" =>
              Read(z, r)' /\ (b.status = "COMMITTED" => Dead(z, r)')
         /\ b.op = "INSERT" =>
              /\ r \in 1 .. nrows' /\ home'[r] = z
              /\ b.status = "COMMITTED" => Present(z, r)'
<1> DEFINE Holds ==
      /\ b.op = "UPDATE_XMAX" => Read(z, r) /\ (b.status = "COMMITTED" => Dead(z, r))
      /\ b.op = "INSERT" => /\ r \in 1 .. nrows /\ home[r] = z
                            /\ b.status = "COMMITTED" => Present(z, r)
<1>0. z \in Zs /\ r \in 0 .. MaxRows /\ lectern[l] \in Books /\ recAt \in LSNs
      /\ b.op \in {"INSERT", "UPDATE_XMAX"} /\ nrows \in 0 .. MaxRows /\ MaxRows \in Nat
  BY Facts DEF GInv, Books, Ops
<1>1. ASSUME b = lectern[l] PROVE Holds
  BY <1>1 DEF GInv, TableInv, BookInv
<1>2. ASSUME NEW p \in Sessions, AppendWrite(p), b = Entry(p) PROVE Holds
  <2>1. pc[p] = "append"
    BY <1>2 DEF AppendWrite
  <2>2. /\ b.status = "PENDING" /\ z = pos[p] /\ r = row[p]
        /\ b.op = IF op[p] = "INSERT" THEN "INSERT" ELSE "UPDATE_XMAX"
    BY <1>2 DEF Entry
  <2> QED
    BY <2>1, <2>2, EntryFacts
<1>3. ASSUME NEW p \in Sessions, CommitWrite(p),
             b = [book[p] EXCEPT !.status = "COMMITTED"]
      PROVE  Holds
  <2>1. pc[p] = "cwrite" /\ book[p] = Entry(p)
    BY <1>3 DEF CommitWrite, GInv, TableInv, BookInv
  <2>2. /\ z = pos[p] /\ r = row[p]
        /\ b.op = IF op[p] = "INSERT" THEN "INSERT" ELSE "UPDATE_XMAX"
    BY <1>3, <2>1 DEF Entry
  <2> QED
    BY <2>1, <2>2, EntryFacts
<1>4. ASSUME RecoverCommit, l = recAt, b = [lectern[l] EXCEPT !.status = "COMMITTED"]
      PROVE  Holds
  <2>1. /\ lectern[l].status = "PENDING" /\ z = lectern[l].pos /\ r = lectern[l].row
        /\ b.op = lectern[l].op /\ recPc = "commit" /\ base = nrows
    BY <1>0, <1>4 DEF RecoverCommit, GInv, IInv, ProcInv, SlotInv, HomeInv, Books
  <2>2. b.op = "UPDATE_XMAX" => Read(z, r) /\ Dead(z, r)
    BY <1>4, <2>1 DEF GInv, TableInv, BookInv
  <2>3. b.op = "INSERT" => r \in 1 .. nrows /\ home[r] = z
    BY <2>1 DEF GInv, TableInv, BookInv
  <2>4. r \in 1 .. nrows => Present(z, r)
    BY <1>0, <2>1 DEF Present
  <2> QED
    BY <2>2, <2>3, <2>4
<1>5. Holds
  BY <1>1, <1>2, <1>3, <1>4, LecternMoves
<1> QED
  BY <1>0, <1>5, BookKept

\* Recovery is about to commit an entry only when it has replayed it.
LEMMA CommitMoves ==
  ASSUME GInv, [Next]_vars, recPc' = "commit"
  PROVE  /\ recAt' = recAt /\ lectern' = lectern
         /\ recPc = "commit" \/ ReplayInsert \/ ReplayUpdateXmax
<1>1. ASSUME NEW p \in Sessions, Start(p) \/ Step(p) \/ Scanner(p)
      PROVE  UNCHANGED <<recPc, recAt>> /\ (UNCHANGED lectern \/ pc[p] # "idle")
  BY <1>1 DEF Start, StartInsert, StartSelect, StartDelete, StartScan, Step,
     LoadRowChunk, AllocLSN, AppendWrite, InsertWrite, XmaxWrite, CommitRead, CommitWrite,
     Recv, RecvDone, Mark, Reply, Scanner, ScanRead, ScanSend, ScanClose, engine, world
<1>2. recPc = "commit" => \A p \in Sessions : pc[p] = "idle"
  BY DEF GInv, IInv, ProcInv
<1>3. ASSUME RecoverRead \/ RecoverCommit \/ LoadCatalog \/ Restart \/ Shutdown \/ Crash
             \/ UNCHANGED vars
      PROVE  UNCHANGED <<recPc, recAt, lectern>>
  BY <1>3 DEF RecoverRead, RecoverCommit, LoadCatalog, Restart, Shutdown, Crash,
     RecoverNext, Fatal, Volatile, vars, engine, world
<1>4. ASSUME ReplayInsert \/ ReplayUpdateXmax PROVE UNCHANGED <<recAt, lectern>>
  BY <1>4 DEF ReplayInsert, ReplayUpdateXmax, ToCommit, Skip, RecoverNext, world
<1> QED
  BY <1>1, <1>2, <1>3, <1>4 DEF Next, Recovery

\* A delete marker that recovery is about to commit is in the world.
LEMMA BookRecovery ==
  ASSUME GInv, [Next]_vars, recPc' = "commit", lectern'[recAt'].op = "UPDATE_XMAX",
         NEW z, z = lectern'[recAt'].pos, NEW r, r = lectern'[recAt'].row
  PROVE  Dead(z, r)'
<1> DEFINE b == lectern[recAt]
<1>0. recAt \in LSNs /\ b \in Books /\ strip \in [Zs -> Strips]
  BY Facts DEF GInv
<1>1. /\ lectern'[recAt'] = b /\ z = b.pos /\ r = b.row /\ b.op = "UPDATE_XMAX"
      /\ z \in Zs /\ r \in 0 .. MaxRows
  BY <1>0, CommitMoves DEF Books
<1>2. CASE recPc = "commit"
  <2>1. b.status = "PENDING"
    BY <1>2 DEF GInv, IInv, ProcInv
  <2>2. Read(z, r) /\ Dead(z, r)
    BY <1>0, <1>1, <1>2, <2>1 DEF GInv, TableInv, BookInv
  <2> QED
    BY <1>1, <2>2, BookKept
<1>3. ASSUME ReplayInsert PROVE FALSE
  BY <1>1, <1>3 DEF ReplayInsert
<1>4. CASE ReplayUpdateXmax
  <2>1. PICK o \in Outcomes : \E k \in Written(o, 2) :
          /\ strip' = IF ReplayNeeded(strip[z])
                      THEN [strip EXCEPT ![z] = XmaxBlocks(strip[z], k)] ELSE strip
          /\ IF o = "ok" THEN ToCommit ELSE Skip
    BY <1>1, <1>4 DEF ReplayUpdateXmax
  <2>2. o = "ok"
    BY <2>1 DEF Skip, RecoverNext
  <2>3. strip'[z] = IF ReplayNeeded(strip[z]) THEN XmaxBlocks(strip[z], 2) ELSE strip[z]
    BY <1>0, <1>1, <2>1, <2>2 DEF Written
  <2>4. strip[z] \in Strips
    BY <1>0, <1>1
  <2>5. XmaxBlocks(strip[z], 2).xmax0 = "tx" /\ XmaxBlocks(strip[z], 2).xmax1 = "tx"
    BY <2>4 DEF XmaxBlocks, Strips
  <2>6. ~ReplayNeeded(strip[z]) => strip[z].xmax0 = "tx" /\ strip[z].xmax1 = "tx"
    BY <2>4 DEF ReplayNeeded, XmaxValue, Txid, Strips
  <2> QED
    BY <2>3, <2>5, <2>6 DEF Dead
<1> QED
  BY <1>2, <1>3, <1>4, CommitMoves

\* The book that Commit writes is the entry of its statement.
LEMMA BookCommit ==
  ASSUME GInv, [Next]_vars, NEW q \in Sessions, pc'[q] = "cwrite"
  PROVE  book'[q] = Entry(q)'
<1>0. /\ pc \in [Sessions -> Pcs] /\ book \in [Sessions -> Books]
      /\ lsn \in [Sessions -> LSNs] /\ lectern \in [LSNs -> Books]
  BY Facts DEF GInv
<1> DEFINE Same == /\ book'[q] = book[q] /\ pc[q] = "cwrite" /\ op'[q] = op[q]
                   /\ pos'[q] = pos[q] /\ row'[q] = row[q]
<1>1. Same => book'[q] = Entry(q)'
  BY DEF GInv, TableInv, BookInv, Entry
<1>2. ASSUME NEW p \in Sessions, Start(p) \/ Step(p) \/ Scanner(p), p # q PROVE Same
  BY <1>2, Others DEF GInv
<1>3. ASSUME Start(q) PROVE FALSE
  BY <1>0, <1>3 DEF Start, StartInsert, StartSelect, StartDelete, StartScan, Goto
<1>4. CASE CommitRead(q)
  <2>1. PICK o \in Outcomes :
          /\ book' = IF o = "ok" /\ lectern[lsn[q]].status = "PENDING"
                     THEN [book EXCEPT ![q] = lectern[lsn[q]]] ELSE book
          /\ Goto(q, IF o = "ok" /\ lectern[lsn[q]].status = "PENDING"
                     THEN "cwrite" ELSE "err")
    BY <1>4 DEF CommitRead
  <2>2. book'[q] = lectern[lsn[q]]
    BY <1>0, <2>1 DEF Goto
  <2>3. lectern[lsn[q]] = Entry(q)
    BY <1>4 DEF CommitRead, GInv, IInv, LogInv, LogIntact, InLog
  <2> QED
    BY <1>4, <2>2, <2>3 DEF CommitRead, Entry
<1>5. ASSUME LoadRowChunk(q) \/ AllocLSN(q) \/ AppendWrite(q) \/ InsertWrite(q)
             \/ XmaxWrite(q) \/ CommitWrite(q) \/ Recv(q) \/ RecvDone(q) \/ Mark(q)
             \/ Reply(q)
      PROVE  FALSE
  BY <1>0, <1>5 DEF LoadRowChunk, AllocLSN, AppendWrite, InsertWrite, XmaxWrite,
     CommitWrite, Recv, RecvDone, Mark, Reply, Goto, AfterAlloc, AfterAppend
<1>6. ASSUME Scanner(q) PROVE Same
  BY <1>6 DEF Scanner, ScanRead, ScanSend, ScanClose, locals
<1>7. ASSUME Restart \/ Recovery \/ Shutdown \/ Crash \/ UNCHANGED vars PROVE Same
  BY <1>7, ProcessMoves DEF locals, Volatile
<1> QED
  BY <1>1, <1>2, <1>3, <1>4, <1>5, <1>6, <1>7 DEF Next, Step

\* The log describes the world.
LEMMA BookStep == GInv /\ [Next]_vars => BookInv'
<1> SUFFICES ASSUME GInv, [Next]_vars PROVE BookInv'
  OBVIOUS
<1>0. lectern' \in [LSNs -> Books]
  BY StepInv DEF GInv, IInv, TypeOK, WorldOK
<1>1. \A l \in LSNs :
        LET b == lectern'[l] IN
        /\ b.status # "AIR" /\ b.op = "UPDATE_XMAX" => Read(lectern[l].pos, lectern[l].row)'
        /\ b.status # "AIR" /\ b.op = "INSERT" =>
             b.row \in 1 .. nrows' /\ home'[b.row] = b.pos
        /\ b.status = "COMMITTED" /\ b.op = "UPDATE_XMAX" =>
             Dead(lectern[l].pos, lectern[l].row)'
        /\ b.status = "COMMITTED" /\ b.op = "INSERT" =>
             Present(lectern[l].pos, lectern[l].row)'
  BY <1>0, BookLog DEF Read, Dead, Present, Unwritten, MarkerLasts
<1>2. recPc' = "commit" /\ lectern'[recAt'].op = "UPDATE_XMAX" =>
        Dead(lectern[recAt].pos, lectern[recAt].row)'
  BY BookRecovery DEF Dead, MarkerLasts
<1> QED
  BY <1>1, <1>2, BookCommit DEF BookInv

\* What clients are told is in the world.
LEMMA ToldStep == GInv /\ [Next]_vars => ToldInv'
<1> SUFFICES ASSUME GInv, [Next]_vars PROVE ToldInv'
  OBVIOUS
<1>0. nrows \in 0 .. MaxRows /\ MaxRows \in Nat /\ home \in [Rows -> Zs]
  BY Facts DEF GInv
<1>1. ASSUME NEW r \in acked' \cup deleted', r \notin acked \cup deleted
             \/ (r \in acked' /\ r \notin acked) \/ (r \in deleted' /\ r \notin deleted)
      PROVE  \E p \in Sessions :
               /\ pc[p] = "cwrite" /\ r = row[p]
               /\ r \in acked' /\ r \notin acked => op[p] = "INSERT"
               /\ r \in deleted' /\ r \notin deleted => op[p] # "INSERT"
  <2>1. ASSUME NEW p \in Sessions, Start(p) \/ Step(p) \/ Scanner(p)
        PROVE  UNCHANGED <<acked, deleted>> \/ CommitWrite(p)
    BY <2>1 DEF Start, StartInsert, StartSelect, StartDelete, StartScan, Step,
       LoadRowChunk, AllocLSN, AppendWrite, InsertWrite, XmaxWrite, CommitRead, Recv,
       RecvDone, Mark, Reply, Scanner, ScanRead, ScanSend, ScanClose, history
  <2>2. ASSUME Restart \/ Recovery \/ Shutdown \/ Crash \/ UNCHANGED vars
        PROVE  UNCHANGED <<acked, deleted>>
    BY <2>2, ProcessMoves
  <2>3. PICK p \in Sessions : CommitWrite(p)
    BY <1>1, <2>1, <2>2 DEF Next
  <2> QED
    BY <1>1, <2>3, SMTT(30) DEF CommitWrite
<1>2. ASSUME NEW r \in acked'
      PROVE  r \in 1 .. nrows' /\ ~Unwritten(r)' /\ Present(home[r], r)'
  <2>1. r \in 1 .. nrows /\ ~Unwritten(r) /\ Present(home[r], r)
    <3>1. CASE r \in acked
      BY <3>1 DEF GInv, TableInv, ToldInv
    <3>2. CASE r \notin acked
      <4>1. PICK p \in Sessions : pc[p] = "cwrite" /\ r = row[p] /\ op[p] = "INSERT"
        BY <1>1, <3>2
      <4> QED
        BY <4>1, EntryFacts
    <3> QED
      BY <3>1, <3>2
  <2>2. r \in 0 .. MaxRows /\ r <= nrows /\ r # 0 /\ r \in 1 .. nrows /\ r \in Rows
    BY <1>0, <2>1 DEF Rows
  <2>3. home[r] \in Zs
    BY <1>0, <2>2
  <2> QED
    BY <2>1, <2>2, <2>3, BookKept, PresentKept, Kept
<1>3. ASSUME NEW r \in deleted' \ {0}
      PROVE  r \in Rows /\ Read(home[r], r)' /\ Dead(home[r], r)'
  <2>1. r \in Rows /\ Read(home[r], r) /\ Dead(home[r], r)
    <3>1. CASE r \in deleted
      BY <3>1 DEF GInv, TableInv, ToldInv
    <3>2. CASE r \notin deleted
      <4>1. PICK p \in Sessions : pc[p] = "cwrite" /\ r = row[p] /\ op[p] # "INSERT"
        BY <1>1, <3>2
      <4>2. Read(pos[p], r) /\ Dead(pos[p], r) /\ r \in 0 .. MaxRows
        BY <4>1, EntryFacts
      <4>3. home[r] = pos[p] /\ r \in Rows
        BY <1>0, <4>2 DEF Read, Rows
      <4> QED
        BY <4>2, <4>3
    <3> QED
      BY <3>1, <3>2
  <2>2. r \in 0 .. MaxRows /\ home[r] \in Zs /\ r <= nrows /\ r # 0
    BY <1>0, <2>1 DEF Rows, Read
  <2>3. \A z \in Zs : z = home[r] => Read(z, r)' /\ Dead(z, r)'
    BY <2>1, <2>2, BookKept
  <2>4. home'[r] = home[r]
    BY <2>2, Kept
  <2> QED
    BY <2>1, <2>2, <2>3, <2>4 DEF Read, Dead
<1> QED
  BY <1>2, <1>3 DEF ToldInv


-----------------------------------------------------------------------------
(* The invariant and what follows from it.                                 *)

\* The world starts empty and nobody has been told anything.
LEMMA TableInit == Init => GInv
<1> SUFFICES ASSUME Init PROVE GInv
  OBVIOUS
<1>1. IInv
  BY InitInv
<1>2. /\ nrows = 0 /\ base = 0 /\ rowCount = [t \in Tables |-> 0] /\ recPc = "read"
      /\ pc = [p \in Sessions |-> "idle"] /\ op = [p \in Sessions |-> "NONE"]
      /\ scan = [p \in Sessions |-> NoScan] /\ chan = [p \in Sessions |-> <<>>]
      /\ strip = [z \in Zs |-> EmptyStrip] /\ lectern = [l \in LSNs |-> EmptyLectern]
      /\ acked = {} /\ deleted = {}
  BY DEF Init
<1>3. SlotInv
  BY <1>2 DEF SlotInv, HomeInv, SlotExclusive, NoCollision
<1>4. OpInv /\ InsertInv /\ DeleteInv
  BY <1>2 DEF OpInv, InsertInv, DeleteInv
<1>5. StripInv
  BY <1>2 DEF StripInv, EmptyStrip
<1>6. ItemInv
  BY <1>2 DEF ItemInv, NoScan, NoItem
<1>7. BookInv
  BY <1>2 DEF BookInv, EmptyLectern
<1>8. ToldInv
  BY <1>2 DEF ToldInv
<1> QED
  BY <1>1, <1>3, <1>4, <1>5, <1>6, <1>7, <1>8 DEF GInv, TableInv

\* Every step keeps the invariant.
LEMMA TableStep == GInv /\ [Next]_vars => GInv'
BY StepInv, SlotStep, OpStep, InsertStep, StripStep, ItemStep, DeleteStep, BookStep,
   ToldStep DEF GInv, TableInv

\* The invariant of the rows holds of every behaviour of the engine.
THEOREM RowInvariant == Spec => []GInv
BY TableInit, TableStep, PTL DEF Spec

\* An acknowledged row that no DELETE picked is whole and within a scan's range.
LEMMA AckedReadable == GInv => AckedVisible
<1> SUFFICES ASSUME GInv, FirstInWorld, WithinRegions, NEW r \in acked \ marked
             PROVE  /\ strip[home[r]] = FullStrip(r)
                    /\ \E t \in Tables : InRange(t, home[r])
  BY DEF AckedVisible
<1>0. nrows \in 0 .. MaxRows /\ MaxRows \in Nat /\ home \in [Rows -> Zs]
  BY Facts DEF GInv
<1>1. r \in 1 .. nrows /\ Present(home[r], r)
  BY DEF GInv, TableInv, ToldInv
<1>2. r \in (base + 1) .. nrows /\ r > base /\ r \in Rows /\ r # 0
  BY <1>0, <1>1 DEF FirstInWorld, Rows
<1>3. strip[home[r]].cols = r /\ home[r] \in Zs
  BY <1>0, <1>1, <1>2 DEF Present
<1>4. strip[home[r]] = FullStrip(r)
  BY <1>2, <1>3 DEF GInv, TableInv, StripInv
<1>5. \E t \in Tables : InRange(t, home[r])
  BY <1>2 DEF GInv, SlotInv, HomeInv
<1> QED
  BY <1>4, <1>5

\* An acknowledged INSERT is complete in a slot that a scan covers until a
\* DELETE picks the row: InsertRow answers after its data write, no other
\* INSERT or delete marker reaches the slot, and the row count covers it.
THEOREM AckedVisibleAlways == Spec => []AckedVisible
BY RowInvariant, AckedReadable, PTL

\* A COMMITTED book tells the truth: the row of the running process's INSERT is
\* in its slot, and a delete marker is on its row, whether the statement or a
\* later recovery committed it.
THEOREM CommittedAppliedAlways == Spec => []CommittedApplied
<1>1. GInv => CommittedApplied
  <2> SUFFICES ASSUME GInv, NEW l \in LSNs, lectern[l].status = "COMMITTED"
               PROVE  LET b == lectern[l]
                          s == strip[b.pos]
                      IN  \/ /\ b.op = "INSERT"
                             /\ WithinRegions /\ b.row > base =>
                                  s.xmin = "tx" /\ s.cols = b.row
                          \/ /\ b.op = "UPDATE_XMAX"
                             /\ MarkerLasts(b.row) /\ s.cols = b.row =>
                                  s.xmax0 = "tx" /\ s.xmax1 = "tx"
    BY DEF CommittedApplied
  <2>1. lectern[l].op \in {"INSERT", "UPDATE_XMAX"}
    BY Facts DEF GInv, Books, Ops
  <2> QED
    BY <2>1 DEF GInv, TableInv, BookInv, Present, Dead
<1> QED
  BY RowInvariant, <1>1, PTL

\* A row reported deleted is not visible where its marker lasts.
LEMMA DeletedHidden == GInv => DeletedStaysDeleted
<1> SUFFICES ASSUME GInv, NEW r \in deleted \ {0}, MarkerLasts(r),
                    strip[home[r]].cols = r
             PROVE  ~isVisible(strip[home[r]], Txid)
  BY DEF DeletedStaysDeleted
<1>1. strip[home[r]].xmax0 = "tx" /\ strip[home[r]].xmax1 = "tx"
  BY DEF GInv, TableInv, ToldInv, Dead
<1> QED
  BY <1>1 DEF isVisible, VisibleXmax, IsNull, XmaxValue, Txid

\* A row whose MarkDeleted reported success is never visible again, through
\* crashes and the replays and commits of recovery.
THEOREM DeletedStaysDeletedAlways == Spec => []DeletedStaysDeleted
BY RowInvariant, DeletedHidden, PTL

\* A delete marker is only ever put on a row that a DELETE picked: MarkDeleted
\* writes where its scan read the row, and no INSERT moves in before the write.
THEOREM NoPhantomDeleteAlways == Spec => []NoPhantomDelete
<1>1. GInv => NoPhantomDelete
  <2> SUFFICES ASSUME GInv, FirstInWorld, WithinRegions, NEW z \in Zs,
                      strip[z].xmax0 = "tx", strip[z].cols # 0,
                      strip[z].cols \notin marked
               PROVE  FALSE
    BY DEF NoPhantomDelete
  <2>1. strip[z] = FullStrip(strip[z].cols)
    BY DEF GInv, TableInv, StripInv
  <2>2. strip[z].xmax0 = "null"
    BY <2>1 DEF FullStrip
  <2> QED
    BY <2>2
<1> QED
  BY RowInvariant, <1>1, PTL


-----------------------------------------------------------------------------
(* The refinement of RowTable.                                             *)

\* Rows of the running process that clients were told of.
AckedNow == {r \in acked : r > base}
DeletedNow == {r \in deleted : r > base}

\* A present row has been numbered, has its home and was written.
LEMMA PresentFacts ==
  ASSUME GInv, NEW r \in PresentRows
  PROVE  /\ r \in 1 .. nrows /\ r \in (base + 1) .. nrows /\ home[r] \in Zs /\ r \in Rows
         /\ strip[home[r]].cols = r /\ ~Unwritten(r)
<1>0. /\ nrows \in 0 .. MaxRows /\ base \in 0 .. MaxRows /\ MaxRows \in Nat
      /\ home \in [Rows -> Zs]
  BY Facts DEF GInv
<1>1. r \in Rows /\ r > base /\ strip[home[r]].cols = r /\ home[r] \in Zs
  BY <1>0 DEF PresentRows
<1>2. r <= nrows /\ ~Unwritten(r)
  BY <1>0, <1>1 DEF GInv, TableInv, StripInv, Rows
<1> QED
  BY <1>0, <1>1, <1>2 DEF Rows

\* A step that leaves the strips, the homes and the history alone is not seen.
LEMMA TableStutter ==
  ASSUME UNCHANGED <<strip, home, base, acked, deleted>>
  PROVE  UNCHANGED <<PresentRows, DeadRows, AckedNow, DeletedNow>>
BY DEF PresentRows, DeadRows, AckedNow, DeletedNow

\* The end of a process is the abstract restart.
LEMMA TableRestart ==
  ASSUME GInv, Volatile, UNCHANGED <<nrows, home, strip, acked, deleted>>
  PROVE  PresentRows' = {} /\ DeadRows' = {} /\ AckedNow' = {} /\ DeletedNow' = {}
<1>0. /\ nrows \in 0 .. MaxRows /\ MaxRows \in Nat /\ home \in [Rows -> Zs]
      /\ base' = nrows /\ base <= nrows /\ base \in 0 .. MaxRows
  BY Facts DEF GInv, Volatile, TableInv, OpInv
<1>1. ASSUME NEW r \in Rows, r > nrows, strip[home[r]].cols = r PROVE FALSE
  <2>1. r \in PresentRows
    BY <1>0, <1>1 DEF PresentRows, Rows
  <2> QED
    BY <1>0, <1>1, <2>1, PresentFacts
<1>2. PresentRows' = {}
  BY <1>0, <1>1 DEF PresentRows
<1>3. DeadRows' = {}
  BY <1>2 DEF DeadRows
<1>4. ASSUME NEW r \in acked PROVE ~(r > nrows)
  BY <1>0 DEF GInv, TableInv, ToldInv
<1>5. ASSUME NEW r \in deleted PROVE ~(r > nrows)
  <2>1. CASE r = 0
    BY <1>0, <2>1
  <2>2. CASE r # 0
    <3>1. r \in Rows /\ r <= nrows
      BY <2>2 DEF GInv, TableInv, ToldInv, Read
    <3> QED
      BY <1>0, <3>1 DEF Rows
  <2> QED
    BY <2>1, <2>2
<1>6. AckedNow' = {} /\ DeletedNow' = {}
  BY <1>0, <1>4, <1>5 DEF AckedNow, DeletedNow
<1> QED
  BY <1>2, <1>3, <1>6

\* Reserving a slot is not seen: the row appears with its data write.
LEMMA TableReserve ==
  ASSUME GInv, NEW p \in Sessions, NEW t \in Tables, StartInsert(p, t)
  PROVE  UNCHANGED <<PresentRows, DeadRows, AckedNow, DeletedNow>>
<1>0. /\ nrows \in 0 .. MaxRows /\ base \in 0 .. MaxRows /\ MaxRows \in Nat
      /\ home \in [Rows -> Zs] /\ rowCount[t] \in 0 .. MaxRows
  BY Facts DEF GInv
<1>1. /\ strip' = strip /\ base' = base /\ acked' = acked /\ deleted' = deleted
      /\ home' = [home EXCEPT ![nrows + 1] = RowZ(t, rowCount[t])]
  BY DEF StartInsert, world
<1>2. RowZ(t, rowCount[t]) \in Zs
  BY <1>0, RowZType
<1>3. \A z \in Zs, r \in Rows : strip[z].cols = r => r <= nrows
  BY <1>0 DEF GInv, TableInv, StripInv, Rows
<1>4. ASSUME NEW r \in Rows
      PROVE  /\ strip'[home'[r]].cols = r <=> strip[home[r]].cols = r
             /\ strip[home[r]].cols = r => home'[r] = home[r]
  <2>1. CASE r = nrows + 1
    <3>1. home'[r] = RowZ(t, rowCount[t]) /\ home[r] \in Zs /\ ~(r <= nrows)
      BY <1>0, <1>1, <2>1
    <3> QED
      BY <1>1, <1>2, <1>3, <3>1
  <2>2. CASE r # nrows + 1
    BY <1>0, <1>1, <2>2
  <2> QED
    BY <2>1, <2>2
<1>5. PresentRows' = PresentRows
  BY <1>1, <1>4 DEF PresentRows
<1>6. \A r \in PresentRows : strip'[home'[r]] = strip[home[r]]
  BY <1>1, <1>4 DEF PresentRows
<1>7. DeadRows' = DeadRows
  BY <1>5, <1>6 DEF DeadRows
<1> QED
  BY <1>1, <1>5, <1>7 DEF AckedNow, DeletedNow

\* The data write of an INSERT makes its row appear, whole and alive, or is not
\* seen: a torn or refused batch writes no column.
LEMMA TableInsert ==
  ASSUME GInv, WithinRegions, NEW p \in Sessions, InsertWrite(p)
  PROVE  /\ UNCHANGED <<DeadRows, AckedNow, DeletedNow>> /\ row[p] \in Rows
         /\ row[p] \notin PresentRows
         /\ PresentRows' = PresentRows \/ PresentRows' = PresentRows \cup {row[p]}
<1>0. /\ nrows \in 0 .. MaxRows /\ base \in 0 .. MaxRows /\ MaxRows \in Nat
      /\ home \in [Rows -> Zs] /\ strip \in [Zs -> Strips]
  BY Facts DEF GInv
<1>1. /\ home' = home /\ base' = base /\ acked' = acked /\ deleted' = deleted
  BY DEF InsertWrite, history
<1>2. PICK k \in 0 .. 4 :
        strip' = [strip EXCEPT ![pos[p]] = InsertBlocks(strip[pos[p]], row[p], k)]
  BY InsertEffect
<1>3. /\ Unwritten(row[p]) /\ row[p] \in Rows /\ pos[p] = home[row[p]] /\ row[p] > base
      /\ row[p] \in 1 .. nrows
      /\ \A r \in 1 .. nrows : r > base /\ home[r] = pos[p] => r = row[p]
  BY <1>0, Exclusive
<1>4. row[p] \notin PresentRows
  BY <1>3, PresentFacts
<1>5. pos[p] \in Zs /\ strip[pos[p]] \in Strips /\ row[p] \in 0 .. MaxRows
  BY <1>0, <1>3 DEF Rows
<1>6. ASSUME NEW r \in Rows, r > base, r # row[p]
      PROVE  strip'[home'[r]].cols = r <=> strip[home[r]].cols = r
  <2>1. CASE home[r] = pos[p]
    <3>1. ~(r \in 1 .. nrows)
      BY <1>3, <1>6, <2>1
    <3>2. strip[home[r]].cols # r
      BY <1>6, <3>1, PresentFacts DEF PresentRows
    <3>3. strip'[home[r]].cols \in {strip[home[r]].cols, row[p]}
      BY <1>0, <1>2, <1>5, <2>1, BlocksKept
    <3> QED
      BY <1>1, <1>6, <3>2, <3>3
  <2>2. CASE home[r] # pos[p]
    BY <1>0, <1>1, <1>2, <2>2
  <2> QED
    BY <2>1, <2>2
<1>7. PresentRows' = PresentRows \/ PresentRows' = PresentRows \cup {row[p]}
  <2>1. \A r \in Rows : r # row[p] => (r \in PresentRows' <=> r \in PresentRows)
    BY <1>1, <1>6 DEF PresentRows
  <2>2. PresentRows \subseteq Rows /\ PresentRows' \subseteq Rows
    BY DEF PresentRows
  <2> QED
    BY <1>4, <2>1, <2>2
<1>8. ASSUME NEW r \in PresentRows PROVE strip'[home'[r]] = strip[home[r]]
  <2>1. home[r] # pos[p] /\ home[r] \in Zs
    BY <1>0, <1>3, <1>4, PresentFacts
  <2> QED
    BY <1>0, <1>1, <1>2, <2>1
<1>9. ASSUME row[p] \in PresentRows' PROVE strip'[home'[row[p]]].xmax0 = "null"
  <2>1. strip'[pos[p]] = InsertBlocks(strip[pos[p]], row[p], k)
    BY <1>0, <1>2, <1>5
  <2>2. strip'[pos[p]].cols = row[p] /\ strip[pos[p]].cols # row[p]
    BY <1>1, <1>3, <1>4, <1>9 DEF PresentRows
  <2>3. k >= 4
    BY <1>5, <2>1, <2>2, BlocksKept
  <2> QED
    BY <1>1, <1>3, <1>5, <2>1, <2>3, BlocksKept DEF FullStrip
<1>10. DeadRows' = DeadRows
  BY <1>7, <1>8, <1>9 DEF DeadRows
<1> QED
  BY <1>1, <1>3, <1>4, <1>7, <1>10 DEF AckedNow, DeletedNow

\* A delete marker kills the row it is written on, or is not seen.
LEMMA TableDelete ==
  ASSUME GInv, NEW z \in Zs, NEW k \in 0 .. 2,
         strip' = [strip EXCEPT ![z] = XmaxBlocks(strip[z], k)],
         UNCHANGED <<home, base, acked, deleted>>
  PROVE  /\ UNCHANGED <<PresentRows, AckedNow, DeletedNow>>
         /\ \/ DeadRows' = DeadRows
            \/ \E r \in PresentRows : DeadRows' = DeadRows \cup {r}
<1>0. strip \in [Zs -> Strips] /\ home \in [Rows -> Zs] /\ strip[z] \in Strips
  BY Facts DEF GInv
<1>1. \A y \in Zs : strip'[y].cols = strip[y].cols /\ (y # z => strip'[y] = strip[y])
  <2>1. k \in Int /\ XmaxBlocks(strip[z], k).cols = strip[z].cols
    BY <1>0, EmptyType, BlocksKept
  <2> QED
    BY <1>0, <2>1
<1>2. PresentRows' = PresentRows
  BY <1>0, <1>1 DEF PresentRows
<1>3. ASSUME NEW r \in PresentRows, strip[z].cols # r
      PROVE  strip'[home'[r]] = strip[home[r]]
  BY <1>1, <1>3, PresentFacts
<1>4. ASSUME NEW r \in PresentRows, r \in DeadRows PROVE r \in DeadRows'
  <2>1. strip[home[r]] \in Strips /\ home[r] \in Zs
    BY <1>0, PresentFacts
  <2>2. strip[home[r]].xmax0 = "tx" /\ strip[home[r]].xmax1 = "tx"
    BY <1>4 DEF DeadRows
  <2>3. strip'[home[r]].xmax0 = "tx" /\ strip'[home[r]].xmax1 = "tx"
    <3>1. CASE home[r] = z
      <4>1. strip'[home[r]] = XmaxBlocks(strip[home[r]], k)
        BY <1>0, <3>1
      <4> QED
        BY <2>1, <2>2, <4>1, EmptyType, BlocksKept, SMTT(30)
    <3>2. CASE home[r] # z
      BY <1>1, <2>1, <2>2, <3>2
    <3> QED
      BY <3>1, <3>2
  <2> QED
    BY <1>2, <2>3 DEF DeadRows
<1>5. \A r \in PresentRows : strip[z].cols # r => (r \in DeadRows' <=> r \in DeadRows)
  BY <1>2, <1>3 DEF DeadRows
<1>6. DeadRows \subseteq PresentRows /\ DeadRows' \subseteq PresentRows
  BY <1>2 DEF DeadRows
<1>7. \/ DeadRows' = DeadRows
      \/ \E r \in PresentRows : DeadRows' = DeadRows \cup {r}
  BY <1>4, <1>5, <1>6
<1> QED
  BY <1>2, <1>7 DEF AckedNow, DeletedNow

\* Success is reported of a row that is there, or of one that is dead.
LEMMA TableTold ==
  ASSUME GInv, WithinRegions, NEW p \in Sessions, CommitWrite(p)
  PROVE  /\ UNCHANGED <<PresentRows, DeadRows>>
         /\ \/ UNCHANGED <<AckedNow, DeletedNow>>
            \/ /\ row[p] \in PresentRows /\ AckedNow' = AckedNow \cup {row[p]}
               /\ DeletedNow' = DeletedNow
            \/ /\ row[p] \in DeadRows /\ DeletedNow' = DeletedNow \cup {row[p]}
               /\ AckedNow' = AckedNow
<1>0. /\ nrows \in 0 .. MaxRows /\ base \in 0 .. MaxRows /\ MaxRows \in Nat
      /\ row[p] \in 0 .. MaxRows
  BY Facts DEF GInv
<1>1. /\ UNCHANGED <<strip, home, base>> /\ pc[p] = "cwrite"
      /\ \/ UNCHANGED <<acked, deleted>>
         \/ op[p] = "INSERT" /\ acked' = acked \cup {row[p]} /\ deleted' = deleted
         \/ op[p] # "INSERT" /\ deleted' = deleted \cup {row[p]} /\ acked' = acked
  BY DEF CommitWrite
<1>2. UNCHANGED <<PresentRows, DeadRows>>
  BY <1>1 DEF PresentRows, DeadRows
<1>3. CASE UNCHANGED <<acked, deleted>>
  BY <1>1, <1>2, <1>3 DEF AckedNow, DeletedNow
<1>4. CASE op[p] = "INSERT" /\ acked' = acked \cup {row[p]} /\ deleted' = deleted
  <2>1. row[p] \in 1 .. nrows /\ row[p] > base /\ home[row[p]] = pos[p]
        /\ Present(pos[p], row[p])
    BY <1>1, <1>4, InsertRow, EntryFacts
  <2>2. row[p] \in PresentRows
    BY <1>0, <2>1 DEF Present, PresentRows, Rows
  <2>3. AckedNow' = AckedNow \cup {row[p]} /\ DeletedNow' = DeletedNow
    BY <1>1, <1>4, <2>1 DEF AckedNow, DeletedNow
  <2> QED
    BY <1>2, <2>2, <2>3
<1>5. CASE op[p] # "INSERT" /\ deleted' = deleted \cup {row[p]} /\ acked' = acked
  <2>1. Read(pos[p], row[p]) /\ Dead(pos[p], row[p])
    BY <1>1, <1>5, EntryFacts
  <2>2. CASE row[p] > base
    <3>1. row[p] \in Rows /\ home[row[p]] = pos[p] /\ strip[pos[p]].cols = row[p]
      BY <1>0, <2>1, <2>2 DEF Read, Rows
    <3>2. row[p] \in DeadRows
      BY <2>1, <2>2, <3>1 DEF Dead, MarkerLasts, DeadRows, PresentRows
    <3> QED
      BY <1>1, <1>2, <1>5, <2>2, <3>2 DEF AckedNow, DeletedNow
  <2>3. CASE ~(row[p] > base)
    BY <1>1, <1>2, <1>5, <2>3 DEF AckedNow, DeletedNow
  <2> QED
    BY <2>2, <2>3
<1> QED
  BY <1>1, <1>3, <1>4, <1>5

\* INSERT and DELETE, with the log, the scans, failures and crashes, implement
\* the abstract table as long as every table stays within its region.
THEOREM TableImplemented == Spec /\ []WithinRegions => ImplementsTable
<1>1. Init => Table!Init
  <2> SUFFICES ASSUME Init PROVE Table!Init
    OBVIOUS
  <2>1. strip = [z \in Zs |-> EmptyStrip] /\ acked = {} /\ deleted = {}
        /\ home = [r \in Rows |-> 0] /\ 0 \in Zs
    BY EmptyType DEF Init
  <2>2. PresentRows = {}
    BY <2>1, BoundsAssumption DEF PresentRows, Rows, EmptyStrip
  <2> QED
    BY <2>1, <2>2 DEF DeadRows, Table!Init
<1>2. GInv /\ WithinRegions /\ [Next]_vars => [Table!Next]_(Table!rvars)
  <2> SUFFICES ASSUME GInv, WithinRegions, [Next]_vars
               PROVE  Table!Next \/ UNCHANGED Table!rvars
    OBVIOUS
  <2> DEFINE Same == UNCHANGED <<PresentRows, DeadRows, AckedNow, DeletedNow>>
  <2>0. Same => UNCHANGED Table!rvars
    BY DEF Table!rvars, AckedNow, DeletedNow
  <2>1. ASSUME NEW p \in Sessions, NEW t \in Tables, StartInsert(p, t) PROVE Same
    BY <2>1, TableReserve
  <2>2. ASSUME NEW p \in Sessions, InsertWrite(p) PROVE Table!Next \/ Same
    <3>1. /\ UNCHANGED <<DeadRows, AckedNow, DeletedNow>> /\ row[p] \in Rows
          /\ row[p] \notin PresentRows
          /\ PresentRows' = PresentRows \/ PresentRows' = PresentRows \cup {row[p]}
      BY <2>2, TableInsert
    <3>2. CASE PresentRows' = PresentRows \cup {row[p]}
      <4>1. Table!Insert(row[p])
        BY <3>1, <3>2 DEF Table!Insert, AckedNow, DeletedNow
      <4> QED
        BY <3>1, <4>1 DEF Table!Next
    <3> QED
      BY <3>1, <3>2
  <2>3. ASSUME NEW z \in Zs, NEW k \in 0 .. 2,
               strip' = [strip EXCEPT ![z] = XmaxBlocks(strip[z], k)],
               UNCHANGED <<home, base, acked, deleted>>
        PROVE  Table!Next \/ Same
    <3>1. /\ UNCHANGED <<PresentRows, AckedNow, DeletedNow>>
          /\ \/ DeadRows' = DeadRows
             \/ \E r \in PresentRows : DeadRows' = DeadRows \cup {r}
      BY <2>3, TableDelete
    <3>2. ASSUME NEW r \in PresentRows, DeadRows' = DeadRows \cup {r} PROVE Table!Next
      <4>1. Table!Delete(r)
        BY <3>1, <3>2 DEF Table!Delete, AckedNow, DeletedNow
      <4>2. r \in Rows
        BY DEF PresentRows
      <4> QED
        BY <4>1, <4>2 DEF Table!Next
    <3> QED
      BY <3>1, <3>2
  <2>4. ASSUME NEW p \in Sessions, CommitWrite(p) PROVE Table!Next \/ Same
    <3>1. /\ UNCHANGED <<PresentRows, DeadRows>>
          /\ \/ UNCHANGED <<AckedNow, DeletedNow>>
             \/ /\ row[p] \in PresentRows /\ AckedNow' = AckedNow \cup {row[p]}
                /\ DeletedNow' = DeletedNow
             \/ /\ row[p] \in DeadRows /\ DeletedNow' = DeletedNow \cup {row[p]}
                /\ AckedNow' = AckedNow
      BY <2>4, TableTold
    <3>2. ASSUME row[p] \in PresentRows, AckedNow' = AckedNow \cup {row[p]},
                 DeletedNow' = DeletedNow
          PROVE  Table!Next
      <4>1. PICK r \in Rows : r = row[p]
        BY <3>2 DEF PresentRows
      <4>2. Table!AckInsert(r)
        BY <3>1, <3>2, <4>1 DEF Table!AckInsert, AckedNow, DeletedNow
      <4> QED
        BY <4>2 DEF Table!Next
    <3>3. ASSUME row[p] \in DeadRows, DeletedNow' = DeletedNow \cup {row[p]},
                 AckedNow' = AckedNow
          PROVE  Table!Next
      <4>1. PICK r \in Rows : r = row[p]
        BY <3>3 DEF DeadRows, PresentRows
      <4>2. Table!AckDelete(r)
        BY <3>1, <3>3, <4>1 DEF Table!AckDelete, AckedNow, DeletedNow
      <4> QED
        BY <4>2 DEF Table!Next
    <3> QED
      BY <3>1, <3>2, <3>3
  <2>5. ASSUME Volatile, UNCHANGED <<nrows, home, strip, acked, deleted>> PROVE Table!Next
    <3>1. PresentRows' = {} /\ DeadRows' = {} /\ AckedNow' = {} /\ DeletedNow' = {}
      BY <2>5, TableRestart
    <3>2. Table!Restart
      BY <3>1 DEF Table!Restart, AckedNow, DeletedNow
    <3> QED
      BY <3>2 DEF Table!Next
  <2>6. ASSUME UNCHANGED <<strip, home, base, acked, deleted>> PROVE Same
    BY <2>6, TableStutter, SMTT(30)
  <2>7. ASSUME NEW p \in Sessions, Start(p) \/ Step(p) \/ Scanner(p)
        PROVE  \/ \E t \in Tables : StartInsert(p, t)
               \/ InsertWrite(p) \/ CommitWrite(p)
               \/ XmaxWrite(p) /\ UNCHANGED <<home, base, acked, deleted>>
               \/ UNCHANGED <<strip, home, base, acked, deleted>>
    BY <2>7 DEF Start, StartSelect, StartDelete, StartScan, Step, LoadRowChunk, AllocLSN,
       AppendWrite, XmaxWrite, CommitRead, Recv, Arrived, RecvDone, Mark, Reply, Scanner, ScanRead,
       ScanSend, ScanClose, history, world
  <2>8. ASSUME Restart \/ Recovery \/ Shutdown \/ Crash \/ UNCHANGED vars
        PROVE  \/ Volatile /\ UNCHANGED <<nrows, home, strip, acked, deleted>>
               \/ ReplayUpdateXmax /\ UNCHANGED <<home, base, acked, deleted>>
               \/ UNCHANGED <<strip, home, base, acked, deleted>>
    BY <2>8 DEF Restart, Recovery, RecoverRead, ReplayInsert, ReplayUpdateXmax,
       RecoverCommit, LoadCatalog, Shutdown, Crash, Fatal, RecoverNext, ToCommit, Skip,
       history, world, vars
  <2>9. ASSUME UNCHANGED <<home, base, acked, deleted>>,
               ReplayUpdateXmax \/ \E p \in Sessions : XmaxWrite(p)
        PROVE  Table!Next \/ Same
    <3>1. ASSUME NEW p \in Sessions, InsertWrite(p), XmaxWrite(p) PROVE FALSE
      BY <3>1 DEF InsertWrite, XmaxWrite
    <3> QED
      BY <2>2, <2>3, <2>6, <2>9, StripMoves
  <2> QED
    BY <2>0, <2>1, <2>2, <2>4, <2>5, <2>6, <2>7, <2>8, <2>9 DEF Next
<1> QED
  BY RowInvariant, <1>1, <1>2, PTL DEF Spec, ImplementsTable, Table!Spec

\* The same for a world with room for every row: no table can leave its region.
THEOREM TableImplementedWithRoom ==
  ASSUME MaxRows <= TableZSpacing
  PROVE  Spec => ImplementsTable
<1>1. GInv => WithinRegions
  <2> SUFFICES ASSUME GInv, NEW t \in Tables PROVE rowCount[t] <= TableZSpacing
    BY DEF WithinRegions
  <2>1. rowCount[t] \in 0 .. MaxRows /\ MaxRows \in Nat /\ TableZSpacing \in Nat
    BY Facts, BoundsAssumption DEF GInv
  <2> QED
    BY <2>1
<1> QED
  BY RowInvariant, TableImplemented, <1>1, PTL


-----------------------------------------------------------------------------
(* Books are not overwritten before the first crash.                       *)

\* In a world that has seen no crash, Append writes to empty lecterns.
FreshInv ==
  crashes = 0 =>
    /\ phase # "serve" => \A l \in LSNs : lectern[l].status = "AIR"
    /\ phase = "serve" => \A l \in LSNs : l >= nextLSN => lectern[l].status = "AIR"
    /\ \A p \in Sessions : pc[p] = "append" => lectern[lsn[p]].status = "AIR"

\* Statements allocate lecterns that nobody has written.
LEMMA FreshSession ==
  ASSUME GInv, FreshInv, NEW p \in Sessions, Start(p) \/ Step(p) \/ Scanner(p)
  PROVE  FreshInv'
<1> USE DEF GInv
<1>0. /\ lectern \in [LSNs -> Books] /\ pc \in [Sessions -> Pcs]
      /\ lsn \in [Sessions -> LSNs] /\ nextLSN \in LSNs
  BY Facts, SMTT(30) DEF IInv, TypeOK, EngineOK
<1>1. crashes' = crashes /\ phase' = phase
  BY DEF Start, StartInsert, StartSelect, StartDelete, StartScan, Step, LoadRowChunk,
     AllocLSN, AppendWrite, InsertWrite, XmaxWrite, CommitRead, CommitWrite, Recv,
     RecvDone, Mark, Reply, Scanner, ScanRead, ScanSend, ScanClose, engine, history
<1>2. \A q \in Sessions : q # p => pc'[q] = pc[q] /\ lsn'[q] = lsn[q]
  BY Others
<1>3. CASE /\ UNCHANGED <<lectern, nextLSN>>
           /\ pc'[p] = "append" => pc[p] = "append" /\ lsn'[p] = lsn[p]
  BY <1>1, <1>2, <1>3 DEF FreshInv
<1>4. CASE Start(p)
  <2>1. pc'[p] # "append" /\ UNCHANGED <<lectern, nextLSN>>
    BY <1>0, <1>4 DEF Start, StartInsert, StartSelect, StartDelete, StartScan, Goto,
       world, engine
  <2> QED
    BY <1>3, <2>1
<1>5. CASE LoadRowChunk(p) \/ InsertWrite(p) \/ XmaxWrite(p) \/ CommitRead(p) \/ Recv(p)
           \/ RecvDone(p) \/ Mark(p) \/ Reply(p)
  <2>1. pc'[p] # "append" /\ UNCHANGED <<lectern, nextLSN>>
    BY <1>0, <1>5 DEF LoadRowChunk, InsertWrite, XmaxWrite, CommitRead, Recv, Arrived, RecvDone,
       Mark, Reply, Goto, world, engine
  <2> QED
    BY <1>3, <2>1
<1>6. CASE Scanner(p)
  BY <1>3, <1>6 DEF Scanner, ScanRead, ScanSend, ScanClose, world, engine, locals
<1>7. CASE AllocLSN(p)
  <2>1. lectern' = lectern /\ lsn'[p] = nextLSN /\ nextLSN' = nextLSN + 1
    BY <1>0, <1>7 DEF AllocLSN, world, NextLSN
  <2>2. phase = "serve"
    BY <1>7 DEF AllocLSN, IInv, ProcInv
  <2>3. \A l \in LSNs : l >= nextLSN' => l >= nextLSN
    BY <1>0, <2>1 DEF LSNs
  <2>4. nextLSN >= nextLSN
    BY <1>0 DEF LSNs
  <2> QED
    BY <1>0, <1>1, <1>2, <2>1, <2>2, <2>3, <2>4 DEF FreshInv
<1>8. CASE AppendWrite(p) \/ CommitWrite(p)
  <2>1. /\ HasLSN(p) /\ phase = "serve" /\ pc'[p] # "append" /\ nextLSN' = nextLSN
        /\ \A l \in LSNs : l # lsn[p] => lectern'[l] = lectern[l]
    BY <1>0, <1>8 DEF AppendWrite, CommitWrite, HasLSN, IInv, ProcInv, Goto, AfterAppend,
       engine
  <2>2. lsn[p] < nextLSN /\ \A q \in Sessions \ {p} : HasLSN(q) => lsn[q] # lsn[p]
    BY <2>1 DEF IInv, LogInv, LogIntact
  <2>3. \A q \in Sessions : pc'[q] = "append" =>
          q # p /\ pc[q] = "append" /\ lsn'[q] = lsn[q] /\ lsn[q] # lsn[p]
    BY <1>2, <2>1, <2>2 DEF HasLSN
  <2>4. \A l \in LSNs : l >= nextLSN => l # lsn[p]
    BY <1>0, <2>2 DEF LSNs
  <2> QED
    BY <1>0, <1>1, <2>1, <2>3, <2>4 DEF FreshInv
<1> QED
  BY <1>4, <1>5, <1>6, <1>7, <1>8 DEF Step

\* A process that starts over a world without crashes finds an empty log.
LEMMA FreshProcess ==
  ASSUME GInv, FreshInv, Restart \/ Recovery \/ Shutdown \/ Crash \/ UNCHANGED vars
  PROVE  FreshInv'
<1> USE DEF GInv
<1>0. crashes \in Nat /\ recAt \in LSNs
  BY Facts, BoundsAssumption DEF IInv, TypeOK, HistoryOK
<1>1. CASE Crash
  BY <1>0, <1>1 DEF Crash, FreshInv
<1>2. CASE UNCHANGED <<lectern, nextLSN, phase, crashes, pc, lsn>>
  BY <1>2 DEF FreshInv
<1>3. CASE Shutdown \/ UNCHANGED vars
  BY <1>2, <1>3 DEF Shutdown, vars, world, engine, locals, history
<1>4. ASSUME Restart \/ Recovery
      PROVE  /\ phase # "serve" /\ crashes' = crashes /\ \A p \in Sessions : pc'[p] = "idle"
             /\ lectern' = lectern \/ recPc = "commit"
  <2>1. phase # "serve" /\ (lectern' = lectern \/ recPc = "commit")
    BY <1>4 DEF Restart, Recovery, RecoverRead, ReplayInsert, ReplayUpdateXmax,
       RecoverCommit, LoadCatalog, world
  <2>2. crashes' = crashes
    BY <1>4 DEF Restart, Recovery, RecoverRead, ReplayInsert, ReplayUpdateXmax,
       RecoverCommit, LoadCatalog, Fatal, RecoverNext, ToCommit, Skip, history
  <2>3. \A p \in Sessions : pc[p] = "idle"
    BY <2>1 DEF IInv, ProcInv
  <2>4. \A p \in Sessions : pc'[p] = "idle"
    BY <1>4, <2>3, ProcessMoves DEF Volatile
  <2> QED
    BY <2>1, <2>2, <2>4
<1>5. CASE Restart \/ Recovery
  <2>1. crashes = 0 => recPc # "commit"
    BY <1>0, <1>4, <1>5 DEF FreshInv, IInv, ProcInv
  <2> QED
    BY <1>4, <1>5, <2>1 DEF FreshInv
<1> QED
  BY <1>1, <1>3, <1>5

\* Until the first crash a book in the log keeps its content: Append finds an
\* empty lectern, and Commit writes back the statement's own entry.
THEOREM EntryKeptAlways == Spec => EntryKept
<1> DEFINE KeptBooks ==
      crashes = 0 =>
        \A l \in LSNs : lectern[l].status # "AIR" =>
          lectern'[l] \in {lectern[l], [lectern[l] EXCEPT !.status = "COMMITTED"]}
<1>1. Init => FreshInv
  BY DEF Init, FreshInv, EmptyLectern
<1>2. GInv /\ FreshInv /\ [Next]_vars => FreshInv'
  BY FreshSession, FreshProcess DEF Next
<1>3. GInv /\ FreshInv /\ [Next]_vars => KeptBooks
  <2> SUFFICES ASSUME GInv, FreshInv, [Next]_vars, crashes = 0, NEW l \in LSNs,
                      lectern[l].status # "AIR"
               PROVE  lectern'[l] \in {lectern[l], [lectern[l] EXCEPT !.status = "COMMITTED"]}
    OBVIOUS
  <2>1. ASSUME NEW p \in Sessions, AppendWrite(p), l = lsn[p] PROVE FALSE
    BY <2>1 DEF AppendWrite, FreshInv
  <2>2. ASSUME NEW p \in Sessions, CommitWrite(p), l = lsn[p] PROVE lectern[l] = book[p]
    <3>1. InLog(p) /\ pc[p] = "cwrite"
      BY <2>2 DEF CommitWrite, InLog
    <3>2. lectern[lsn[p]] = Entry(p) /\ book[p] = Entry(p)
      BY <3>1 DEF GInv, IInv, LogInv, LogIntact, TableInv, BookInv
    <3> QED
      BY <2>2, <3>2
  <2> QED
    BY <2>1, <2>2, LecternMoves
<1>4. Spec => [][KeptBooks]_vars
  BY RowInvariant, <1>1, <1>2, <1>3, PTL DEF Spec
<1> QED
  BY <1>4 DEF EntryKept

=============================================================================
