--------------------------- MODULE RowStoreProofs ---------------------------
(***************************************************************************)
(* Proofs about RowStore for every value of its constants: any number of   *)
(* sessions, tables, rows, crashes and failures, torn batches included.    *)
(***************************************************************************)
EXTENDS RowStore, TLAPS

\* The slots handed out never outnumber the INSERTs received.
CountInv == \A t \in Tables : rowCount[t] <= nrows

\* No statement runs before the engine serves, Recover replays and commits
\* PENDING entries only, and the last lectern of the bounded log is empty.
ProcInv ==
  /\ phase # "serve" => \A p \in Sessions : pc[p] = "idle"
  /\ recPc # "read" => phase = "recover" /\ lectern[recAt].status = "PENDING"
  /\ lectern[MaxLSN].status = "AIR"

\* LSNs in use were allocated by the running process.
LogInv ==
  /\ \A p \in Sessions : HasLSN(p) => lsn[p] < nextLSN
  /\ LogIntact

IInv == TypeOK /\ CountInv /\ ProcInv /\ LogInv

-----------------------------------------------------------------------------
(* The operators the actions are built from.                               *)

\* Multiplication distributes over addition.
LEMMA Distributes ==
  ASSUME NEW a \in Nat, NEW b \in Nat, NEW c \in Nat
  PROVE  (a + 1 + b) * c = a * c + c + b * c
OBVIOUS

\* A table's region starts at a slot, and regions are ordered as table IDs are.
LEMMA ZStartBound ==
  ASSUME NEW t \in Tables
  PROVE  ZStart(t) \in Nat /\ ZStart(t) + TableZSpacing <= NTables * TableZSpacing
<1>1. NTables \in Nat /\ TableZSpacing \in Nat
  BY BoundsAssumption
<1>2. PICK d \in Nat : NTables = t + d
  <2>1. NTables - t \in Nat /\ NTables = t + (NTables - t)
    BY <1>1 DEF Tables
  <2> QED BY <2>1
<1>3. t - 1 \in Nat
  BY DEF Tables
<1>4. (t - 1) * TableZSpacing \in Nat /\ d * TableZSpacing \in Nat
  BY <1>1, <1>2, <1>3
<1>5. NTables * TableZSpacing
        = (t - 1) * TableZSpacing + TableZSpacing + d * TableZSpacing
  <2>1. NTables = (t - 1) + 1 + d
    BY <1>1, <1>2, <1>3 DEF Tables
  <2>2. ((t - 1) + 1 + d) * TableZSpacing
          = (t - 1) * TableZSpacing + TableZSpacing + d * TableZSpacing
    BY <1>1, <1>2, <1>3, Distributes
  <2> QED
    BY <2>1, <2>2
<1> QED
  BY <1>1, <1>4, <1>5 DEF ZStart

\* Every slot that InsertRow or SeqScan can compute lies in the modelled world.
LEMMA RowZType ==
  ASSUME NEW t \in Tables, NEW i \in 0 .. MaxRows
  PROVE  RowZ(t, i) \in Zs
<1>1. ZStart(t) \in Nat /\ ZStart(t) + TableZSpacing <= NTables * TableZSpacing
  BY ZStartBound
<1>2. NTables * TableZSpacing \in Nat
  BY BoundsAssumption
<1> QED
  BY <1>1, <1>2, BoundsAssumption DEF RowZ, Zs, MaxZ

\* Block writes keep a strip a strip.
LEMMA StripType ==
  ASSUME NEW s \in Strips, NEW r \in 0 .. MaxRows, NEW k \in Int
  PROVE  InsertBlocks(s, r, k) \in Strips /\ XmaxBlocks(s, k) \in Strips
BY DEF Strips, InsertBlocks, XmaxBlocks

\* The constants that stand for an empty world are of the right types.
LEMMA EmptyType ==
  EmptyLectern \in Books /\ EmptyStrip \in Strips /\ NoItem \in Items
  /\ ErrItem \in Items /\ 0 \in 0 .. MaxRows /\ 0 \in Zs /\ 1 \in Tables
  /\ 1 \in LSNs /\ MaxLSN \in LSNs
<1>1. NTables * TableZSpacing \in Nat
  BY BoundsAssumption
<1> QED
  BY <1>1, BoundsAssumption
  DEF EmptyLectern, Books, Ops, EmptyStrip, Strips, NoItem, ErrItem, Items, Zs,
      MaxZ, Tables, LSNs

\* A write leaves a number of blocks between none and all.
LEMMA WrittenInt ==
  ASSUME NEW o, NEW n \in Nat, NEW k \in Written(o, n)
  PROVE  k \in Int
BY DEF Written


-----------------------------------------------------------------------------
(* Type correctness, one step per action.                                  *)

\* A step that leaves a group of variables alone leaves their types alone.
LEMMA Frames ==
  ASSUME TypeOK
  PROVE  /\ UNCHANGED world => WorldOK'
         /\ UNCHANGED engine => EngineOK' /\ (ctxDone \in BOOLEAN)'
         /\ UNCHANGED <<pc, locals>> => SessionOK'
         /\ UNCHANGED scans => ScanOK'
         /\ UNCHANGED <<faults, history>> => HistoryOK'
<1> USE DEF TypeOK
<1>1. UNCHANGED world => WorldOK'
  BY DEF WorldOK, world
<1>2. UNCHANGED engine => EngineOK'
  BY DEF EngineOK, engine
<1>3. UNCHANGED engine => (ctxDone \in BOOLEAN)'
  BY DEF engine
<1>4. UNCHANGED <<pc, locals>> => SessionOK'
  BY DEF SessionOK, locals
<1>5. UNCHANGED scans => ScanOK'
  BY DEF ScanOK, scans
<1>6. UNCHANGED <<faults, history>> => HistoryOK'
  BY DEF HistoryOK, history
<1> QED
  BY <1>1, <1>2, <1>3, <1>4, <1>5, <1>6

\* A HAL call keeps the budget of failures.
LEMMA HalType ==
  ASSUME HistoryOK, NEW o, Hal(o)
  PROVE  faults' \in 0 .. MaxFaults
BY BoundsAssumption DEF HistoryOK, Hal

\* A step of the HAL budget that leaves the rest of the history alone.
LEMMA HalHistory ==
  ASSUME HistoryOK, NEW o, Hal(o), UNCHANGED history
  PROVE  HistoryOK'
<1>1. faults' \in 0 .. MaxFaults
  BY HalType
<1> QED
  BY <1>1 DEF HistoryOK, history

\* Moving a session to another program point keeps the types.
LEMMA GotoType ==
  ASSUME SessionOK, NEW p \in Sessions, NEW l \in Pcs, Goto(p, l), UNCHANGED locals
  PROVE  SessionOK'
BY DEF SessionOK, Goto, locals

\* The initial state satisfies the inductive invariant.
LEMMA InitInv == Init => IInv
<1> SUFFICES ASSUME Init PROVE IInv
  OBVIOUS
<1> USE EmptyType, BoundsAssumption DEF Init
<1>1. WorldOK /\ EngineOK
  BY DEF WorldOK, EngineOK
<1>2. SessionOK
  BY DEF SessionOK, Pcs
<1>3. ScanOK
  BY DEF ScanOK, Scans, NoScan
<1>4. HistoryOK
  BY DEF HistoryOK
<1>5. ctxDone \in BOOLEAN
  OBVIOUS
<1>6. CountInv /\ ProcInv /\ LogInv
  BY DEF CountInv, ProcInv, LogInv, LogIntact, HasLSN, InLog, EmptyLectern
<1> QED
  BY <1>1, <1>2, <1>3, <1>4, <1>5, <1>6 DEF IInv, TypeOK

\* A step of a session's statement, or of its scanner, preserves the types.
LEMMA TypeStep ==
  ASSUME IInv, NEW p \in Sessions, Start(p) \/ Step(p) \/ Scanner(p)
  PROVE  TypeOK'
<1> USE EmptyType, BoundsAssumption, Frames, HalHistory DEF IInv
<1>0. TypeOK /\ WorldOK /\ EngineOK /\ SessionOK /\ ScanOK /\ HistoryOK
  BY DEF TypeOK
<1>1. CASE \E t \in Tables : StartInsert(p, t)
  <2>1. PICK t \in Tables : StartInsert(p, t)
    BY <1>1
  <2>2. rowCount[t] \in 0 .. MaxRows /\ rowCount[t] + 1 \in 0 .. MaxRows
    BY <1>0, <2>1 DEF EngineOK, HistoryOK, CountInv, StartInsert
  <2>3. RowZ(t, rowCount[t]) \in Zs
    BY <2>2, RowZType
  <2>4. nrows + 1 \in Rows /\ nrows + 1 \in 0 .. MaxRows
    BY <1>0, <2>1 DEF HistoryOK, StartInsert, Rows
  <2>5. WorldOK' /\ ScanOK' /\ (ctxDone \in BOOLEAN)'
    BY <1>0, <2>1 DEF StartInsert, TypeOK
  <2>6. EngineOK'
    BY <1>0, <2>1, <2>2 DEF StartInsert, EngineOK, NextRowCount
  <2>7. SessionOK'
    BY <1>0, <2>1, <2>3, <2>4 DEF StartInsert, SessionOK, Goto, Pcs
  <2>8. HistoryOK'
    BY <1>0, <2>1, <2>3, <2>4 DEF StartInsert, HistoryOK
  <2> QED
    BY <2>5, <2>6, <2>7, <2>8 DEF TypeOK
<1>2. CASE \E t \in Tables, w \in Wheres : StartSelect(p, t, w) \/ StartDelete(p, t, w)
  <2>1. PICK t \in Tables, w \in Wheres, kind \in {"SELECT", "DELETE"} :
          StartScan(p, t, w, kind)
    BY <1>2 DEF StartSelect, StartDelete
  <2>2. w \in SUBSET (0 .. MaxRows)
    BY WheresAssumption
  <2>3. [on |-> TRUE, n |-> ScanLength(t), at |-> 0, held |-> NoItem] \in Scans
    BY <1>0 DEF EngineOK, ScanLength, Scans
  <2>4. WorldOK' /\ EngineOK' /\ (ctxDone \in BOOLEAN)'
    BY <1>0, <2>1 DEF StartScan
  <2>5. SessionOK'
    BY <1>0, <2>1, <2>2 DEF StartScan, SessionOK, Goto, Pcs
  <2>6. ScanOK'
    BY <1>0, <2>1, <2>3 DEF StartScan, ScanOK
  <2>7. HistoryOK'
    <3>1. deletes' \in 0 .. MaxDeletes
      BY <1>0, <2>1 DEF StartScan, HistoryOK
    <3>2. must' \in [Sessions -> SUBSET (0 .. MaxRows)]
      BY <1>0, <2>1, <2>2 DEF StartScan, HistoryOK
    <3>3. mustNot' \in [Sessions -> SUBSET (0 .. MaxRows)]
      BY <1>0, <2>1 DEF StartScan, HistoryOK
    <3> QED
      BY <1>0, <2>1, <3>1, <3>2, <3>3 DEF StartScan, HistoryOK
  <2> QED
    BY <2>4, <2>5, <2>6, <2>7 DEF TypeOK
<1>3. CASE LoadRowChunk(p)
  <2>1. PICK o \in Outcomes : Hal(o) /\ Goto(p, IF o = "ok" THEN "alloc" ELSE "err")
    BY <1>3 DEF LoadRowChunk
  <2>2. SessionOK'
    BY <1>0, <1>3, <2>1, GotoType DEF LoadRowChunk, Pcs
  <2>3. HistoryOK'
    BY <1>0, <1>3, <2>1 DEF LoadRowChunk
  <2> QED
    BY <1>0, <1>3, <2>2, <2>3 DEF LoadRowChunk, TypeOK
<1>4. CASE AllocLSN(p)
  <2>1. WorldOK' /\ ScanOK' /\ HistoryOK' /\ (ctxDone \in BOOLEAN)'
    BY <1>0, <1>4 DEF AllocLSN, TypeOK
  <2>2. EngineOK'
    BY <1>0, <1>4 DEF AllocLSN, EngineOK, NextLSN, LSNs
  <2>3. SessionOK'
    BY <1>0, <1>4 DEF AllocLSN, EngineOK, SessionOK, Goto, AfterAlloc, Pcs
  <2> QED
    BY <2>1, <2>2, <2>3 DEF TypeOK
<1>5. CASE AppendWrite(p)
  <2>1. PICK o \in Outcomes : \E k \in Written(o, 1) :
          /\ Hal(o)
          /\ lectern' = IF k = 1 THEN [lectern EXCEPT ![lsn[p]] = Entry(p)] ELSE lectern
          /\ Goto(p, IF o = "ok" THEN AfterAppend ELSE "err")
    BY <1>5 DEF AppendWrite
  <2>2. Entry(p) \in Books
    BY <1>0 DEF Entry, Books, Ops, SessionOK
  <2>3. WorldOK'
    BY <1>0, <1>5, <2>1, <2>2 DEF AppendWrite, WorldOK
  <2>4. SessionOK'
    BY <1>0, <1>5, <2>1, GotoType DEF AppendWrite, AfterAppend, Pcs
  <2>5. HistoryOK'
    BY <1>0, <1>5, <2>1 DEF AppendWrite
  <2> QED
    BY <1>0, <1>5, <2>3, <2>4, <2>5 DEF AppendWrite, TypeOK
<1>6. CASE InsertWrite(p)
  <2>1. PICK o \in Outcomes : \E k \in Written(o, 4) :
          /\ Hal(o)
          /\ strip' = [strip EXCEPT ![pos[p]] = InsertBlocks(@, row[p], k)]
          /\ Goto(p, IF o = "ok" THEN "cread" ELSE "err")
    BY <1>6 DEF InsertWrite
  <2>2. PICK k \in Written(o, 4) :
          strip' = [strip EXCEPT ![pos[p]] = InsertBlocks(@, row[p], k)]
    BY <2>1
  <2>3. InsertBlocks(strip[pos[p]], row[p], k) \in Strips
    BY <1>0, WrittenInt, StripType DEF WorldOK, SessionOK
  <2>4. WorldOK'
    BY <1>0, <1>6, <2>2, <2>3 DEF InsertWrite, WorldOK
  <2>5. SessionOK'
    BY <1>0, <1>6, <2>1, GotoType DEF InsertWrite, Pcs
  <2>6. HistoryOK'
    BY <1>0, <1>6, <2>1 DEF InsertWrite
  <2> QED
    BY <1>0, <1>6, <2>4, <2>5, <2>6 DEF InsertWrite, TypeOK
<1>7. CASE XmaxWrite(p)
  <2>1. PICK o \in Outcomes : \E k \in Written(o, 2) :
          /\ Hal(o)
          /\ strip' = [strip EXCEPT ![pos[p]] = XmaxBlocks(@, k)]
          /\ Goto(p, IF o = "ok" THEN "cread" ELSE "err")
    BY <1>7 DEF XmaxWrite
  <2>2. PICK k \in Written(o, 2) :
          strip' = [strip EXCEPT ![pos[p]] = XmaxBlocks(@, k)]
    BY <2>1
  <2>3. XmaxBlocks(strip[pos[p]], k) \in Strips
    BY <1>0, WrittenInt, StripType DEF WorldOK, SessionOK
  <2>4. WorldOK'
    BY <1>0, <1>7, <2>2, <2>3 DEF XmaxWrite, WorldOK
  <2>5. SessionOK'
    BY <1>0, <1>7, <2>1, GotoType DEF XmaxWrite, Pcs
  <2>6. HistoryOK'
    BY <1>0, <1>7, <2>1 DEF XmaxWrite
  <2> QED
    BY <1>0, <1>7, <2>4, <2>5, <2>6 DEF XmaxWrite, TypeOK
<1>8. CASE CommitRead(p)
  <2>1. PICK o \in Outcomes :
          LET good == o = "ok" /\ lectern[lsn[p]].status = "PENDING"
          IN  /\ Hal(o)
              /\ book' = IF good THEN [book EXCEPT ![p] = lectern[lsn[p]]] ELSE book
              /\ Goto(p, IF good THEN "cwrite" ELSE "err")
    BY <1>8 DEF CommitRead
  <2>2. lectern[lsn[p]] \in Books
    BY <1>0 DEF WorldOK, SessionOK
  <2>3. SessionOK'
    BY <1>0, <1>8, <2>1, <2>2 DEF CommitRead, SessionOK, Goto, Pcs
  <2>4. HistoryOK'
    BY <1>0, <1>8, <2>1 DEF CommitRead
  <2> QED
    BY <1>0, <1>8, <2>3, <2>4 DEF CommitRead, TypeOK
<1>9. CASE CommitWrite(p)
  <2>1. [book[p] EXCEPT !.status = "COMMITTED"] \in Books
    BY <1>0 DEF SessionOK, Books
  <2>2. WorldOK'
    BY <1>0, <1>9, <2>1 DEF CommitWrite, WorldOK
  <2>3. SessionOK'
    BY <1>0, <1>9, GotoType DEF CommitWrite, Pcs
  <2>4. HistoryOK'
    <3>1. row[p] \in 0 .. MaxRows
      BY <1>0 DEF SessionOK
    <3>2. faults' \in 0 .. MaxFaults
      BY <1>0, <1>9, HalType DEF CommitWrite
    <3> QED
      BY <1>0, <1>9, <3>1, <3>2 DEF CommitWrite, HistoryOK
  <2> QED
    BY <1>0, <1>9, <2>2, <2>3, <2>4 DEF CommitWrite, TypeOK
<1>10. CASE Recv(p)
  <2>1. chan[p] \in Seq(Items) /\ chan[p] # <<>>
    BY <1>0, <1>10 DEF Recv, Arrived, ScanOK
  <2>2. Head(chan[p]) \in Items /\ Tail(chan[p]) \in Seq(Items)
    BY <2>1
  <2>3. Head(chan[p]).pos \in Zs /\ Head(chan[p]).row \in 0 .. MaxRows
    BY <2>2 DEF Items
  <2>4. SessionOK'
    <3>1. SessionOK
      BY <1>0
    <3>2. got' \in [Sessions -> Seq(0 .. MaxRows)]
      BY <1>10, <2>3, <3>1 DEF Recv, Arrived, SessionOK
    <3>3. pos' \in [Sessions -> Zs] /\ row' \in [Sessions -> 0 .. MaxRows]
      BY <1>10, <2>3, <3>1 DEF Recv, Arrived, SessionOK
    <3>4. pc' \in [Sessions -> Pcs]
      BY <1>10, <3>1 DEF Recv, Arrived, SessionOK, Goto, Pcs
    <3>5. UNCHANGED <<op, tab, lsn, book, where>>
      BY <1>10 DEF Recv, Arrived
    <3> QED
      BY <3>1, <3>2, <3>3, <3>4, <3>5 DEF SessionOK
  <2>5. ScanOK'
    BY <1>0, <1>10, <2>2 DEF Recv, Arrived, ScanOK
  <2> QED
    BY <1>0, <1>10, <2>4, <2>5 DEF Recv, Arrived, TypeOK
<1>11. CASE RecvDone(p)
  <2>1. SessionOK'
    BY <1>0, <1>11, GotoType DEF RecvDone, Pcs
  <2> QED
    BY <1>0, <1>11, <2>1 DEF RecvDone, TypeOK
<1>12. CASE Mark(p)
  <2>1. SessionOK'
    BY <1>0, <1>12, GotoType DEF Mark, Pcs
  <2>2. HistoryOK'
    <3>1. row[p] \in 0 .. MaxRows
      BY <1>0 DEF SessionOK
    <3>2. faults' \in 0 .. MaxFaults
      BY <1>0, <1>12, HalType DEF Mark
    <3> QED
      BY <1>0, <1>12, <3>1, <3>2 DEF Mark, HistoryOK
  <2> QED
    BY <1>0, <1>12, <2>1, <2>2 DEF Mark, TypeOK
<1>13. CASE Reply(p)
  <2>1. NoScan \in Scans
    BY DEF NoScan, Scans
  <2>2. <<>> \in Seq(Items) /\ <<>> \in Seq(0 .. MaxRows)
    OBVIOUS
  <2>3. SessionOK'
    BY <1>0, <1>13, <2>2 DEF Reply, SessionOK, Goto, Pcs
  <2>4. ScanOK'
    BY <1>0, <1>13, <2>1, <2>2 DEF Reply, ScanOK
  <2>5. HistoryOK'
    BY <1>0, <1>13 DEF Reply, HistoryOK
  <2> QED
    BY <1>0, <1>13, <2>3, <2>4, <2>5 DEF Reply, TypeOK
<1>14. CASE ScanRead(p)
  <2> DEFINE z == RowZ(tab[p], scan[p].at)
             held(o) == CASE o # "ok" -> ErrItem
                          [] o = "ok" /\ isVisible(strip[z], Txid) -> RowItem(z, strip[z])
                          [] OTHER -> NoItem
  <2>1. PICK o \in Outcomes :
          /\ Hal(o)
          /\ scan' = [scan EXCEPT ![p].at = IF o = "ok" THEN @ + 1 ELSE scan[p].n,
                                  ![p].held = held(o)]
    BY <1>14 DEF ScanRead
  <2>2. scan[p] \in Scans /\ scan[p].at < scan[p].n
    BY <1>0, <1>14 DEF ScanRead, ScanOK
  <2>3. scan[p].at \in 0 .. MaxRows /\ scan[p].at + 1 \in 0 .. MaxRows
        /\ scan[p].n \in 0 .. MaxRows
    BY <2>2 DEF Scans
  <2>4. z \in Zs
    BY <1>0, <2>3, RowZType DEF SessionOK
  <2>5. strip[z].cols \in 0 .. MaxRows
    BY <1>0, <2>4 DEF WorldOK, Strips
  <2>6. held(o) \in Items
    BY <2>4, <2>5 DEF RowItem, Items, ErrItem
  <2> HIDE DEF z, held
  <2>7. ScanOK'
    BY <1>0, <1>14, <2>1, <2>2, <2>3, <2>6 DEF ScanRead, ScanOK, Scans
  <2>8. HistoryOK'
    BY <1>0, <1>14, <2>1 DEF ScanRead
  <2> QED
    BY <1>0, <1>14, <2>7, <2>8 DEF ScanRead, TypeOK
<1>15. CASE ScanSend(p)
  <2>1. Append(chan[p], scan[p].held) \in Seq(Items)
    BY <1>0 DEF ScanOK, Scans
  <2>2. ScanOK'
    BY <1>0, <1>15, <2>1 DEF ScanSend, ScanOK, Scans
  <2> QED
    BY <1>0, <1>15, <2>2 DEF ScanSend, TypeOK
<1>16. CASE ScanClose(p)
  <2>1. ScanOK'
    BY <1>0, <1>16 DEF ScanClose, ScanOK, Scans
  <2> QED
    BY <1>0, <1>16, <2>1 DEF ScanClose, TypeOK
<1> QED
  BY <1>1, <1>2, <1>3, <1>4, <1>5, <1>6, <1>7, <1>8, <1>9, <1>10, <1>11, <1>12,
     <1>13, <1>14, <1>15, <1>16
  DEF Start, Step, Scanner

\* The state a dead process leaves behind is well typed.
LEMMA VolatileType ==
  ASSUME TypeOK, Volatile, UNCHANGED <<nrows, deletes, home, acked, marked, deleted>>,
         phase' = "down", faults' \in 0 .. MaxFaults, crashes' \in 0 .. MaxCrashes
  PROVE  EngineOK' /\ SessionOK' /\ ScanOK' /\ HistoryOK' /\ (ctxDone \in BOOLEAN)'
<1> USE EmptyType, BoundsAssumption DEF TypeOK, Volatile
<1>1. EngineOK'
  BY DEF EngineOK
<1>2. SessionOK'
  BY DEF SessionOK, Pcs
<1>3. ScanOK'
  BY DEF ScanOK, Scans, NoScan
<1>4. HistoryOK'
  BY DEF HistoryOK
<1>5. (ctxDone \in BOOLEAN)'
  OBVIOUS
<1> QED
  BY <1>1, <1>2, <1>3, <1>4, <1>5

\* A fatal error keeps everything but the world, which the caller settles.
LEMMA FatalType ==
  ASSUME TypeOK, Fatal, NEW o, Hal(o), WorldOK'
  PROVE  TypeOK'
<1>1. faults' \in 0 .. MaxFaults /\ crashes' \in 0 .. MaxCrashes
  BY HalType DEF TypeOK, Fatal, HistoryOK
<1> QED
  BY <1>1, VolatileType DEF Fatal, TypeOK

\* Recover moves on to a lectern of the log, because the last one is empty.
LEMMA RecoverNextType ==
  ASSUME IInv, NEW n \in LSNs, RecoverNext(n), lectern[recAt].status # "AIR",
         NEW o, Hal(o), WorldOK', skipped' \subseteq LSNs
  PROVE  TypeOK' /\ recAt < MaxLSN
<1> USE BoundsAssumption DEF IInv, TypeOK
<1>1. recAt \in LSNs /\ recAt # MaxLSN
  BY DEF EngineOK, ProcInv
<1>2. recAt < MaxLSN
  BY <1>1 DEF LSNs
<1>3. EngineOK'
  BY <1>1, <1>2 DEF EngineOK, RecoverNext, NextLectern, LSNs
<1>4. SessionOK' /\ ScanOK'
  BY Frames DEF RecoverNext
<1>5. HistoryOK'
  BY HalType DEF RecoverNext, HistoryOK
<1>6. (ctxDone \in BOOLEAN)'
  BY DEF RecoverNext
<1> QED
  BY <1>2, <1>3, <1>4, <1>5, <1>6

\* The next LSN that Recover computes is one of the log's.
LEMMA NextFree ==
  ASSUME IInv, lectern[recAt].status # "AIR"
  PROVE  MaxOf(nextLSN, recAt + 1) \in LSNs
<1>1. recAt \in LSNs /\ recAt # MaxLSN /\ nextLSN \in LSNs
  BY EmptyType DEF IInv, TypeOK, EngineOK, ProcInv
<1> QED
  BY <1>1, BoundsAssumption DEF LSNs, MaxOf

\* ToCommit changes recPc only.
LEMMA ToCommitType ==
  ASSUME TypeOK, ToCommit, NEW o, Hal(o), WorldOK'
  PROVE  TypeOK'
<1> USE DEF TypeOK
<1>1. EngineOK'
  BY DEF ToCommit, EngineOK
<1>2. SessionOK' /\ ScanOK'
  BY Frames DEF ToCommit
<1>3. HistoryOK'
  BY HalHistory DEF ToCommit
<1>4. (ctxDone \in BOOLEAN)'
  BY DEF ToCommit
<1> QED
  BY <1>1, <1>2, <1>3, <1>4

\* A step of the process, of recovery or of the catalog preserves the types.
LEMMA TypeProcess ==
  ASSUME IInv, Restart \/ Recovery \/ Shutdown \/ Crash
  PROVE  TypeOK'
<1> USE EmptyType, BoundsAssumption, Frames DEF IInv
<1>0. TypeOK /\ WorldOK /\ EngineOK /\ SessionOK /\ ScanOK /\ HistoryOK
  BY DEF TypeOK
<1>1. CASE Restart
  <2>1. EngineOK' /\ (ctxDone \in BOOLEAN)'
    BY <1>0, <1>1 DEF Restart, EngineOK, TypeOK
  <2> QED
    BY <1>0, <1>1, <2>1 DEF Restart, TypeOK
<1>2. CASE Shutdown
  <2>1. EngineOK'
    BY <1>0, <1>2 DEF Shutdown, EngineOK
  <2>2. (ctxDone \in BOOLEAN)'
    BY <1>2 DEF Shutdown
  <2> QED
    BY <1>0, <1>2, <2>1, <2>2 DEF Shutdown, TypeOK
<1>3. CASE Crash
  <2>1. faults' \in 0 .. MaxFaults /\ crashes' \in 0 .. MaxCrashes
    BY <1>0, <1>3 DEF Crash, HistoryOK
  <2> QED
    BY <1>0, <1>3, <2>1, VolatileType DEF Crash, TypeOK
<1>4. CASE RecoverRead
  <2>1. PICK o \in Outcomes :
          /\ Hal(o)
          /\ \/ Fatal
             \/ /\ nextLSN' = AtEnd
                /\ phase' = "catalog"
                /\ UNCHANGED <<rowCount, recAt, recPc, ctxDone, pc, locals, scans, history>>
             \/ /\ lectern[recAt].status = "COMMITTED"
                /\ RecoverNext(MaxOf(nextLSN, recAt + 1))
                /\ UNCHANGED skipped
             \/ /\ recPc' = "replay"
                /\ UNCHANGED <<phase, nextLSN, rowCount, recAt, ctxDone, pc, locals,
                               scans, history>>
    BY <1>4 DEF RecoverRead
  <2>2. WorldOK'
    BY <1>0, <1>4 DEF RecoverRead
  <2>3. CASE Fatal
    BY <1>0, <2>1, <2>2, <2>3, FatalType
  <2>4. CASE /\ nextLSN' = AtEnd
             /\ phase' = "catalog"
             /\ UNCHANGED <<rowCount, recAt, recPc, ctxDone, pc, locals, scans, history>>
    <3>1. EngineOK' /\ (ctxDone \in BOOLEAN)'
      BY <1>0, <2>4 DEF EngineOK, AtEnd, MaxOf, TypeOK
    <3>2. HistoryOK'
      BY <1>0, <2>1, <2>4, HalHistory
    <3> QED
      BY <1>0, <2>2, <2>4, <3>1, <3>2 DEF TypeOK
  <2>5. CASE /\ lectern[recAt].status = "COMMITTED"
             /\ RecoverNext(MaxOf(nextLSN, recAt + 1))
             /\ UNCHANGED skipped
    <3>1. MaxOf(nextLSN, recAt + 1) \in LSNs
      BY <2>5, NextFree
    <3>2. skipped' \subseteq LSNs
      BY <1>0, <2>5 DEF HistoryOK
    <3> QED
      BY <2>1, <2>2, <2>5, <3>1, <3>2, RecoverNextType
  <2>6. CASE /\ recPc' = "replay"
             /\ UNCHANGED <<phase, nextLSN, rowCount, recAt, ctxDone, pc, locals,
                            scans, history>>
    <3>1. EngineOK' /\ (ctxDone \in BOOLEAN)'
      BY <1>0, <2>6 DEF EngineOK, TypeOK
    <3>2. HistoryOK'
      BY <1>0, <2>1, <2>6, HalHistory
    <3> QED
      BY <1>0, <2>2, <2>6, <3>1, <3>2 DEF TypeOK
  <2> QED
    BY <2>1, <2>3, <2>4, <2>5, <2>6
<1>5. CASE ReplayInsert \/ ReplayUpdateXmax
  <2>1. lectern[recAt].status # "AIR"
    BY <1>5 DEF ReplayInsert, ReplayUpdateXmax, ProcInv
  <2>2. WorldOK'
    <3>1. CASE ReplayInsert
      BY <1>0, <3>1 DEF ReplayInsert
    <3>2. CASE ReplayUpdateXmax
      <4>1. PICK o \in Outcomes : \E k \in Written(o, 2) :
              strip' = IF ReplayNeeded(strip[lectern[recAt].pos])
                       THEN [strip EXCEPT ![lectern[recAt].pos] = XmaxBlocks(@, k)]
                       ELSE strip
        BY <3>2 DEF ReplayUpdateXmax
      <4>2. PICK k \in Written(o, 2) :
              strip' = IF ReplayNeeded(strip[lectern[recAt].pos])
                       THEN [strip EXCEPT ![lectern[recAt].pos] = XmaxBlocks(@, k)]
                       ELSE strip
        BY <4>1
      <4>3. lectern[recAt].pos \in Zs
        BY <1>0 DEF WorldOK, EngineOK, Books
      <4>4. XmaxBlocks(strip[lectern[recAt].pos], k) \in Strips
        BY <1>0, <4>3, WrittenInt, StripType DEF WorldOK
      <4> QED
        BY <1>0, <3>2, <4>2, <4>3, <4>4 DEF ReplayUpdateXmax, WorldOK
    <3> QED
      BY <1>5, <3>1, <3>2
  <2>3. PICK o \in Outcomes : Hal(o) /\ (ToCommit \/ Skip)
    BY <1>5 DEF ReplayInsert, ReplayUpdateXmax
  <2>4. CASE ToCommit
    BY <1>0, <2>2, <2>3, <2>4, ToCommitType
  <2>5. CASE Skip
    <3>1. nextLSN \in LSNs /\ skipped' \subseteq LSNs
      BY <1>0, <2>5 DEF EngineOK, HistoryOK, Skip
    <3> QED
      BY <2>1, <2>2, <2>3, <2>5, <3>1, RecoverNextType DEF Skip
  <2> QED
    BY <2>3, <2>4, <2>5
<1>6. CASE RecoverCommit
  <2>1. PICK o \in Outcomes : Hal(o) /\ (Fatal \/ (RecoverNext(MaxOf(nextLSN, recAt + 1))
                                                    /\ UNCHANGED skipped))
    BY <1>6 DEF RecoverCommit
  <2>2. lectern[recAt].status # "AIR"
    BY <1>6 DEF RecoverCommit, ProcInv
  <2>3. WorldOK'
    <3>1. [lectern[recAt] EXCEPT !.status = "COMMITTED"] \in Books
      BY <1>0 DEF WorldOK, EngineOK, Books
    <3> QED
      BY <1>0, <1>6, <3>1 DEF RecoverCommit, WorldOK, EngineOK
  <2>4. MaxOf(nextLSN, recAt + 1) \in LSNs
    BY <2>2, NextFree
  <2>5. CASE Fatal
    BY <1>0, <2>1, <2>3, <2>5, FatalType
  <2>6. CASE RecoverNext(MaxOf(nextLSN, recAt + 1)) /\ UNCHANGED skipped
    <3>1. skipped' \subseteq LSNs
      BY <1>0, <2>6 DEF HistoryOK
    <3> QED
      BY <2>1, <2>2, <2>3, <2>4, <2>6, <3>1, RecoverNextType
  <2> QED
    BY <2>1, <2>5, <2>6
<1>7. CASE LoadCatalog
  <2>1. PICK o \in Outcomes :
          /\ Hal(o)
          /\ \/ Fatal
             \/ /\ phase' = "serve" /\ rowCount' = [t \in Tables |-> 0]
                /\ UNCHANGED <<nextLSN, recAt, recPc, ctxDone, pc, locals, scans, history>>
    BY <1>7 DEF LoadCatalog
  <2>2. WorldOK'
    BY <1>0, <1>7 DEF LoadCatalog
  <2>3. CASE Fatal
    BY <1>0, <2>1, <2>2, <2>3, FatalType
  <2>4. CASE /\ phase' = "serve" /\ rowCount' = [t \in Tables |-> 0]
             /\ UNCHANGED <<nextLSN, recAt, recPc, ctxDone, pc, locals, scans, history>>
    <3>1. EngineOK' /\ (ctxDone \in BOOLEAN)'
      BY <1>0, <2>4 DEF EngineOK, TypeOK
    <3>2. HistoryOK'
      BY <1>0, <2>1, <2>4, HalHistory
    <3> QED
      BY <1>0, <2>2, <2>4, <3>1, <3>2 DEF TypeOK
  <2> QED
    BY <2>1, <2>3, <2>4
<1> QED
  BY <1>1, <1>2, <1>3, <1>4, <1>5, <1>6, <1>7 DEF Recovery

-----------------------------------------------------------------------------
(* The rest of the inductive invariant.                                    *)

\* Row counts grow one by one with the INSERTs received, and restart at zero.
LEMMA CountStep == IInv /\ [Next]_vars => CountInv'
<1> SUFFICES ASSUME IInv, [Next]_vars PROVE CountInv'
  OBVIOUS
<1> USE BoundsAssumption DEF IInv
<1>0. /\ \A t \in Tables : rowCount[t] \in 0 .. MaxRows
      /\ nrows \in 0 .. MaxRows /\ rowCount \in [Tables -> 0 .. MaxRows]
  BY DEF TypeOK, EngineOK, HistoryOK
<1>1. CASE \E p \in Sessions, t \in Tables : StartInsert(p, t)
  BY <1>0, <1>1 DEF StartInsert, CountInv, NextRowCount
<1>2. CASE rowCount' = [t \in Tables |-> 0] /\ nrows' = nrows
  BY <1>0, <1>2 DEF CountInv
<1>3. CASE UNCHANGED <<rowCount, nrows>>
  BY <1>3 DEF CountInv
<1>4. ASSUME NEW p \in Sessions, Start(p) \/ Step(p) \/ Scanner(p)
      PROVE  CountInv'
  <2>1. CASE Start(p)
    BY <1>1, <1>3, <2>1 DEF Start, StartSelect, StartDelete, StartScan, engine
  <2>2. CASE Step(p)
    BY <1>3, <2>2 DEF Step, LoadRowChunk, AllocLSN, AppendWrite, InsertWrite, XmaxWrite,
       CommitRead, CommitWrite, Recv, RecvDone, Mark, Reply, engine, history
  <2>3. CASE Scanner(p)
    BY <1>3, <2>3 DEF Scanner, ScanRead, ScanSend, ScanClose, engine, history
  <2> QED
    BY <1>4, <2>1, <2>2, <2>3
<1>5. ASSUME Restart \/ Recovery \/ Shutdown \/ Crash
      PROVE  CountInv'
  <2>1. CASE Restart \/ Shutdown
    BY <1>3, <2>1 DEF Restart, Shutdown, history
  <2>2. CASE Crash
    BY <1>2, <2>2 DEF Crash, Volatile
  <2>3. CASE Recovery
    BY <1>2, <1>3, <2>3 DEF Recovery, RecoverRead, ReplayInsert, ReplayUpdateXmax,
       RecoverCommit, LoadCatalog, Fatal, Volatile, RecoverNext, ToCommit, Skip, history
  <2> QED
    BY <1>5, <2>1, <2>2, <2>3
<1>6. CASE UNCHANGED vars
  BY <1>3, <1>6 DEF vars, engine, history
<1> QED
  BY <1>4, <1>5, <1>6 DEF Next

\* A session with a statement in hand shows that the engine serves, and then
\* recovery is over.
LEMMA Serving ==
  ASSUME IInv, NEW p \in Sessions, pc[p] # "idle" \/ phase = "serve"
  PROVE  phase = "serve" /\ recPc = "read"
BY DEF IInv, ProcInv

\* The lectern a statement allocated is not the last one.
LEMMA LecternFree ==
  ASSUME IInv, NEW p \in Sessions, HasLSN(p)
  PROVE  lsn[p] \in LSNs /\ lsn[p] # MaxLSN
<1>1. lsn[p] \in LSNs /\ nextLSN \in LSNs /\ lsn[p] < nextLSN
  BY DEF IInv, TypeOK, SessionOK, EngineOK, LogInv
<1> QED
  BY <1>1, BoundsAssumption DEF LSNs

\* Statements only run while the engine serves, and never touch the lectern
\* that ends the log.
LEMMA ProcStep ==
  ASSUME IInv, NEW p \in Sessions, Start(p) \/ Step(p) \/ Scanner(p)
  PROVE  ProcInv'
<1> USE DEF IInv
<1>0. ProcInv /\ lectern \in [LSNs -> Books] /\ MaxLSN \in LSNs
  BY EmptyType DEF TypeOK, WorldOK
<1>1. CASE Scanner(p)
  BY <1>0, <1>1 DEF Scanner, ScanRead, ScanSend, ScanClose, world, engine, ProcInv
<1>2. CASE Start(p)
  <2>1. phase' = phase /\ phase = "serve" /\ recPc' = recPc /\ lectern' = lectern
    BY <1>2 DEF Start, StartInsert, StartSelect, StartDelete, StartScan, world, engine
  <2> QED
    BY <1>0, <2>1 DEF ProcInv
<1>3. CASE Step(p)
  <2>1. pc[p] # "idle"
    BY <1>3, ZenonT(30) DEF Step, LoadRowChunk, AllocLSN, AppendWrite, InsertWrite, XmaxWrite,
       CommitRead, CommitWrite, Recv, RecvDone, Mark, Reply
  <2>2. phase = "serve" /\ recPc = "read"
    BY <2>1, Serving
  <2>3. phase' = phase /\ recPc' = recPc
    BY <1>3, ZenonT(30) DEF Step, LoadRowChunk, AllocLSN, AppendWrite, InsertWrite, XmaxWrite,
       CommitRead, CommitWrite, Recv, RecvDone, Mark, Reply, engine
  <2>4. lectern'[MaxLSN] = lectern[MaxLSN]
    <3>1. CASE AppendWrite(p) \/ CommitWrite(p)
      <4>1. lsn[p] \in LSNs /\ lsn[p] # MaxLSN
        BY <3>1, LecternFree DEF AppendWrite, CommitWrite, HasLSN
      <4> QED
        BY <1>0, <3>1, <4>1 DEF AppendWrite, CommitWrite
    <3>2. CASE UNCHANGED lectern
      BY <3>2
    <3> QED
      BY <1>3, <3>1, <3>2 DEF Step, LoadRowChunk, AllocLSN, InsertWrite, XmaxWrite,
         CommitRead, Recv, Arrived, RecvDone, Mark, Reply, world
  <2> QED
    BY <1>0, <2>2, <2>3, <2>4, ZenonT(30) DEF ProcInv
<1> QED
  BY <1>1, <1>2, <1>3

\* Recover replays and commits what it read PENDING, one lectern at a time.
LEMMA ProcProcess ==
  ASSUME IInv, Restart \/ Recovery \/ Shutdown \/ Crash
  PROVE  ProcInv'
<1> USE DEF IInv
<1>0. ProcInv /\ lectern \in [LSNs -> Books] /\ MaxLSN \in LSNs /\ recAt \in LSNs
  BY EmptyType DEF TypeOK, WorldOK, EngineOK
<1>1. CASE Restart \/ Shutdown
  BY <1>0, <1>1 DEF Restart, Shutdown, ProcInv, world
<1>2. ASSUME Volatile, phase' = "down", lectern'[MaxLSN] = lectern[MaxLSN]
      PROVE  ProcInv'
  BY <1>0, <1>2 DEF Volatile, ProcInv
<1>3. CASE Crash
  BY <1>2, <1>3 DEF Crash, world
<1>4. CASE RecoverRead
  <2>1. lectern' = lectern
    BY <1>4 DEF RecoverRead, world
  <2> QED
    BY <1>0, <1>2, <1>4, <2>1 DEF RecoverRead, Fatal, RecoverNext, ProcInv
<1>5. CASE ReplayInsert \/ ReplayUpdateXmax
  BY <1>0, <1>5 DEF ReplayInsert, ReplayUpdateXmax, ToCommit, Skip, RecoverNext, ProcInv,
     world
<1>6. CASE RecoverCommit
  <2>1. lectern'[MaxLSN] = lectern[MaxLSN]
    BY <1>0, <1>6 DEF RecoverCommit, ProcInv
  <2> QED
    BY <1>0, <1>2, <1>6, <2>1 DEF RecoverCommit, Fatal, RecoverNext, ProcInv
<1>7. CASE LoadCatalog
  BY <1>0, <1>2, <1>7 DEF LoadCatalog, Fatal, ProcInv, world
<1> QED
  BY <1>1, <1>3, <1>4, <1>5, <1>6, <1>7 DEF Recovery

\* A session's step that moves only this session, keeps its LSN and writes no
\* lectern but its own keeps the log intact.
LEMMA LogFrame ==
  ASSUME IInv, NEW p \in Sessions, nextLSN' = nextLSN,
         HasLSN(p)' => HasLSN(p) /\ lsn'[p] = lsn[p],
         InLog(p)' => lectern'[lsn'[p]] = Entry(p)',
         lectern' = lectern \/ HasLSN(p),
         \A l \in LSNs \ {lsn[p]} : lectern'[l] = lectern[l],
         \A q \in Sessions \ {p} : /\ pc'[q] = pc[q] /\ op'[q] = op[q]
                                   /\ pos'[q] = pos[q] /\ row'[q] = row[q]
                                   /\ lsn'[q] = lsn[q]
  PROVE  LogInv'
<1>1. LogInv /\ lsn \in [Sessions -> LSNs]
  BY DEF IInv, TypeOK, SessionOK
<1>2. ASSUME NEW q \in Sessions, HasLSN(q)' PROVE HasLSN(q) /\ lsn'[q] = lsn[q]
  BY <1>2 DEF HasLSN
<1>3. ASSUME NEW q \in Sessions, HasLSN(q)' PROVE lsn'[q] < nextLSN'
  BY <1>1, <1>2, <1>3 DEF LogInv
<1>4. ASSUME NEW q \in Sessions, InLog(q)' PROVE lectern'[lsn'[q]] = Entry(q)'
  <2>1. CASE q = p
    BY <1>4, <2>1
  <2>2. CASE q # p
    <3>1. InLog(q) /\ HasLSN(q) /\ lsn'[q] = lsn[q] /\ Entry(q)' = Entry(q)
      BY <1>4, <2>2 DEF InLog, HasLSN, Entry
    <3>2. lectern[lsn[q]] = Entry(q) /\ (HasLSN(p) => lsn[q] # lsn[p])
      BY <1>1, <2>2, <3>1 DEF LogInv, LogIntact
    <3>3. lectern'[lsn[q]] = lectern[lsn[q]]
      BY <1>1, <3>2
    <3> QED
      BY <3>1, <3>2, <3>3
  <2> QED
    BY <2>1, <2>2
<1>5. ASSUME NEW q1 \in Sessions, NEW q2 \in Sessions \ {q1}, HasLSN(q1)', HasLSN(q2)'
      PROVE  lsn'[q1] # lsn'[q2]
  BY <1>1, <1>2, <1>5 DEF LogInv, LogIntact
<1> QED
  BY <1>3, <1>4, <1>5 DEF LogInv, LogIntact

\* Append, the data write and Commit of concurrent statements keep each
\* other's books intact.
LEMMA LogStep ==
  ASSUME IInv, NEW p \in Sessions, Start(p) \/ Step(p) \/ Scanner(p)
  PROVE  LogInv'
<1> USE DEF IInv
<1>0. /\ LogInv /\ lectern \in [LSNs -> Books] /\ pc \in [Sessions -> Pcs]
      /\ lsn \in [Sessions -> LSNs] /\ pos \in [Sessions -> Zs]
      /\ row \in [Sessions -> 0 .. MaxRows]
      /\ op \in [Sessions -> {"NONE", "INSERT", "SELECT", "DELETE"}]
  BY DEF TypeOK, WorldOK, SessionOK
<1>1. CASE UNCHANGED <<pc, op, pos, row, lsn, lectern, nextLSN>>
  BY <1>0, <1>1 DEF LogInv, LogIntact, HasLSN, InLog, Entry
<1>2. CASE /\ ~HasLSN(p)'
           /\ UNCHANGED <<nextLSN, lectern>>
           /\ \A q \in Sessions \ {p} : /\ pc'[q] = pc[q] /\ op'[q] = op[q]
                                        /\ pos'[q] = pos[q] /\ row'[q] = row[q]
                                        /\ lsn'[q] = lsn[q]
  BY <1>2, LogFrame DEF HasLSN, InLog
<1>3. CASE Start(p)
  BY <1>0, <1>2, <1>3 DEF Start, StartInsert, StartSelect, StartDelete, StartScan, Goto,
     HasLSN, world, engine
<1>4. CASE LoadRowChunk(p) \/ RecvDone(p) \/ Mark(p)
  BY <1>0, <1>2, <1>4 DEF LoadRowChunk, RecvDone, Mark, Goto, HasLSN, world, engine, locals
<1>5. CASE Recv(p)
  BY <1>0, <1>2, <1>5 DEF Recv, Arrived, Goto, HasLSN, world, engine
<1>6. CASE Reply(p)
  BY <1>0, <1>2, <1>6 DEF Reply, Goto, HasLSN, world, engine
<1>7. CASE AllocLSN(p)
  <2>1. nextLSN \in LSNs /\ nextLSN' = nextLSN + 1 /\ lsn'[p] = nextLSN
    BY <1>0, <1>7 DEF AllocLSN, NextLSN, TypeOK, EngineOK
  <2>2. \A q \in Sessions \ {p} : pc'[q] = pc[q] /\ lsn'[q] = lsn[q]
    BY <1>0, <1>7 DEF AllocLSN, Goto
  <2>3. pc'[p] = "append" /\ UNCHANGED <<lectern, op, pos, row>>
    BY <1>0, <1>7 DEF AllocLSN, Goto, AfterAlloc, world
  <2>4. \A q \in Sessions : HasLSN(q)' => lsn'[q] < nextLSN'
    BY <1>0, <2>1, <2>2, SMTT(30) DEF LogInv, HasLSN, LSNs
  <2>5. \A q \in Sessions : InLog(q)' => lectern'[lsn'[q]] = Entry(q)'
    BY <1>0, <2>2, <2>3 DEF LogInv, LogIntact, InLog, Entry
  <2>6. \A q1 \in Sessions : \A q2 \in Sessions \ {q1} :
          HasLSN(q1)' /\ HasLSN(q2)' => lsn'[q1] # lsn'[q2]
    BY <1>0, <2>1, <2>2, SMTT(30) DEF LogInv, LogIntact, HasLSN, LSNs
  <2> QED
    BY <2>4, <2>5, <2>6 DEF LogInv, LogIntact
<1>8. CASE AppendWrite(p)
  <2>1. UNCHANGED <<op, pos, row, lsn, nextLSN>> /\ HasLSN(p)
    BY <1>8 DEF AppendWrite, HasLSN, locals, engine
  <2>2. \A q \in Sessions \ {p} : pc'[q] = pc[q]
    BY <1>0, <1>8 DEF AppendWrite, Goto
  <2>3. \A l \in LSNs \ {lsn[p]} : lectern'[l] = lectern[l]
    BY <1>0, <1>8 DEF AppendWrite
  <2>4. InLog(p)' => lectern'[lsn'[p]] = Entry(p)'
    <3>1. PICK o \in Outcomes : \E k \in Written(o, 1) :
            /\ lectern' = IF k = 1 THEN [lectern EXCEPT ![lsn[p]] = Entry(p)] ELSE lectern
            /\ Goto(p, IF o = "ok" THEN AfterAppend ELSE "err")
      BY <1>8 DEF AppendWrite
    <3>2. CASE o = "ok"
      <4>1. Written(o, 1) = {1}
        BY <3>2 DEF Written
      <4>2. lectern'[lsn[p]] = Entry(p)
        BY <1>0, <3>1, <4>1
      <4> QED
        BY <2>1, <4>2 DEF Entry
    <3>3. CASE o # "ok"
      BY <1>0, <3>1, <3>3 DEF Goto, InLog
    <3> QED
      BY <3>2, <3>3
  <2> QED
    BY <2>1, <2>2, <2>3, <2>4, LogFrame
<1>9. CASE InsertWrite(p) \/ XmaxWrite(p) \/ CommitRead(p)
  <2>1. UNCHANGED <<op, pos, row, lsn, nextLSN, lectern>> /\ HasLSN(p) /\ InLog(p)
    BY <1>9 DEF InsertWrite, XmaxWrite, CommitRead, HasLSN, InLog, locals, engine, world
  <2>2. \A q \in Sessions \ {p} : pc'[q] = pc[q]
    BY <1>0, <1>9 DEF InsertWrite, XmaxWrite, CommitRead, Goto
  <2>3. lectern'[lsn'[p]] = Entry(p)'
    BY <1>0, <2>1 DEF LogInv, LogIntact, Entry
  <2> QED
    BY <2>1, <2>2, <2>3, LogFrame
<1>10. CASE CommitWrite(p)
  <2>1. UNCHANGED <<op, pos, row, lsn, nextLSN>> /\ HasLSN(p)
    BY <1>10 DEF CommitWrite, HasLSN, locals, engine
  <2>2. \A q \in Sessions \ {p} : pc'[q] = pc[q]
    BY <1>0, <1>10 DEF CommitWrite, Goto
  <2>3. \A l \in LSNs \ {lsn[p]} : lectern'[l] = lectern[l]
    BY <1>0, <1>10 DEF CommitWrite
  <2>4. ~HasLSN(p)' /\ ~InLog(p)'
    BY <1>0, <1>10 DEF CommitWrite, Goto, HasLSN, InLog
  <2> QED
    BY <2>1, <2>2, <2>3, <2>4, LogFrame
<1>11. CASE Scanner(p)
  BY <1>1, <1>11 DEF Scanner, ScanRead, ScanSend, ScanClose, world, engine, locals
<1> QED
  BY <1>3, <1>4, <1>5, <1>6, <1>7, <1>8, <1>9, <1>10, <1>11 DEF Step

\* No statement is in flight while the process starts, recovers or dies.
LEMMA LogProcess ==
  ASSUME IInv, Restart \/ Recovery \/ Shutdown \/ Crash
  PROVE  LogInv'
<1> USE DEF IInv
<1>1. CASE Shutdown
  BY <1>1 DEF Shutdown, LogInv, LogIntact, HasLSN, InLog, Entry, world, locals
<1>2. CASE \A p \in Sessions : pc'[p] = "idle"
  BY <1>2 DEF LogInv, LogIntact, HasLSN, InLog
<1>3. CASE Crash
  BY <1>2, <1>3 DEF Crash, Volatile
<1>4. CASE Restart \/ Recovery
  <2>1. \A p \in Sessions : pc[p] = "idle"
    BY <1>4 DEF Restart, Recovery, RecoverRead, ReplayInsert, ReplayUpdateXmax,
       RecoverCommit, LoadCatalog, ProcInv
  <2>2. pc' = pc \/ Volatile
    BY <1>4 DEF Restart, Recovery, RecoverRead, ReplayInsert, ReplayUpdateXmax,
       RecoverCommit, LoadCatalog, ToCommit, Skip, RecoverNext, Fatal
  <2> QED
    BY <1>2, <2>1, <2>2 DEF Volatile
<1> QED
  BY <1>1, <1>3, <1>4

\* IInv is inductive.
LEMMA StepInv == IInv /\ [Next]_vars => IInv'
<1> SUFFICES ASSUME IInv, [Next]_vars PROVE IInv'
  OBVIOUS
<1>1. CASE \E p \in Sessions : Start(p) \/ Step(p) \/ Scanner(p)
  BY <1>1, TypeStep, CountStep, ProcStep, LogStep DEF IInv
<1>2. CASE Restart \/ Recovery \/ Shutdown \/ Crash
  BY <1>2, TypeProcess, CountStep, ProcProcess, LogProcess DEF IInv
<1>3. CASE UNCHANGED vars
  <2>1. TypeOK'
    BY <1>3, Frames DEF IInv, TypeOK, vars
  <2>2. CountInv'
    BY CountStep
  <2>3. ProcInv' /\ LogInv'
    BY <1>3 DEF vars, IInv, ProcInv, LogInv, LogIntact, HasLSN, InLog, Entry, world, engine,
       locals
  <2> QED
    BY <2>1, <2>2, <2>3 DEF IInv
<1> QED
  BY <1>1, <1>2, <1>3 DEF Next

-----------------------------------------------------------------------------
(* The theorems.                                                           *)

\* The inductive invariant holds in every reachable state.
THEOREM Invariant == Spec => []IInv
BY InitInv, StepInv, PTL DEF Spec

\* Type correctness: no slot and no lectern outside the modelled world is ever
\* computed by InsertRow, SeqScan, Append or Recover.
THEOREM Typing == Spec => []TypeOK
<1>1. IInv => TypeOK
  BY DEF IInv
<1> QED
  BY Invariant, <1>1, PTL

\* Between Append and Commit a statement's PENDING book stays in the lectern it
\* allocated, for any number of concurrent statements, crashes and failures.
THEOREM LogIntactAlways == Spec => []LogIntact
<1>1. IInv => LogIntact
  BY DEF IInv, LogInv
<1> QED
  BY Invariant, <1>1, PTL

\* The blocks of a row change only under a PENDING book for their slot: the
\* write-ahead rule of InsertRow, MarkDeleted and replayUpdateXmax.
THEOREM WriteAheadAlways == Spec => WriteAhead
<1> DEFINE Logged(z) == \E l \in LSNs : lectern[l].status = "PENDING" /\ lectern[l].pos = z
           Ahead == \A z \in Zs : strip'[z] # strip[z] => Logged(z)
<1>1. ASSUME IInv, [Next]_vars PROVE Ahead
  <2> USE <1>1 DEF IInv
  <2>0. /\ strip \in [Zs -> Strips] /\ lectern \in [LSNs -> Books]
        /\ lsn \in [Sessions -> LSNs] /\ pos \in [Sessions -> Zs] /\ recAt \in LSNs
    BY DEF TypeOK, WorldOK, SessionOK, EngineOK
  <2>1. ASSUME NEW p \in Sessions, InsertWrite(p) \/ XmaxWrite(p) PROVE Ahead
    <3>1. lectern[lsn[p]] = Entry(p)
      BY <2>1 DEF InsertWrite, XmaxWrite, LogInv, LogIntact, InLog
    <3>2. Logged(pos[p])
      BY <2>0, <3>1 DEF Entry
    <3>3. \A z \in Zs : strip'[z] # strip[z] => z = pos[p]
      BY <2>0, <2>1 DEF InsertWrite, XmaxWrite
    <3> QED
      BY <3>2, <3>3
  <2>2. CASE ReplayUpdateXmax
    <3>1. lectern[recAt].status = "PENDING"
      BY <2>2 DEF ReplayUpdateXmax, ProcInv
    <3>2. \A z \in Zs : strip'[z] # strip[z] => z = lectern[recAt].pos
      BY <2>0, <2>2 DEF ReplayUpdateXmax
    <3> QED
      BY <2>0, <3>1, <3>2
  <2>3. CASE UNCHANGED strip
    BY <2>3, ZenonT(30)
  <2>4. ASSUME NEW p \in Sessions, Start(p) \/ Step(p) \/ Scanner(p) PROVE Ahead
    BY <2>1, <2>3, <2>4 DEF Start, StartInsert, StartSelect, StartDelete, StartScan, Step,
       LoadRowChunk, AllocLSN, AppendWrite, CommitRead, CommitWrite, Recv, RecvDone, Mark,
       Reply, Scanner, ScanRead, ScanSend, ScanClose, world
  <2>5. ASSUME Restart \/ Recovery \/ Shutdown \/ Crash PROVE Ahead
    BY <2>2, <2>3, <2>5 DEF Restart, Recovery, RecoverRead, ReplayInsert, RecoverCommit,
       LoadCatalog, Shutdown, Crash, world
  <2>6. CASE UNCHANGED vars
    BY <2>3, <2>6 DEF vars, world
  <2> QED
    BY <2>4, <2>5, <2>6 DEF Next
<1>2. IInv /\ [Next]_vars => [Ahead]_vars
  BY <1>1
<1> QED
  BY Invariant, <1>2, PTL DEF Spec, WriteAhead

-----------------------------------------------------------------------------
(* Slots: concurrent INSERTs never share one while tables fit their regions. *)

\* Every row of the running process sits in a slot its table has counted, and
\* nothing is counted before the engine serves.
HomeInv ==
  /\ \A r \in (base + 1) .. nrows : \E t \in Tables : InRange(t, home[r])
  /\ phase # "serve" => base = nrows /\ \A t \in Tables : rowCount[t] = 0

SlotInv == HomeInv /\ SlotExclusive

\* The regions of two tables are at least tableZSpacing slots apart.
LEMMA RegionsApart ==
  ASSUME NEW t1 \in Tables, NEW t2 \in Tables, t1 < t2
  PROVE  ZStart(t1) + TableZSpacing <= ZStart(t2)
<1>1. TableZSpacing \in Nat /\ t1 - 1 \in Nat
  BY BoundsAssumption DEF Tables
<1>2. PICK d \in Nat : t2 - 1 = (t1 - 1) + 1 + d
  <2>1. t2 - 1 - t1 \in Nat /\ t2 - 1 = (t1 - 1) + 1 + (t2 - 1 - t1)
    BY DEF Tables
  <2> QED BY <2>1
<1>3. (t2 - 1) * TableZSpacing
        = (t1 - 1) * TableZSpacing + TableZSpacing + d * TableZSpacing
  BY <1>1, <1>2, Distributes
<1>4. (t1 - 1) * TableZSpacing \in Nat /\ d * TableZSpacing \in Nat
  BY <1>1, <1>2
<1> QED
  BY <1>1, <1>3, <1>4 DEF ZStart

\* Within the regions, a slot determines its table and its index.
LEMMA RowZInjective ==
  ASSUME NEW t1 \in Tables, NEW t2 \in Tables,
         NEW i1 \in 0 .. (TableZSpacing - 1), NEW i2 \in 0 .. (TableZSpacing - 1),
         RowZ(t1, i1) = RowZ(t2, i2)
  PROVE  t1 = t2 /\ i1 = i2
<1>1. ZStart(t1) \in Nat /\ ZStart(t2) \in Nat
  BY ZStartBound
<1>2. TableZSpacing \in Nat
  BY BoundsAssumption
<1>3. ~(t1 < t2)
  BY <1>1, <1>2, RegionsApart DEF RowZ
<1>4. ~(t2 < t1)
  BY <1>1, <1>2, RegionsApart DEF RowZ
<1>5. t1 = t2
  BY <1>3, <1>4 DEF Tables
<1> QED
  BY <1>1, <1>5 DEF RowZ

\* An INSERT's reservation is a slot no other row of the process has.
LEMMA SlotInsert ==
  ASSUME IInv, SlotInv, NEW p \in Sessions, NEW t \in Tables, StartInsert(p, t)
  PROVE  SlotInv'
<1> USE BoundsAssumption
<1>0. /\ rowCount \in [Tables -> 0 .. MaxRows] /\ nrows \in 0 .. MaxRows
      /\ home \in [Rows -> Zs] /\ base \in 0 .. MaxRows
  BY DEF IInv, TypeOK, EngineOK, HistoryOK
<1>1. /\ phase = "serve" /\ phase' = phase /\ base' = base /\ nrows' = nrows + 1
      /\ nrows < MaxRows
      /\ rowCount' = [rowCount EXCEPT ![t] = rowCount[t] + 1]
      /\ home' = [home EXCEPT ![nrows + 1] = RowZ(t, rowCount[t])]
  BY <1>0 DEF StartInsert, NextRowCount
<1>2. \A r \in (base + 1) .. nrows : r \in Rows /\ home'[r] = home[r]
  BY <1>0, <1>1 DEF Rows
<1>3. home'[nrows + 1] = RowZ(t, rowCount[t])
  BY <1>0, <1>1 DEF Rows
<1>4. \A u \in Tables : rowCount[u] <= rowCount'[u] /\ rowCount'[u] \in Int
                        /\ rowCount[u] \in Int
  BY <1>0, <1>1
<1>5. \A r \in (base + 1) .. nrows' : \E u \in Tables : InRange(u, home[r])'
  <2> TAKE r \in (base + 1) .. nrows'
  <2>1. CASE r = nrows + 1
    <3>1. rowCount[t] \in 0 .. (rowCount'[t] - 1)
      BY <1>0, <1>1
    <3> QED
      BY <1>3, <2>1, <3>1 DEF InRange, RowZ, ZStart
  <2>2. CASE r # nrows + 1
    <3>1. r \in (base + 1) .. nrows
      BY <1>0, <1>1, <2>2
    <3>2a. PICK u \in Tables : \E i \in 0 .. (rowCount[u] - 1) : home[r] = RowZ(u, i)
      BY <3>1 DEF SlotInv, HomeInv, InRange
    <3>2. PICK i \in 0 .. (rowCount[u] - 1) : home[r] = RowZ(u, i)
      BY <3>2a
    <3>3. i \in 0 .. (rowCount'[u] - 1)
      BY <1>4, <3>2
    <3> QED
      BY <1>2, <3>1, <3>2, <3>3 DEF InRange, RowZ, ZStart
  <2> QED
    BY <2>1, <2>2
<1>6. HomeInv'
  BY <1>1, <1>5 DEF HomeInv
<1>7. SlotExclusive'
  <2> SUFFICES ASSUME WithinRegions' PROVE NoCollision'
    BY DEF SlotExclusive
  <2>1. \A u \in Tables : rowCount[u] <= TableZSpacing
    BY <1>4 DEF WithinRegions
  <2>2. NoCollision
    BY <2>1 DEF SlotInv, SlotExclusive, WithinRegions
  <2>3. ASSUME NEW r \in (base + 1) .. nrows PROVE home[r] # RowZ(t, rowCount[t])
    <3>0. PICK u \in Tables : \E i \in 0 .. (rowCount[u] - 1) : home[r] = RowZ(u, i)
      BY <2>3 DEF SlotInv, HomeInv, InRange
    <3>1. PICK i \in 0 .. (rowCount[u] - 1) : home[r] = RowZ(u, i)
      BY <3>0
    <3>2. i \in 0 .. (TableZSpacing - 1)
      BY <1>4, <2>1, <3>1
    <3>3. rowCount'[t] = rowCount[t] + 1 /\ rowCount'[t] <= TableZSpacing
      BY <1>0, <1>1 DEF WithinRegions
    <3>4. rowCount[t] \in 0 .. (TableZSpacing - 1)
      BY <1>0, <3>3
    <3>5. ~(u = t /\ i = rowCount[t])
      BY <1>4, <3>1
    <3> QED
      BY <3>1, <3>2, <3>4, <3>5, RowZInjective
  <2>4. \A r \in (base + 1) .. (nrows + 1) : r = nrows + 1 \/ r \in (base + 1) .. nrows
    BY <1>0
  <2> QED
    BY <1>1, <1>2, <1>3, <2>2, <2>3, <2>4 DEF NoCollision
<1> QED
  BY <1>6, <1>7 DEF SlotInv

\* Every step keeps the slots of the running process apart.
LEMMA SlotStep == IInv /\ SlotInv /\ [Next]_vars => SlotInv'
<1> SUFFICES ASSUME IInv, SlotInv, [Next]_vars PROVE SlotInv'
  OBVIOUS
<1>1. CASE \E p \in Sessions, t \in Tables : StartInsert(p, t)
  BY <1>1, SlotInsert
<1>2. CASE /\ UNCHANGED <<home, base, nrows, rowCount>>
           /\ phase' = phase \/ phase' = "serve" \/ phase # "serve"
  BY <1>2 DEF SlotInv, HomeInv, InRange, RowZ, ZStart, SlotExclusive, WithinRegions,
     NoCollision
<1>3. CASE Volatile /\ nrows' = nrows
  <2>1. base' = nrows' /\ nrows' \in Int /\ rowCount' = [t \in Tables |-> 0]
    BY <1>3 DEF Volatile, IInv, TypeOK, HistoryOK
  <2>2. \A r : r \notin (base' + 1) .. nrows'
    BY <2>1
  <2> QED
    BY <2>1, <2>2 DEF SlotInv, HomeInv, SlotExclusive, NoCollision
<1>4. ASSUME NEW p \in Sessions, Start(p) \/ Step(p) \/ Scanner(p) PROVE SlotInv'
  <2>1. CASE Start(p)
    BY <1>1, <1>2, <2>1 DEF Start, StartSelect, StartDelete, StartScan, engine
  <2>2. CASE Step(p)
    BY <1>2, <2>2 DEF Step, LoadRowChunk, AllocLSN, AppendWrite, InsertWrite, XmaxWrite,
       CommitRead, CommitWrite, Recv, RecvDone, Mark, Reply, engine, history
  <2>3. CASE Scanner(p)
    BY <1>2, <2>3 DEF Scanner, ScanRead, ScanSend, ScanClose, engine, history
  <2> QED
    BY <1>4, <2>1, <2>2, <2>3
<1>5. ASSUME Restart \/ Recovery \/ Shutdown \/ Crash PROVE SlotInv'
  <2>1. CASE Restart \/ Shutdown
    BY <1>2, <2>1 DEF Restart, Shutdown, history
  <2>2. CASE Crash
    BY <1>3, <2>2 DEF Crash
  <2>3. CASE LoadCatalog
    <3>1. \A t \in Tables : rowCount[t] = 0
      BY <2>3 DEF LoadCatalog, SlotInv, HomeInv
    <3>2. rowCount \in [Tables -> 0 .. MaxRows]
      BY DEF IInv, TypeOK, EngineOK
    <3>3. [t \in Tables |-> 0] = rowCount
      BY <3>1, <3>2
    <3> QED
      BY <1>2, <1>3, <2>3, <3>3 DEF LoadCatalog, Fatal, history
  <2>4. CASE RecoverRead \/ ReplayInsert \/ ReplayUpdateXmax \/ RecoverCommit
    BY <1>2, <1>3, <2>4 DEF RecoverRead, ReplayInsert, ReplayUpdateXmax, RecoverCommit,
       Fatal, RecoverNext, ToCommit, Skip, history
  <2> QED
    BY <1>5, <2>1, <2>2, <2>3, <2>4 DEF Recovery
<1>6. CASE UNCHANGED vars
  BY <1>2, <1>6 DEF vars, engine, history
<1> QED
  BY <1>4, <1>5, <1>6 DEF Next

\* As long as every table stays within its region, no two INSERTs of a process
\* are given the same slot, whatever their tables and their interleaving.
THEOREM SlotExclusiveAlways == Spec => []SlotExclusive
<1>1. Init => SlotInv
  <2> SUFFICES ASSUME Init PROVE SlotInv
    OBVIOUS
  <2>1. base = 0 /\ nrows = 0 /\ rowCount = [t \in Tables |-> 0]
    BY DEF Init
  <2>2. \A r : r \notin (base + 1) .. nrows
    BY <2>1
  <2> QED
    BY <2>1, <2>2 DEF SlotInv, HomeInv, SlotExclusive, NoCollision
<1>2. SlotInv => SlotExclusive
  BY DEF SlotInv
<1> QED
  BY Invariant, SlotStep, <1>1, <1>2, PTL DEF Spec

-----------------------------------------------------------------------------
(* Recovery: what Recover has settled when it returns.                     *)

\* Recover has settled every lectern below the one it reads, and has not yet
\* given out an LSN beyond it; a dead process has everything before it.
RecInv ==
  /\ phase = "down" => recAt = 1 /\ nextLSN = 1
  /\ phase = "recover" =>
       /\ nextLSN <= recAt
       /\ \A l \in 1 .. (recAt - 1) : lectern[l].status = "COMMITTED" \/ l \in skipped

\* A session's step leaves recovery's state alone: the engine serves.
LEMMA RecSession ==
  ASSUME IInv, RecInv, NEW p \in Sessions, Start(p) \/ Step(p) \/ Scanner(p)
  PROVE  RecInv'
<1>1. CASE Scanner(p)
  BY <1>1 DEF Scanner, ScanRead, ScanSend, ScanClose, RecInv, world, engine, history
<1>2. CASE Start(p) \/ Step(p)
  <2>1. pc[p] # "idle" \/ phase = "serve"
    BY <1>2, ZenonT(30) DEF Start, StartInsert, StartSelect, StartDelete, StartScan, Step, LoadRowChunk,
       AllocLSN, AppendWrite, InsertWrite, XmaxWrite, CommitRead, CommitWrite, Recv,
       RecvDone, Mark, Reply
  <2>2. phase = "serve"
    BY <2>1, Serving
  <2>3. phase' = phase
    BY <1>2 DEF Start, StartInsert, StartSelect, StartDelete, StartScan, Step, LoadRowChunk,
       AllocLSN, AppendWrite, InsertWrite, XmaxWrite, CommitRead, CommitWrite, Recv,
       RecvDone, Mark, Reply, engine
  <2> QED
    BY <2>2, <2>3, ZenonT(30) DEF RecInv
<1> QED
  BY <1>1, <1>2

\* Recover extends the settled part of the log by one lectern per entry.
LEMMA RecAdvance ==
  ASSUME IInv, RecInv, phase = "recover", NEW n \in LSNs, n <= recAt + 1, RecoverNext(n),
         \A l \in LSNs \ {recAt} : lectern'[l] = lectern[l],
         lectern'[recAt].status = "COMMITTED" \/ recAt \in skipped',
         skipped \subseteq skipped'
  PROVE  RecInv'
<1>1. recAt \in LSNs /\ recAt' = recAt + 1 /\ phase' = "recover" /\ nextLSN' = n
  BY DEF IInv, TypeOK, EngineOK, RecoverNext, NextLectern
<1>2. ASSUME NEW l \in 1 .. (recAt' - 1)
      PROVE  lectern'[l].status = "COMMITTED" \/ l \in skipped'
  <2>1. CASE l = recAt
    BY <2>1
  <2>2. CASE l # recAt
    <3>1. l \in 1 .. (recAt - 1) /\ l \in LSNs \ {recAt}
      BY <1>1, <2>2, BoundsAssumption DEF LSNs
    <3> QED
      BY <3>1 DEF RecInv
  <2> QED
    BY <2>1, <2>2
<1> QED
  BY <1>1, <1>2 DEF RecInv, LSNs

\* Every step of the process keeps the settled part settled.
LEMMA RecProcess ==
  ASSUME IInv, RecInv, Restart \/ Recovery \/ Shutdown \/ Crash
  PROVE  RecInv'
<1>0. recAt \in LSNs /\ nextLSN \in LSNs /\ lectern \in [LSNs -> Books]
  BY DEF IInv, TypeOK, EngineOK, WorldOK
<1>1. CASE Volatile /\ phase' = "down"
  BY <1>1 DEF Volatile, RecInv
<1>2. CASE Shutdown \/ Crash \/ LoadCatalog
  BY <1>1, <1>2 DEF Shutdown, Crash, LoadCatalog, Fatal, RecInv
<1>3. CASE Restart
  BY <1>3 DEF Restart, RecInv
<1>4. CASE ToCommit /\ UNCHANGED lectern
  BY <1>4 DEF ToCommit, RecInv, history
<1>5. CASE RecoverRead
  <2>1. CASE /\ lectern[recAt].status = "COMMITTED"
             /\ RecoverNext(MaxOf(nextLSN, recAt + 1))
             /\ UNCHANGED skipped
    <3>1. MaxOf(nextLSN, recAt + 1) <= recAt + 1
      BY <1>0, <1>5 DEF RecoverRead, RecInv, MaxOf, LSNs
    <3>2. MaxOf(nextLSN, recAt + 1) \in LSNs
      BY <2>1, NextFree
    <3> QED
      BY <1>5, <2>1, <3>1, <3>2, RecAdvance DEF RecoverRead, world
  <2>2. CASE phase' = "catalog"
    BY <2>2 DEF RecInv
  <2>3. CASE UNCHANGED <<phase, nextLSN, recAt, history>>
    BY <1>5, <2>3 DEF RecoverRead, RecInv, world, history
  <2> QED
    BY <1>1, <1>5, <2>1, <2>2, <2>3 DEF RecoverRead, Fatal
<1>6. CASE ReplayInsert \/ ReplayUpdateXmax
  <2>1. lectern' = lectern /\ phase = "recover"
    BY <1>6 DEF ReplayInsert, ReplayUpdateXmax, world
  <2>2. CASE Skip
    <3>1. nextLSN <= recAt + 1
      BY <1>0, <2>1 DEF RecInv, LSNs
    <3> QED
      BY <1>0, <2>1, <2>2, <3>1, RecAdvance DEF Skip
  <2> QED
    BY <1>4, <1>6, <2>1, <2>2 DEF ReplayInsert, ReplayUpdateXmax
<1>7. CASE RecoverCommit
  <2>1. PICK o \in Outcomes : \E k \in Written(o, 1) :
          /\ lectern' = IF k = 1 THEN [lectern EXCEPT ![recAt].status = "COMMITTED"]
                        ELSE lectern
          /\ \/ Fatal
             \/ o = "ok" /\ RecoverNext(MaxOf(nextLSN, recAt + 1)) /\ UNCHANGED skipped
    BY <1>7 DEF RecoverCommit
  <2>2. CASE Fatal
    BY <1>1, <2>2 DEF Fatal
  <2>3. CASE o = "ok" /\ RecoverNext(MaxOf(nextLSN, recAt + 1)) /\ UNCHANGED skipped
    <3>1. Written(o, 1) = {1}
      BY <2>3 DEF Written
    <3>2. lectern' = [lectern EXCEPT ![recAt].status = "COMMITTED"]
      BY <2>1, <3>1
    <3>3. lectern'[recAt].status = "COMMITTED"
          /\ \A l \in LSNs \ {recAt} : lectern'[l] = lectern[l]
      BY <1>0, <3>2 DEF Books
    <3>4. MaxOf(nextLSN, recAt + 1) <= recAt + 1
      BY <1>0, <1>7 DEF RecoverCommit, RecInv, MaxOf, LSNs
    <3>5. MaxOf(nextLSN, recAt + 1) \in LSNs
      BY <1>7, NextFree DEF RecoverCommit, IInv, ProcInv
    <3> QED
      BY <1>7, <2>3, <3>3, <3>4, <3>5, RecAdvance DEF RecoverCommit
  <2> QED
    BY <2>1, <2>2, <2>3
<1> QED
  BY <1>2, <1>3, <1>5, <1>6, <1>7 DEF Recovery

\* When Recover returns, everything below nextLSN is settled and the lectern
\* of nextLSN is empty, however many restarts and failed replays came before.
THEOREM RecoveredPrefixAlways == Spec => RecoveredPrefix
<1> DEFINE Settled ==
      phase = "recover" /\ phase' = "catalog" =>
        /\ \A l \in 1 .. (nextLSN' - 1) : lectern[l].status = "COMMITTED" \/ l \in skipped
        /\ lectern[nextLSN'].status = "AIR"
<1>1. Init => RecInv
  BY DEF Init, RecInv
<1>2. IInv /\ RecInv /\ [Next]_vars => RecInv'
  <2> SUFFICES ASSUME IInv, RecInv, [Next]_vars PROVE RecInv'
    OBVIOUS
  <2>1. CASE UNCHANGED vars
    BY <2>1 DEF vars, world, engine, history, RecInv
  <2> QED
    BY <2>1, RecSession, RecProcess DEF Next
<1>3. ASSUME IInv, RecInv, [Next]_vars PROVE Settled
  <2> SUFFICES ASSUME phase = "recover", phase' = "catalog" PROVE Settled
    OBVIOUS
  <2>1. RecoverRead
    <3>1. ASSUME NEW p \in Sessions, Start(p) \/ Step(p) \/ Scanner(p) PROVE phase' = phase
      BY <3>1 DEF Start, StartInsert, StartSelect, StartDelete, StartScan, Step,
         LoadRowChunk, AllocLSN, AppendWrite, InsertWrite, XmaxWrite, CommitRead,
         CommitWrite, Recv, RecvDone, Mark, Reply, Scanner, ScanRead, ScanSend, ScanClose,
         engine
    <3>2. ~UNCHANGED vars
      BY DEF vars, engine
    <3> QED
      BY <1>3, <3>1, <3>2 DEF Next, Restart, Shutdown, Crash, Recovery, ReplayInsert,
         ReplayUpdateXmax, RecoverCommit, LoadCatalog, Fatal, ToCommit, Skip, RecoverNext
  <2>2. lectern[recAt].status = "AIR" /\ nextLSN' = MaxOf(nextLSN, recAt)
    BY <2>1 DEF RecoverRead, Fatal, RecoverNext, AtEnd
  <2>3. nextLSN' = recAt
    BY <1>3, <2>2 DEF MaxOf, RecInv, IInv, TypeOK, EngineOK, LSNs
  <2> QED
    BY <1>3, <2>2, <2>3 DEF RecInv
<1>4. IInv /\ RecInv /\ [Next]_vars => [Settled]_vars
  BY <1>3
<1> QED
  BY Invariant, <1>1, <1>2, <1>4, PTL DEF Spec, RecoveredPrefix

=============================================================================
