--------------------------- MODULE RowScanProofs ----------------------------
(***************************************************************************)
(* Proof that a SELECT reports exactly what it should, whatever INSERTs    *)
(* and DELETEs run beside it: no acknowledged row is missed, no deleted    *)
(* row is reported, and no row is reported twice.                          *)
(***************************************************************************)
EXTENDS RowTableProofs

\* The slots that p's scan has passed.
Passed(p, z) == \E j \in 0 .. (scan[p].at - 1) : z = RowZ(tab[p], j)

\* The slots that p's scan has yet to read.
Ahead(p, z) == \E j \in scan[p].at .. (scan[p].n - 1) : z = RowZ(tab[p], j)

\* Row r is on its way to the client, or there.
Seen(p, r) == r \in Reported(p) \/ \E x \in Items : Found(p, x) /\ x.kind = "row" /\ x.row = r

\* The turns of the scanner and of the loop that consumes its channel.
LoopInv ==
  \A p \in Sessions :
    /\ op[p] \in {"NONE", "INSERT"} =>
         chan[p] = <<>> /\ got[p] = <<>> /\ scan[p] = NoScan
    /\ scan[p].at <= scan[p].n
    /\ ~scan[p].on => scan[p].held = NoItem /\ (scan[p].at = scan[p].n \/ ctxDone)
    /\ op[p] = "SELECT" => pc[p] \in {"recv", "ok", "err"}
    /\ op[p] = "SELECT" /\ pc[p] = "ok" => chan[p] = <<>> /\ ~scan[p].on

\* Rows on their way were read in slots that the scan has passed.
SeenInv ==
  \A p \in Sessions : op[p] = "SELECT" =>
    /\ \A x \in Items : Found(p, x) /\ x.kind = "row" => Passed(p, x.pos)
    /\ \A i \in 1 .. Len(got[p]) : got[p][i] # 0 =>
         got[p][i] <= nrows /\ Passed(p, home[got[p][i]])

\* No row is twice on its way.
OnceInv ==
  \A p \in Sessions : op[p] = "SELECT" =>
    /\ \A i, j \in 1 .. Len(got[p]) : i # j /\ got[p][i] # 0 => got[p][i] # got[p][j]
    /\ \A i, j \in 1 .. Len(chan[p]) :
         i # j /\ chan[p][i].kind = "row" /\ chan[p][j].kind = "row" /\ chan[p][i].row # 0 =>
           chan[p][i].row # chan[p][j].row
    /\ \A i \in 1 .. Len(chan[p]) :
         chan[p][i].kind = "row" /\ scan[p].held.kind = "row" /\ chan[p][i].row # 0 =>
           chan[p][i].row # scan[p].held.row
    /\ \A i \in 1 .. Len(got[p]), x \in Items :
         Found(p, x) /\ x.kind = "row" /\ got[p][i] # 0 => got[p][i] # x.row

\* No row that the scan has to report is lost.
MustInv ==
  \A p \in Sessions : op[p] = "SELECT" =>
    /\ must[p] \subseteq acked \cap where[p]
    /\ FirstInWorld /\ WithinRegions =>
         \A r \in must[p] \ marked :
           \/ Seen(p, r)
           \/ Ahead(p, home[r])
           \/ \E x \in Items : Found(p, x) /\ x.kind = "err"
           \/ pc[p] = "err"

\* No row that was deleted before is on its way, where markers last.
MustNotInv ==
  \A p \in Sessions : op[p] = "SELECT" =>
    /\ mustNot[p] \subseteq deleted
    /\ \A r \in mustNot[p] \ {0} : Seen(p, r) => ~MarkerLasts(r)

ScanInv == LoopInv /\ SeenInv /\ OnceInv /\ MustInv /\ MustNotInv


-----------------------------------------------------------------------------
(* How a scan moves.                                                       *)

\* The types that the proofs below use.
LEMMA ScanFacts ==
  ASSUME IInv
  PROVE  /\ scan \in [Sessions -> Scans] /\ chan \in [Sessions -> Seq(Items)]
         /\ got \in [Sessions -> Seq(0 .. MaxRows)]
         /\ where \in [Sessions -> SUBSET (0 .. MaxRows)]
         /\ must \in [Sessions -> SUBSET (0 .. MaxRows)]
         /\ mustNot \in [Sessions -> SUBSET (0 .. MaxRows)]
         /\ ctxDone \in BOOLEAN
BY DEF IInv, TypeOK, ScanOK, SessionOK, HistoryOK

\* What belongs to the statement of session q.
Untouched(q) ==
  /\ got'[q] = got[q] /\ chan'[q] = chan[q] /\ scan'[q] = scan[q] /\ tab'[q] = tab[q]
  /\ where'[q] = where[q] /\ must'[q] = must[q] /\ mustNot'[q] = mustNot[q]

\* A session's step leaves the statements of the others alone.
LEMMA ScanOthers ==
  ASSUME IInv, NEW p \in Sessions, Start(p) \/ Step(p) \/ Scanner(p),
         NEW q \in Sessions, q # p
  PROVE  Untouched(q) /\ op'[q] = op[q] /\ pc'[q] = pc[q]
<1>0. /\ got \in [Sessions -> Seq(0 .. MaxRows)] /\ tab \in [Sessions -> Tables]
      /\ where \in [Sessions -> SUBSET (0 .. MaxRows)]
      /\ must \in [Sessions -> SUBSET (0 .. MaxRows)]
      /\ mustNot \in [Sessions -> SUBSET (0 .. MaxRows)]
  BY Facts, ScanFacts
<1>1. chan'[q] = chan[q] /\ scan'[q] = scan[q] /\ op'[q] = op[q] /\ pc'[q] = pc[q]
  BY Others
<1> DEFINE Rest == /\ got'[q] = got[q] /\ tab'[q] = tab[q] /\ where'[q] = where[q]
                   /\ must'[q] = must[q] /\ mustNot'[q] = mustNot[q]
<1>2. ASSUME NEW t \in Tables, StartInsert(p, t) PROVE Rest
  BY <1>0, <1>2 DEF StartInsert
<1>3. ASSUME NEW t \in Tables, NEW w \in Wheres, NEW k, StartScan(p, t, w, k) PROVE Rest
  BY <1>0, <1>3 DEF StartScan
<1>4. ASSUME LoadRowChunk(p) \/ AllocLSN(p) \/ AppendWrite(p) \/ InsertWrite(p)
             \/ XmaxWrite(p) \/ CommitRead(p) \/ CommitWrite(p) \/ RecvDone(p) \/ Mark(p)
      PROVE  Rest
  BY <1>4 DEF LoadRowChunk, AllocLSN, AppendWrite, InsertWrite, XmaxWrite, CommitRead,
     CommitWrite, RecvDone, Mark, locals, history
<1>5. ASSUME Recv(p) \/ Reply(p) PROVE Rest
  BY <1>0, <1>5 DEF Recv, Arrived, Reply, history
<1>6. ASSUME Scanner(p) PROVE Rest
  BY <1>6 DEF Scanner, ScanRead, ScanSend, ScanClose, locals, history
<1> QED
  BY <1>1, <1>2, <1>3, <1>4, <1>5, <1>6
  DEF Start, StartSelect, StartDelete, Step, Untouched

\* The process leaves the statements alone or ends them all.
LEMMA ScanProcess ==
  ASSUME Restart \/ Recovery \/ Shutdown \/ Crash \/ UNCHANGED vars
  PROVE  \/ UNCHANGED <<pc, locals, scans, must, mustNot>>
         \/ Volatile
BY DEF Restart, Recovery, RecoverRead, ReplayInsert, ReplayUpdateXmax, RecoverCommit,
   LoadCatalog, Shutdown, Crash, Fatal, RecoverNext, ToCommit, Skip, vars, history

\* What may happen to a SELECT in progress.
LEMMA SelectMoves ==
  ASSUME GInv, LoopInv, [Next]_vars, NEW q \in Sessions, op'[q] = "SELECT"
  PROVE  \/ \E t \in Tables, w \in Wheres : StartSelect(q, t, w)
         \/ /\ op[q] = "SELECT"
            /\ \/ ScanRead(q) \/ ScanSend(q) \/ ScanClose(q) \/ Recv(q)
               \/ Untouched(q) /\ (pc'[q] = pc[q] \/ RecvDone(q))
<1>0. /\ op \in [Sessions -> {"NONE", "INSERT", "SELECT", "DELETE"}]
      /\ op[q] = "SELECT" => pc[q] \in {"recv", "ok", "err"}
  BY Facts DEF GInv, LoopInv
<1> DEFINE Goal ==
      /\ op[q] = "SELECT"
      /\ \/ ScanRead(q) \/ ScanSend(q) \/ ScanClose(q) \/ Recv(q)
         \/ Untouched(q) /\ (pc'[q] = pc[q] \/ RecvDone(q))
<1>1. ASSUME NEW p \in Sessions, Start(p) \/ Step(p) \/ Scanner(p), p # q PROVE Goal
  BY <1>1, ScanOthers DEF GInv
<1>2. ASSUME Start(q) PROVE \E t \in Tables, w \in Wheres : StartSelect(q, t, w)
  <2>1. ASSUME NEW t \in Tables, StartInsert(q, t) PROVE FALSE
    BY <1>0, <2>1 DEF StartInsert
  <2>2. ASSUME NEW t \in Tables, NEW w \in Wheres, StartDelete(q, t, w) PROVE FALSE
    BY <1>0, <2>2 DEF StartDelete, StartScan
  <2> QED
    BY <1>2, <2>1, <2>2 DEF Start
<1>3. ASSUME LoadRowChunk(q) \/ AllocLSN(q) \/ AppendWrite(q) \/ InsertWrite(q)
             \/ XmaxWrite(q) \/ CommitRead(q) \/ CommitWrite(q) \/ Mark(q) PROVE FALSE
  BY <1>0, <1>3 DEF LoadRowChunk, AllocLSN, AppendWrite, InsertWrite, XmaxWrite,
     CommitRead, CommitWrite, Mark, locals
<1>4. ASSUME Reply(q) PROVE FALSE
  BY <1>0, <1>4 DEF Reply
<1>5. ASSUME Recv(q) PROVE Goal
  BY <1>5 DEF Recv, Arrived
<1>6. ASSUME RecvDone(q) PROVE Goal
  BY <1>6 DEF RecvDone, Untouched, locals, scans, history
<1>7. ASSUME Scanner(q) PROVE Goal
  BY <1>7 DEF Scanner, ScanRead, ScanSend, ScanClose, locals
<1>8. ASSUME Restart \/ Recovery \/ Shutdown \/ Crash \/ UNCHANGED vars PROVE Goal
  <2>1. ~Volatile
    BY DEF Volatile
  <2> QED
    BY <1>8, <2>1, ScanProcess DEF Untouched, locals, scans
<1> QED
  BY <1>1, <1>2, <1>3, <1>4, <1>5, <1>6, <1>7, <1>8 DEF Next, Step

\* A cancelled context stays cancelled while statements run.
LEMMA CtxKept ==
  ASSUME [Next]_vars, ctxDone \in BOOLEAN, ctxDone, ~Volatile
  PROVE  ctxDone'
<1>1. ASSUME NEW p \in Sessions, Start(p) \/ Step(p) \/ Scanner(p) PROVE ctxDone'
  BY <1>1 DEF Start, StartInsert, StartSelect, StartDelete, StartScan, Step, LoadRowChunk,
     AllocLSN, AppendWrite, InsertWrite, XmaxWrite, CommitRead, CommitWrite, Recv,
     RecvDone, Mark, Reply, Scanner, ScanRead, ScanSend, ScanClose, engine
<1>2. ASSUME Restart \/ Recovery \/ Shutdown \/ Crash PROVE ctxDone'
  BY <1>2 DEF Restart, Recovery, RecoverRead, ReplayInsert, ReplayUpdateXmax,
     RecoverCommit, LoadCatalog, Shutdown, Crash, Fatal, RecoverNext, ToCommit, Skip
<1> QED
  BY <1>1, <1>2 DEF Next, vars, engine

\* The outcomes of one turn of the scanner.
LEMMA ReadEffect ==
  ASSUME IInv, NEW q \in Sessions, ScanRead(q), NEW z, z = RowZ(tab[q], scan[q].at)
  PROVE  /\ scan'[q].on = scan[q].on /\ scan'[q].n = scan[q].n /\ chan' = chan
         /\ scan[q].held = NoItem /\ scan[q].at < scan[q].n /\ z \in Zs
         /\ \/ scan'[q].held = ErrItem /\ scan'[q].at = scan[q].n
            \/ /\ scan'[q].at = scan[q].at + 1
               /\ \/ isVisible(strip[z], Txid) /\ scan'[q].held = RowItem(z, strip[z])
                  \/ ~isVisible(strip[z], Txid) /\ scan'[q].held = NoItem
<1>0. scan \in [Sessions -> Scans] /\ tab[q] \in Tables
  BY Facts
<1>1. scan[q] \in Scans
  BY <1>0
<1>2. scan[q].at \in 0 .. MaxRows
  BY <1>1 DEF Scans
<1>3. z \in Zs
  BY <1>0, <1>2, RowZType
<1>4. PICK o \in Outcomes :
        scan' = [scan EXCEPT
              ![q].at = IF o = "ok" THEN @ + 1 ELSE scan[q].n,
              ![q].held =
                CASE o # "ok" -> ErrItem
                  [] o = "ok" /\ isVisible(strip[z], Txid) -> RowItem(z, strip[z])
                  [] OTHER -> NoItem]
  BY DEF ScanRead
<1>5. /\ scan'[q].on = scan[q].on /\ scan'[q].n = scan[q].n
      /\ scan'[q].at = IF o = "ok" THEN scan[q].at + 1 ELSE scan[q].n
      /\ scan'[q].held =
                CASE o # "ok" -> ErrItem
                  [] o = "ok" /\ isVisible(strip[z], Txid) -> RowItem(z, strip[z])
                  [] OTHER -> NoItem
  BY <1>0, <1>1, <1>4 DEF Scans
<1>6. chan' = chan /\ scan[q].held = NoItem /\ scan[q].at < scan[q].n
  BY DEF ScanRead
<1> QED
  BY <1>3, <1>5, <1>6

\* The loop and the scanner keep in step.
LEMMA LoopStep == GInv /\ LoopInv /\ [Next]_vars => LoopInv'
<1> SUFFICES ASSUME GInv, LoopInv, [Next]_vars PROVE LoopInv'
  OBVIOUS
<1> USE DEF GInv
<1>0. /\ scan \in [Sessions -> Scans] /\ chan \in [Sessions -> Seq(Items)]
      /\ got \in [Sessions -> Seq(0 .. MaxRows)] /\ ctxDone \in BOOLEAN
      /\ op \in [Sessions -> {"NONE", "INSERT", "SELECT", "DELETE"}]
      /\ pc \in [Sessions -> Pcs] /\ OpInv /\ rowCount \in [Tables -> 0 .. MaxRows]
  BY Facts, ScanFacts DEF TableInv
<1> DEFINE Fits(q) ==
      /\ op[q] \in {"NONE", "INSERT"} =>
           chan[q] = <<>> /\ got[q] = <<>> /\ scan[q] = NoScan
      /\ scan[q].at <= scan[q].n
      /\ ~scan[q].on => scan[q].held = NoItem /\ (scan[q].at = scan[q].n \/ ctxDone)
      /\ op[q] = "SELECT" => pc[q] \in {"recv", "ok", "err"}
      /\ op[q] = "SELECT" /\ pc[q] = "ok" => chan[q] = <<>> /\ ~scan[q].on
<1>1. ASSUME NEW q \in Sessions PROVE Fits(q)'
  <2>0. Fits(q) /\ scan[q] \in Scans
    BY <1>0 DEF LoopInv
  <2>a. ASSUME ~Volatile PROVE ctxDone => ctxDone'
    BY <1>0, <2>a, CtxKept
  <2>b. CASE Volatile
    BY <2>b DEF Volatile, NoScan, NoItem
  <2>1. CASE /\ ~Volatile /\ chan'[q] = chan[q] /\ got'[q] = got[q] /\ scan'[q] = scan[q]
             /\ op'[q] = op[q] /\ pc'[q] = pc[q]
    BY <2>0, <2>a, <2>1
  <2>2. ASSUME ~Volatile, NEW p \in Sessions, Start(p) \/ Step(p) \/ Scanner(p), p # q
        PROVE  Fits(q)'
    BY <2>1, <2>2, ScanOthers DEF Untouched
  <2>3. ASSUME ~Volatile, Start(q) PROVE Fits(q)'
    <3>1. ASSUME NEW t \in Tables, StartInsert(q, t) PROVE Fits(q)'
      <4>1. /\ op'[q] = "INSERT" /\ op[q] = "NONE" /\ chan' = chan /\ got' = got
            /\ scan' = scan /\ ctxDone' = ctxDone
        BY <1>0, <3>1 DEF StartInsert, scans, OpInv
      <4> QED
        BY <2>0, <4>1
    <3>2. ASSUME NEW t \in Tables, NEW w \in Wheres, NEW k \in {"SELECT", "DELETE"},
                 StartScan(q, t, w, k) PROVE Fits(q)'
      <4>1. /\ op'[q] = k /\ pc'[q] = "recv"
            /\ scan'[q] = [on |-> TRUE, n |-> rowCount[t], at |-> 0, held |-> NoItem]
        BY <1>0, <3>2 DEF StartScan, Goto, ScanLength
      <4>2. rowCount[t] \in Nat
        BY <1>0
      <4> QED
        BY <4>1, <4>2
    <3> QED
      BY <2>3, <3>1, <3>2 DEF Start, StartSelect, StartDelete
  <2>4. ASSUME ~Volatile, Step(q) PROVE Fits(q)'
    <3>1. CASE LoadRowChunk(q) \/ AllocLSN(q) \/ AppendWrite(q) \/ InsertWrite(q)
               \/ XmaxWrite(q) \/ CommitRead(q) \/ CommitWrite(q) \/ Mark(q)
      <4>1. /\ chan' = chan /\ got' = got /\ scan' = scan /\ ctxDone' = ctxDone
            /\ op' = op /\ op[q] # "SELECT"
        BY <1>0, <3>1 DEF LoadRowChunk, AllocLSN, AppendWrite, InsertWrite, XmaxWrite,
           CommitRead, CommitWrite, Mark, locals, scans, engine, OpInv
      <4> QED
        BY <2>0, <4>1
    <3>2. CASE Recv(q)
      <4>1. /\ op' = op /\ op[q] \in {"SELECT", "DELETE"} /\ scan' = scan
            /\ ctxDone' = ctxDone
            /\ op[q] = "SELECT" => pc'[q] \in {"recv", "err"}
        BY <1>0, <3>2 DEF Recv, Arrived, Goto, engine, OpInv
      <4> QED
        BY <2>0, <4>1
    <3>3. CASE RecvDone(q)
      <4>1. /\ op' = op /\ chan' = chan /\ got' = got /\ scan' = scan /\ pc'[q] = "ok"
            /\ ctxDone' = ctxDone /\ chan[q] = <<>> /\ ~scan[q].on
        BY <1>0, <3>3 DEF RecvDone, Goto, locals, scans, engine
      <4> QED
        BY <2>0, <4>1
    <3>4. CASE Reply(q)
      <4>1. op'[q] = "NONE" /\ chan'[q] = <<>> /\ got'[q] = <<>> /\ scan'[q] = NoScan
        BY <1>0, <3>4 DEF Reply
      <4> QED
        BY <4>1 DEF NoScan
    <3> QED
      BY <2>4, <3>1, <3>2, <3>3, <3>4 DEF Step
  <2>5. ASSUME ~Volatile, ScanRead(q) PROVE Fits(q)'
    <3>1. /\ scan'[q].on = scan[q].on /\ scan'[q].n = scan[q].n /\ chan' = chan
          /\ scan'[q].at = scan[q].n \/ scan'[q].at = scan[q].at + 1
          /\ scan[q].at < scan[q].n
      BY <2>5, ReadEffect
    <3>2. scan[q].on /\ op' = op /\ pc' = pc /\ got' = got
      BY <2>5 DEF ScanRead, locals
    <3>3. op[q] \notin {"NONE", "INSERT"}
      BY <2>0, <3>2 DEF NoScan
    <3>4. scan[q].at \in Int /\ scan[q].n \in Int
      BY <2>0 DEF Scans
    <3> QED
      BY <2>0, <3>1, <3>2, <3>3, <3>4
  <2>6. ASSUME ~Volatile, ScanSend(q) PROVE Fits(q)'
    <3>1. /\ scan'[q].on = scan[q].on /\ scan'[q].n = scan[q].n
          /\ scan'[q].at = scan[q].at /\ scan[q].held # NoItem
      BY <1>0, <2>0, <2>6 DEF ScanSend, Scans
    <3>2. scan[q].on /\ op' = op /\ pc' = pc /\ got' = got
      BY <2>0, <2>6 DEF ScanSend, locals
    <3>3. op[q] \notin {"NONE", "INSERT"}
      BY <2>0, <3>2 DEF NoScan
    <3> QED
      BY <2>0, <3>1, <3>2, <3>3
  <2>7. ASSUME ~Volatile, ScanClose(q) PROVE Fits(q)'
    <3>1. /\ ~scan'[q].on /\ scan'[q].n = scan[q].n /\ scan'[q].at = scan[q].at
          /\ scan'[q].held = scan[q].held
      BY <1>0, <2>0, <2>7 DEF ScanClose, Scans
    <3>2. /\ scan[q].on /\ op' = op /\ pc' = pc /\ got' = got /\ chan' = chan
          /\ scan[q].held = NoItem /\ (scan[q].at = scan[q].n \/ ctxDone)
      BY <2>7 DEF ScanClose, locals, LoopOver
    <3>3. op[q] \notin {"NONE", "INSERT"}
      BY <2>0, <3>2 DEF NoScan
    <3> QED
      BY <2>0, <2>7, <2>a, <3>1, <3>2, <3>3
  <2>8. ASSUME ~Volatile, Restart \/ Recovery \/ Shutdown \/ Crash \/ UNCHANGED vars
        PROVE  Fits(q)'
    BY <2>1, <2>8, ScanProcess DEF locals, scans
  <2> QED
    BY <2>b, <2>2, <2>3, <2>4, <2>5, <2>6, <2>7, <2>8 DEF Next, Scanner
<1> QED
  BY <1>1 DEF LoopInv


-----------------------------------------------------------------------------
(* What is on its way.                                                     *)

\* Slots of a table are numbered one after the other.
LEMMA RowZStep ==
  ASSUME NEW t \in Tables, NEW i \in Int, NEW j \in Int, RowZ(t, i) = RowZ(t, j)
  PROVE  i = j
<1>1. ZStart(t) \in Int
  BY ZStartBound
<1> QED
  BY <1>1 DEF RowZ

\* A SELECT starts with nothing on its way.
LEMMA SelectStart ==
  ASSUME GInv, LoopInv, NEW q \in Sessions, NEW t \in Tables, NEW w \in Wheres,
         StartSelect(q, t, w)
  PROVE  /\ got'[q] = <<>> /\ chan'[q] = <<>> /\ tab'[q] = t /\ where'[q] = w
         /\ scan'[q].held = NoItem /\ scan'[q].at = 0 /\ scan'[q].n = rowCount[t]
         /\ mustNot'[q] = deleted
         /\ UNCHANGED <<acked, marked, deleted, home>> /\ op[q] = "NONE"
<1>0. /\ scan \in [Sessions -> Scans] /\ tab \in [Sessions -> Tables]
      /\ where \in [Sessions -> SUBSET (0 .. MaxRows)]
      /\ mustNot \in [Sessions -> SUBSET (0 .. MaxRows)]
  BY Facts, ScanFacts DEF GInv
<1>1. op[q] = "NONE"
  BY DEF StartSelect, StartScan, GInv, TableInv, OpInv
<1>2. got'[q] = <<>> /\ chan'[q] = <<>>
  BY <1>1 DEF StartSelect, StartScan, LoopInv
<1>3. scan'[q] = [on |-> TRUE, n |-> rowCount[t], at |-> 0, held |-> NoItem]
  BY <1>0 DEF StartSelect, StartScan, ScanLength
<1> QED
  BY <1>0, <1>1, <1>2, <1>3 DEF StartSelect, StartScan

\* The rows that a SELECT has to report are those its scan will read.
LEMMA SelectMust ==
  ASSUME IInv, NEW q \in Sessions, NEW t \in Tables, NEW w \in Wheres,
         StartSelect(q, t, w), NEW r \in must'[q]
  PROVE  r \in acked /\ r \in w /\ InRange(t, home[r])
<1>0. must \in [Sessions -> SUBSET (0 .. MaxRows)]
  BY ScanFacts
<1>1. must'[q] = {n \in (acked \ marked) \cap w : n > base /\ InRange(t, home[n])}
  BY <1>0 DEF StartSelect, StartScan
<1> QED
  BY <1>1

\* Nothing of a SELECT is found that is not on its channel or in its scanner.
LEMMA NothingFound ==
  ASSUME NEW q \in Sessions, NEW x, chan'[q] = <<>>, scan'[q].held = NoItem, Found(q, x)'
  PROVE  x = NoItem
BY DEF Found

\* What one step does to the items and the result of a SELECT in progress.
LEMMA FoundMoves ==
  ASSUME GInv, LoopInv, [Next]_vars, NEW q \in Sessions, op[q] = "SELECT",
         op'[q] = "SELECT"
  PROVE  /\ tab'[q] = tab[q] /\ where'[q] = where[q] /\ must'[q] = must[q]
         /\ mustNot'[q] = mustNot[q] /\ scan'[q].n = scan[q].n
         /\ \/ ScanRead(q) /\ got'[q] = got[q] /\ chan'[q] = chan[q]
            \/ /\ ScanSend(q) /\ got'[q] = got[q] /\ chan'[q] = Append(chan[q], scan[q].held)
               /\ scan'[q].held = NoItem /\ scan'[q].at = scan[q].at
            \/ /\ Recv(q) /\ scan'[q] = scan[q] /\ chan'[q] = Tail(chan[q]) /\ chan[q] # <<>>
               /\ pc'[q] = "err" <=> Head(chan[q]).kind = "err"
               /\ got'[q] = IF Head(chan[q]).kind = "row" /\ Head(chan[q]).row \in where[q]
                            THEN Append(got[q], Head(chan[q]).row) ELSE got[q]
            \/ /\ got'[q] = got[q] /\ chan'[q] = chan[q]
               /\ scan'[q].held = scan[q].held /\ scan'[q].at = scan[q].at
         /\ pc[q] = "err" => pc'[q] = "err"
<1>0. /\ scan \in [Sessions -> Scans] /\ tab \in [Sessions -> Tables]
      /\ chan \in [Sessions -> Seq(Items)] /\ pc \in [Sessions -> Pcs]
      /\ got \in [Sessions -> Seq(0 .. MaxRows)]
  BY Facts, ScanFacts DEF GInv
<1>1. scan[q] \in Scans
  BY <1>0
<1>2. ASSUME NEW t \in Tables, NEW w \in Wheres, StartSelect(q, t, w) PROVE FALSE
  BY <1>2, SelectStart
<1>3. CASE ScanRead(q)
  <2>1. scan'[q].n = scan[q].n
    BY <1>3, ReadEffect DEF GInv
  <2> QED
    BY <1>3, <2>1 DEF ScanRead, locals, history
<1>4. CASE ScanSend(q)
  BY <1>0, <1>1, <1>4 DEF ScanSend, locals, history, Scans
<1>5. CASE ScanClose(q)
  BY <1>0, <1>1, <1>5 DEF ScanClose, locals, history, Scans
<1>6. CASE Recv(q)
  <2>1. /\ tab' = tab /\ where' = where /\ must' = must /\ mustNot' = mustNot
        /\ scan' = scan /\ pc[q] = "recv" /\ chan[q] # <<>>
    BY <1>6 DEF Recv, Arrived, history
  <2>2. chan'[q] = Tail(chan[q])
    BY <1>0, <1>6 DEF Recv, Arrived
  <2>3. pc'[q] = "err" <=> Head(chan[q]).kind = "err"
    BY <1>0, <1>6 DEF Recv, Arrived, Goto
  <2>4. got'[q] = IF Head(chan[q]).kind = "row" /\ Head(chan[q]).row \in where[q]
                  THEN Append(got[q], Head(chan[q]).row) ELSE got[q]
    BY <1>0, <1>6 DEF Recv, Arrived
  <2> QED
    BY <1>6, <2>1, <2>2, <2>3, <2>4
<1>7. CASE Untouched(q) /\ (pc'[q] = pc[q] \/ RecvDone(q))
  BY <1>7 DEF Untouched, RecvDone
<1> QED
  BY <1>2, <1>3, <1>4, <1>5, <1>6, <1>7, SelectMoves

\* Items appear by a read and disappear by a receive.
LEMMA FoundKept ==
  ASSUME GInv, LoopInv, [Next]_vars, NEW q \in Sessions, op[q] = "SELECT",
         op'[q] = "SELECT", NEW x \in Items, x # NoItem
  PROVE  /\ Found(q, x)' => Found(q, x) \/ (ScanRead(q) /\ x = scan'[q].held)
         /\ Found(q, x) => Found(q, x)' \/ (Recv(q) /\ x = Head(chan[q]))
<1>0. chan[q] \in Seq(Items) /\ scan[q].held \in Items
  BY Facts DEF GInv, Scans
<1>1. CASE ScanRead(q) /\ chan'[q] = chan[q]
  <2>1. scan[q].held = NoItem
    BY <1>1 DEF ScanRead
  <2> QED
    BY <1>1, <2>1 DEF Found
<1>2. CASE chan'[q] = Append(chan[q], scan[q].held) /\ scan'[q].held = NoItem
  <2>1. /\ Len(chan'[q]) = Len(chan[q]) + 1 /\ Len(chan[q]) \in Nat
        /\ \A i \in 1 .. Len(chan[q]) : chan'[q][i] = chan[q][i]
        /\ chan'[q][Len(chan[q]) + 1] = scan[q].held
    BY <1>0, <1>2
  <2>2. Found(q, x)' => Found(q, x)
    <3> SUFFICES ASSUME NEW i \in 1 .. Len(chan'[q]), x = chan'[q][i] PROVE Found(q, x)
      BY <1>2 DEF Found
    <3>1. CASE i = Len(chan[q]) + 1
      BY <2>1, <3>1 DEF Found
    <3>2. CASE i # Len(chan[q]) + 1
      <4>1. i \in 1 .. Len(chan[q])
        BY <2>1, <3>2
      <4> QED
        BY <2>1, <4>1 DEF Found
    <3> QED
      BY <3>1, <3>2
  <2>3. Found(q, x) => Found(q, x)'
    <3>1. CASE x = scan[q].held
      <4>1. Len(chan[q]) + 1 \in 1 .. Len(chan'[q])
        BY <2>1
      <4> QED
        BY <2>1, <3>1, <4>1 DEF Found
    <3>2. ASSUME NEW i \in 1 .. Len(chan[q]), x = chan[q][i] PROVE Found(q, x)'
      <4>1. i \in 1 .. Len(chan'[q])
        BY <2>1
      <4> QED
        BY <2>1, <3>2, <4>1 DEF Found
    <3> QED
      BY <3>1, <3>2 DEF Found
  <2> QED
    BY <2>2, <2>3
<1>3. CASE Recv(q) /\ scan'[q] = scan[q] /\ chan'[q] = Tail(chan[q]) /\ chan[q] # <<>>
  <2>1. /\ Len(chan'[q]) = Len(chan[q]) - 1 /\ Len(chan[q]) \in Nat \ {0}
        /\ \A i \in 1 .. Len(chan'[q]) : chan'[q][i] = chan[q][i + 1]
        /\ Head(chan[q]) = chan[q][1]
    BY <1>0, <1>3
  <2>2. ASSUME NEW i \in 1 .. Len(chan'[q]), x = chan'[q][i] PROVE Found(q, x)
    <3>1. i + 1 \in 1 .. Len(chan[q])
      BY <2>1
    <3> QED
      BY <2>1, <2>2, <3>1 DEF Found
  <2>3. ASSUME NEW i \in 1 .. Len(chan[q]), x = chan[q][i]
        PROVE  Found(q, x)' \/ x = Head(chan[q])
    <3>1. CASE i = 1
      BY <2>1, <2>3, <3>1
    <3>2. CASE i # 1
      <4>1. i - 1 \in 1 .. Len(chan'[q]) /\ (i - 1) + 1 = i
        BY <2>1, <3>2
      <4>2. chan'[q][i - 1] = x
        BY <2>1, <2>3, <4>1
      <4> QED
        BY <4>1, <4>2 DEF Found
    <3> QED
      BY <3>1, <3>2
  <2> QED
    BY <1>3, <2>2, <2>3 DEF Found
<1>4. CASE chan'[q] = chan[q] /\ scan'[q].held = scan[q].held
  BY <1>4 DEF Found
<1> QED
  BY <1>1, <1>2, <1>3, <1>4, FoundMoves

\* The slots passed stay passed, and grow by the one that is read.
LEMMA PassedKept ==
  ASSUME GInv, LoopInv, [Next]_vars, NEW q \in Sessions, op[q] = "SELECT",
         op'[q] = "SELECT"
  PROVE  /\ \A z : Passed(q, z) => Passed(q, z)'
         /\ ScanRead(q) /\ scan'[q].held.kind = "row" =>
              \A z : z = RowZ(tab[q], scan[q].at) => Passed(q, z)' /\ ~Passed(q, z)
<1>0. scan[q] \in Scans /\ tab[q] \in Tables /\ MaxRows \in Nat
  BY Facts DEF GInv
<1>1. scan[q].at \in 0 .. MaxRows /\ scan[q].n \in 0 .. MaxRows
  BY <1>0 DEF Scans
<1>2. tab'[q] = tab[q] /\ (scan'[q].at = scan[q].at \/ ScanRead(q))
  BY FoundMoves
<1>3. ASSUME ScanRead(q)
      PROVE  /\ scan[q].at < scan[q].n
             /\ scan'[q].at = scan[q].n \/ scan'[q].at = scan[q].at + 1
             /\ scan'[q].held.kind = "row" => scan'[q].at = scan[q].at + 1
  BY <1>3, ReadEffect DEF GInv, ErrItem
<1>4. scan'[q].at \in Int /\ scan'[q].at >= scan[q].at
  BY <1>1, <1>2, <1>3
<1>5. \A z : Passed(q, z) => Passed(q, z)'
  BY <1>1, <1>2, <1>4 DEF Passed
<1>6. ASSUME ScanRead(q), scan'[q].held.kind = "row", NEW z, z = RowZ(tab[q], scan[q].at)
      PROVE  Passed(q, z)' /\ ~Passed(q, z)
  <2>1. scan[q].at \in 0 .. (scan'[q].at - 1)
    BY <1>1, <1>3, <1>6
  <2>2. Passed(q, z)'
    BY <1>2, <1>6, <2>1 DEF Passed
  <2>3. ASSUME NEW j \in 0 .. (scan[q].at - 1), z = RowZ(tab[q], j) PROVE FALSE
    <3>0. j \in Int /\ scan[q].at \in Int /\ RowZ(tab[q], j) = RowZ(tab[q], scan[q].at)
      BY <1>1, <1>6, <2>3
    <3>1. j = scan[q].at
      BY <1>0, <3>0, RowZStep
    <3> QED
      BY <1>1, <3>1
  <2> QED
    BY <2>2, <2>3 DEF Passed
<1> QED
  BY <1>5, <1>6

\* A row that a turn of the scanner finds is the one in its slot.
LEMMA ReadRow ==
  ASSUME GInv, NEW q \in Sessions, ScanRead(q), scan'[q].held.kind = "row",
         NEW x, x = scan'[q].held
  PROVE  /\ x.pos = RowZ(tab[q], scan[q].at) /\ x.pos \in Zs
         /\ x.row = strip[x.pos].cols /\ isVisible(strip[x.pos], Txid)
         /\ x.row # 0 => home[x.row] = x.pos /\ x.row <= nrows
<1>1. PICK z : z = RowZ(tab[q], scan[q].at)
  OBVIOUS
<1>2. x = RowItem(z, strip[z]) /\ isVisible(strip[z], Txid) /\ z \in Zs
  BY <1>1, ReadEffect DEF GInv, ErrItem, NoItem
<1>3. x.pos = z /\ x.row = strip[z].cols
  BY <1>2 DEF RowItem
<1>4. strip[z].cols # 0 => home[strip[z].cols] = z /\ strip[z].cols <= nrows
  BY <1>2 DEF GInv, TableInv, StripInv
<1> QED
  BY <1>1, <1>2, <1>3, <1>4


-----------------------------------------------------------------------------
(* The invariant of the scans is kept, one part after the other.           *)

\* Rows on their way come from slots that the scan has passed.
LEMMA SeenStep == GInv /\ LoopInv /\ SeenInv /\ [Next]_vars => SeenInv'
<1> SUFFICES ASSUME GInv, LoopInv, SeenInv, [Next]_vars, NEW q \in Sessions,
                    op'[q] = "SELECT"
             PROVE  /\ \A x \in Items : Found(q, x)' /\ x.kind = "row" => Passed(q, x.pos)'
                    /\ \A i \in 1 .. Len(got'[q]) : got'[q][i] # 0 =>
                         /\ got'[q][i] <= nrows'
                         /\ \A z : z = home'[got'[q][i]] => Passed(q, z)'
  BY DEF SeenInv, Passed
<1>1. ASSUME NEW t \in Tables, NEW w \in Wheres, StartSelect(q, t, w)
      PROVE  /\ \A x \in Items : Found(q, x)' /\ x.kind = "row" => Passed(q, x.pos)'
             /\ Len(got'[q]) = 0
  <2>1. got'[q] = <<>> /\ chan'[q] = <<>> /\ scan'[q].held = NoItem
    BY <1>1, SelectStart
  <2>2. \A x : Found(q, x)' => x.kind # "row"
    BY <2>1, NothingFound DEF NoItem
  <2> QED
    BY <2>1, <2>2
<1>2. CASE op[q] = "SELECT"
  <2>0. chan[q] \in Seq(Items) /\ got[q] \in Seq(0 .. MaxRows) /\ nrows \in 0 .. MaxRows
        /\ MaxRows \in Nat
    BY Facts, ScanFacts DEF GInv
  <2>1. /\ \A x \in Items : Found(q, x) /\ x.kind = "row" => Passed(q, x.pos)
        /\ \A i \in 1 .. Len(got[q]) : got[q][i] # 0 =>
             got[q][i] <= nrows /\ Passed(q, home[got[q][i]])
    BY <1>2 DEF SeenInv
  <2>2. ASSUME NEW x \in Items, Found(q, x)', x.kind = "row" PROVE Passed(q, x.pos)'
    <3>1. x # NoItem
      BY <2>2 DEF NoItem
    <3>2. CASE Found(q, x)
      BY <1>2, <2>1, <2>2, <3>2, PassedKept
    <3>3. CASE ScanRead(q) /\ x = scan'[q].held
      <4>1. x.pos = RowZ(tab[q], scan[q].at)
        BY <2>2, <3>3, ReadRow
      <4> QED
        BY <1>2, <2>2, <3>3, <4>1, PassedKept
    <3> QED
      BY <1>2, <2>2, <3>1, <3>2, <3>3, FoundKept
  \* A row that is passed keeps its home.
  <2>3. ASSUME NEW r \in 0 .. MaxRows, r # 0, r <= nrows, Passed(q, home[r])
        PROVE  r <= nrows' /\ \A z : z = home'[r] => Passed(q, z)'
    <3>1. home'[r] = home[r] /\ r <= nrows'
      BY <2>3, Kept
    <3>2. \A z : z = home[r] => Passed(q, z)
      BY <2>3
    <3> QED
      BY <1>2, <3>1, <3>2, PassedKept
  <2>4. CASE got'[q] = got[q]
    <3>1. \A i \in 1 .. Len(got[q]) : got[q][i] \in 0 .. MaxRows
      BY <2>0
    <3> QED
      BY <2>1, <2>2, <2>3, <2>4, <3>1
  <2>5. CASE got'[q] # got[q]
    <3> DEFINE x == Head(chan[q])
    <3>1. /\ chan[q] # <<>> /\ x.kind = "row" /\ got'[q] = Append(got[q], x.row)
      BY <1>2, <2>5, FoundMoves
    <3>2. x \in Items /\ Found(q, x)
      <4>1. x = chan[q][1] /\ 1 \in 1 .. Len(chan[q])
        BY <2>0, <3>1
      <4> QED
        BY <2>0, <4>1 DEF Found
    <3>3. Read(x.pos, x.row) /\ Passed(q, x.pos) /\ x.row \in 0 .. MaxRows
      BY <2>1, <3>1, <3>2, ItemRead DEF Items
    <3>4. x.row <= nrows /\ (x.row # 0 => home[x.row] = x.pos)
      BY <3>3 DEF Read
    <3> HIDE DEF x
    <3>5. ASSUME NEW i \in 1 .. Len(got'[q]), got'[q][i] # 0
          PROVE  got'[q][i] \in 0 .. MaxRows /\ got'[q][i] <= nrows /\ Passed(q, home[got'[q][i]])
      <4>1. CASE i = Len(got[q]) + 1
        <5>1. got'[q][i] = x.row
          BY <2>0, <3>1, <4>1
        <5> QED
          BY <3>3, <3>4, <3>5, <5>1
      <4>2. CASE i # Len(got[q]) + 1
        <5>1. i \in 1 .. Len(got[q]) /\ got'[q][i] = got[q][i]
          BY <2>0, <3>1, <3>3, <4>2, SMTT(30)
        <5> QED
          BY <2>0, <2>1, <3>5, <5>1, SMTT(30)
      <4> QED
        BY <4>1, <4>2
    <3> QED
      BY <2>2, <2>3, <3>5
  <2> QED
    BY <2>4, <2>5
<1> QED
  BY <1>1, <1>2, SelectMoves

\* No row is reported twice: a scan reads every slot once, and a row is in no
\* slot but its own.
LEMMA OnceStep == GInv /\ LoopInv /\ SeenInv /\ OnceInv /\ [Next]_vars => OnceInv'
<1> SUFFICES ASSUME GInv, LoopInv, SeenInv, OnceInv, [Next]_vars, NEW q \in Sessions,
                    op'[q] = "SELECT"
             PROVE
    /\ \A i, j \in 1 .. Len(got'[q]) : i # j /\ got'[q][i] # 0 => got'[q][i] # got'[q][j]
    /\ \A i, j \in 1 .. Len(chan'[q]) :
         i # j /\ chan'[q][i].kind = "row" /\ chan'[q][j].kind = "row"
           /\ chan'[q][i].row # 0 => chan'[q][i].row # chan'[q][j].row
    /\ \A i \in 1 .. Len(chan'[q]) :
         chan'[q][i].kind = "row" /\ scan'[q].held.kind = "row" /\ chan'[q][i].row # 0 =>
           chan'[q][i].row # scan'[q].held.row
    /\ \A i \in 1 .. Len(got'[q]), x \in Items :
         Found(q, x)' /\ x.kind = "row" /\ got'[q][i] # 0 => got'[q][i] # x.row
  BY DEF OnceInv
<1>1. ASSUME NEW t \in Tables, NEW w \in Wheres, StartSelect(q, t, w)
      PROVE  Len(got'[q]) = 0 /\ Len(chan'[q]) = 0
  BY <1>1, SelectStart
<1>2. CASE op[q] = "SELECT"
  <2> DEFINE g == got[q]
             c == chan[q]
             h == scan[q].held
  <2>0. c \in Seq(Items) /\ g \in Seq(0 .. MaxRows) /\ h \in Items
    BY Facts, ScanFacts DEF GInv, Scans
  <2>1. /\ \A i, j \in 1 .. Len(g) : i # j /\ g[i] # 0 => g[i] # g[j]
        /\ \A i, j \in 1 .. Len(c) :
             i # j /\ c[i].kind = "row" /\ c[j].kind = "row" /\ c[i].row # 0 =>
               c[i].row # c[j].row
        /\ \A i \in 1 .. Len(c) :
             c[i].kind = "row" /\ h.kind = "row" /\ c[i].row # 0 => c[i].row # h.row
        /\ \A i \in 1 .. Len(g), x \in Items :
             Found(q, x) /\ x.kind = "row" /\ g[i] # 0 => g[i] # x.row
    BY <1>2 DEF OnceInv
  <2>2. /\ \A x \in Items : Found(q, x) /\ x.kind = "row" => Passed(q, x.pos)
        /\ \A i \in 1 .. Len(g) : g[i] # 0 => Passed(q, home[g[i]])
    BY <1>2 DEF SeenInv
  <2>3. \A x \in Items : x.kind = "row" => x # NoItem
    BY DEF NoItem
  \* A turn of the scanner reads a slot that it has not passed.
  <2>4. CASE ScanRead(q) /\ got'[q] = g /\ chan'[q] = c
    <3>1. ASSUME NEW y, y = scan'[q].held, y.kind = "row", NEW r, r = y.row, r # 0
          PROVE  /\ \A i \in 1 .. Len(g) : g[i] # r
                 /\ \A i \in 1 .. Len(c) : c[i].kind = "row" => c[i].row # r
      <4>1. y.pos = RowZ(tab[q], scan[q].at) /\ home[r] = y.pos
        BY <2>4, <3>1, ReadRow
      <4>2. ~Passed(q, y.pos)
        BY <1>2, <2>4, <3>1, <4>1, PassedKept
      <4>3. ASSUME NEW i \in 1 .. Len(c), c[i].kind = "row", c[i].row = r PROVE FALSE
        <5>1. c[i] \in Items /\ Found(q, c[i])
          BY <2>0 DEF Found
        <5>2. Read(c[i].pos, c[i].row) /\ Passed(q, c[i].pos)
          BY <2>2, <4>3, <5>1, ItemRead
        <5>3. home[r] = c[i].pos
          BY <3>1, <4>3, <5>2 DEF Read
        <5> QED
          BY <4>1, <4>2, <5>2, <5>3
      <4> QED
        BY <2>2, <3>1, <4>1, <4>2, <4>3
    <3>2. ASSUME NEW x \in Items, Found(q, x)', x.kind = "row", NEW i \in 1 .. Len(g),
                 g[i] # 0
          PROVE  g[i] # x.row
      BY <1>2, <2>1, <2>3, <3>1, <3>2, FoundKept
    <3>3. \A i \in 1 .. Len(c) :
            c[i].kind = "row" /\ scan'[q].held.kind = "row" /\ c[i].row # 0 =>
              c[i].row # scan'[q].held.row
      BY <3>1
    <3> QED
      BY <2>1, <2>4, <3>2, <3>3, SMTT(30)
  <2>5. CASE ScanSend(q) /\ got'[q] = g /\ chan'[q] = Append(c, h) /\ scan'[q].held = NoItem
    <3>1. \A i \in 1 .. Len(chan'[q]) :
            \/ i = Len(c) + 1 /\ chan'[q][i] = h
            \/ i \in 1 .. Len(c) /\ chan'[q][i] = c[i]
      BY <2>0, <2>5
    <3>2. \A i, j \in 1 .. Len(chan'[q]) :
            i # j /\ chan'[q][i].kind = "row" /\ chan'[q][j].kind = "row"
              /\ chan'[q][i].row # 0 => chan'[q][i].row # chan'[q][j].row
      <4> SUFFICES ASSUME NEW i \in 1 .. Len(chan'[q]), NEW j \in 1 .. Len(chan'[q]),
                          i # j, chan'[q][i].kind = "row", chan'[q][j].kind = "row",
                          chan'[q][i].row # 0, chan'[q][i].row = chan'[q][j].row
                   PROVE  FALSE
        OBVIOUS
      <4>1. /\ \/ i = Len(c) + 1 /\ chan'[q][i] = h
               \/ i \in 1 .. Len(c) /\ chan'[q][i] = c[i]
            /\ \/ j = Len(c) + 1 /\ chan'[q][j] = h
               \/ j \in 1 .. Len(c) /\ chan'[q][j] = c[j]
        BY <3>1
      <4> QED
        BY <2>1, <4>1
    <3>3. ASSUME NEW x \in Items, Found(q, x)', x.kind = "row" PROVE Found(q, x)
      <4>1. ~ScanRead(q)
        <5>1. ScanRead(q) => h = NoItem /\ h # NoItem
          BY <2>5 DEF ScanRead, ScanSend
        <5> QED
          BY <5>1
      <4> QED
        BY <1>2, <2>3, <3>3, <4>1, FoundKept
    <3>4. scan'[q].held.kind # "row"
      BY <2>5 DEF NoItem
    <3> QED
      BY <2>1, <2>5, <3>2, <3>3, <3>4
  <2>6. CASE /\ Recv(q) /\ scan'[q] = scan[q] /\ chan'[q] = Tail(c) /\ c # <<>>
             /\ got'[q] = IF Head(c).kind = "row" /\ Head(c).row \in where[q]
                          THEN Append(g, Head(c).row) ELSE g
    <3>1. /\ \A i \in 1 .. Len(chan'[q]) : chan'[q][i] = c[i + 1] /\ i + 1 \in 1 .. Len(c)
                                           /\ i + 1 # 1
          /\ Head(c) = c[1] /\ 1 \in 1 .. Len(c)
      BY <2>0, <2>6
    <3>2. \A i, j \in 1 .. Len(chan'[q]) : i # j => i + 1 # j + 1
      OBVIOUS
    <3>3. \A i \in 1 .. Len(got'[q]) :
            \/ i \in 1 .. Len(g) /\ got'[q][i] = g[i]
            \/ i = Len(g) + 1 /\ got'[q][i] = Head(c).row /\ Head(c).kind = "row"
      <4>1. Head(c) \in Items
        BY <2>0, <3>1
      <4>2. Head(c).row \in 0 .. MaxRows
        BY <4>1 DEF Items
      <4>3. CASE got'[q] = g
        BY <2>0, <4>3
      <4>4. CASE got'[q] = Append(g, Head(c).row) /\ Head(c).kind = "row"
        BY <2>0, <4>2, <4>4
      <4> QED
        BY <2>6, <4>3, <4>4
    <3>4. Found(q, Head(c)) /\ Head(c) \in Items
      BY <2>0, <3>1 DEF Found
    <3>5. \A i, j \in 1 .. Len(got'[q]) :
            i # j /\ got'[q][i] # 0 => got'[q][i] # got'[q][j]
      <4> SUFFICES ASSUME NEW i \in 1 .. Len(got'[q]), NEW j \in 1 .. Len(got'[q]),
                          i # j, got'[q][i] # 0, got'[q][i] = got'[q][j]
                   PROVE  FALSE
        OBVIOUS
      <4>1. /\ \/ i \in 1 .. Len(g) /\ got'[q][i] = g[i]
               \/ i = Len(g) + 1 /\ got'[q][i] = Head(c).row /\ Head(c).kind = "row"
            /\ \/ j \in 1 .. Len(g) /\ got'[q][j] = g[j]
               \/ j = Len(g) + 1 /\ got'[q][j] = Head(c).row /\ Head(c).kind = "row"
        BY <3>3
      <4> QED
        BY <2>1, <3>4, <4>1
    <3>6. ASSUME NEW x \in Items, Found(q, x)', x.kind = "row", NEW i \in 1 .. Len(got'[q]),
                 got'[q][i] # 0, got'[q][i] = x.row
          PROVE  FALSE
      <4>1. x = h \/ \E k \in 1 .. Len(chan'[q]) : x = chan'[q][k]
        BY <2>6, <3>6 DEF Found
      <4>2. x = h \/ \E k \in 1 .. Len(c) : k # 1 /\ x = c[k]
        BY <3>1, <4>1
      <4>3. Found(q, x)
        BY <4>2 DEF Found
      <4>4. CASE i \in 1 .. Len(g) /\ got'[q][i] = g[i]
        BY <2>1, <3>6, <4>3, <4>4
      <4>5. CASE got'[q][i] = c[1].row /\ c[1].kind = "row"
        BY <2>1, <3>1, <3>6, <4>2, <4>5, ZenonT(30)
      <4> QED
        BY <3>1, <3>3, <4>4, <4>5
    <3>7. \A i, j \in 1 .. Len(chan'[q]) :
            i # j /\ chan'[q][i].kind = "row" /\ chan'[q][j].kind = "row"
              /\ chan'[q][i].row # 0 => chan'[q][i].row # chan'[q][j].row
      <4> SUFFICES ASSUME NEW i \in 1 .. Len(chan'[q]), NEW j \in 1 .. Len(chan'[q]),
                          i # j, chan'[q][i].kind = "row", chan'[q][j].kind = "row",
                          chan'[q][i].row # 0
                   PROVE  chan'[q][i].row # chan'[q][j].row
        OBVIOUS
      <4>1. /\ chan'[q][i] = c[i + 1] /\ i + 1 \in 1 .. Len(c)
            /\ chan'[q][j] = c[j + 1] /\ j + 1 \in 1 .. Len(c) /\ i + 1 # j + 1
        BY <3>1, <3>2
      <4> QED
        BY <2>1, <4>1
    <3>8. \A i \in 1 .. Len(chan'[q]) :
            chan'[q][i].kind = "row" /\ scan'[q].held.kind = "row" /\ chan'[q][i].row # 0 =>
              chan'[q][i].row # scan'[q].held.row
      BY <2>1, <2>6, <3>1
    <3> QED
      BY <3>5, <3>6, <3>7, <3>8
  <2>7. CASE got'[q] = g /\ chan'[q] = c /\ scan'[q].held = h
    <3>1. \A x : Found(q, x)' => Found(q, x)
      BY <2>7 DEF Found
    <3> QED
      BY <2>1, <2>7, <3>1
  <2> QED
    BY <1>2, <2>4, <2>5, <2>6, <2>7, FoundMoves
<1>3. CASE \E t \in Tables, w \in Wheres : StartSelect(q, t, w)
  BY <1>1, <1>3
<1> QED
  BY <1>2, <1>3, SelectMoves

\* A SELECT in progress only adds to its result.
LEMMA ReportedGrows ==
  ASSUME GInv, LoopInv, [Next]_vars, NEW q \in Sessions, op[q] = "SELECT",
         op'[q] = "SELECT", NEW r
  PROVE  /\ r \in Reported(q) => r \in Reported(q)'
         /\ r \in Reported(q)' =>
              \/ r \in Reported(q)
              \/ Recv(q) /\ chan[q] # <<>> /\ Head(chan[q]).kind = "row"
                   /\ Head(chan[q]).row = r
         /\ /\ Recv(q) /\ chan[q] # <<>> /\ Head(chan[q]).kind = "row"
            /\ Head(chan[q]).row = r /\ r \in where[q]
            => r \in Reported(q)'
<1>0. chan[q] \in Seq(Items) /\ got[q] \in Seq(0 .. MaxRows)
  BY Facts, ScanFacts DEF GInv
<1>1. CASE got'[q] = got[q] /\ ~(/\ Recv(q) /\ chan[q] # <<>> /\ Head(chan[q]).kind = "row"
                                 /\ Head(chan[q]).row \in where[q])
  BY <1>1 DEF Reported
<1>2. CASE /\ Recv(q) /\ chan[q] # <<>> /\ Head(chan[q]).kind = "row"
           /\ got'[q] = Append(got[q], Head(chan[q]).row)
  <2>1. Head(chan[q]) \in Items
    BY <1>0, <1>2
  <2>2. Head(chan[q]).row \in 0 .. MaxRows
    BY <2>1 DEF Items
  <2>3. /\ Len(got'[q]) = Len(got[q]) + 1 /\ Len(got[q]) \in Nat
        /\ \A i \in 1 .. Len(got[q]) : got'[q][i] = got[q][i]
        /\ got'[q][Len(got[q]) + 1] = Head(chan[q]).row
    BY <1>0, <1>2, <2>2
  <2>4. \A i \in 1 .. Len(got'[q]) : i \in 1 .. Len(got[q]) \/ i = Len(got[q]) + 1
    BY <2>3
  <2>5. \A i \in 1 .. Len(got[q]) : i \in 1 .. Len(got'[q])
    BY <2>3
  <2>6. Len(got[q]) + 1 \in 1 .. Len(got'[q])
    BY <2>3
  <2> QED
    BY <1>2, <2>3, <2>4, <2>5, <2>6 DEF Reported
<1>3. Recv(q) => ~ScanRead(q) /\ ~ScanSend(q) /\ chan'[q] # chan[q]
  <2>1. ASSUME Recv(q) PROVE chan[q] # <<>> /\ chan'[q] = Tail(chan[q]) /\ scan' = scan
    BY <2>1, Facts DEF Recv, Arrived, GInv
  <2>2. ASSUME NEW c \in Seq(Items), c # <<>> PROVE Tail(c) # c
    <3>1. Len(c) \in Nat /\ Len(Tail(c)) = Len(c) - 1
      BY <2>2
    <3> QED
      BY <3>1
  <2>3. ASSUME ScanRead(q) PROVE chan' = chan
    BY <2>3 DEF ScanRead
  <2>4. ASSUME ScanSend(q) PROVE scan[q].held # NoItem /\ scan'[q].held = NoItem
    BY <2>4, Facts DEF ScanSend, GInv, Scans
  <2> QED
    BY <1>0, <2>1, <2>2, <2>3, <2>4
<1> QED
  BY <1>1, <1>2, <1>3, FoundMoves

\* Rows come into sight by a read, and stay in sight if the WHERE clause
\* accepts them.
LEMMA SeenMoves ==
  ASSUME GInv, LoopInv, [Next]_vars, NEW q \in Sessions, op[q] = "SELECT",
         op'[q] = "SELECT", NEW r
  PROVE  /\ Seen(q, r)' => \/ Seen(q, r)
                           \/ /\ ScanRead(q) /\ scan'[q].held.kind = "row"
                              /\ scan'[q].held.row = r
         /\ Seen(q, r) /\ r \in where[q] => Seen(q, r)'
<1>0. chan[q] \in Seq(Items)
  BY Facts DEF GInv
<1>1. chan[q] # <<>> => Head(chan[q]) \in Items /\ Found(q, Head(chan[q]))
  <2> SUFFICES ASSUME chan[q] # <<>>
               PROVE  Head(chan[q]) \in Items /\ Found(q, Head(chan[q]))
    OBVIOUS
  <2>1. Head(chan[q]) = chan[q][1] /\ 1 \in 1 .. Len(chan[q])
    BY <1>0
  <2> QED
    BY <1>0, <2>1 DEF Found
<1>2. \A x \in Items : x.kind = "row" => x # NoItem
  BY DEF NoItem
<1>3. ASSUME Seen(q, r)'
      PROVE  \/ Seen(q, r)
             \/ ScanRead(q) /\ scan'[q].held.kind = "row" /\ scan'[q].held.row = r
  <2>1. CASE r \in Reported(q)'
    BY <1>1, <2>1, ReportedGrows DEF Seen
  <2>2. ASSUME NEW x \in Items, Found(q, x)', x.kind = "row", x.row = r
        PROVE  \/ Seen(q, r)
               \/ ScanRead(q) /\ scan'[q].held.kind = "row" /\ scan'[q].held.row = r
    BY <1>2, <2>2, FoundKept DEF Seen
  <2> QED
    BY <1>3, <2>1, <2>2 DEF Seen
<1>4. ASSUME Seen(q, r), r \in where[q] PROVE Seen(q, r)'
  <2>1. CASE r \in Reported(q)
    BY <2>1, ReportedGrows DEF Seen
  <2>2. ASSUME NEW x \in Items, Found(q, x), x.kind = "row", x.row = r PROVE Seen(q, r)'
    <3>1. CASE Found(q, x)'
      BY <2>2, <3>1 DEF Seen
    <3>2. CASE Recv(q) /\ x = Head(chan[q])
      <4>1. chan[q] # <<>>
        BY <3>2 DEF Recv, Arrived
      <4> QED
        BY <1>4, <2>2, <3>2, <4>1, ReportedGrows DEF Seen
    <3> QED
      BY <1>2, <2>2, <3>1, <3>2, FoundKept
  <2> QED
    BY <1>4, <2>1, <2>2 DEF Seen
<1> QED
  BY <1>3, <1>4

\* No row is lost: it lies ahead of the scan until the scan reads it, whole,
\* and then it is on its way, or an error is.
LEMMA MustStep == GInv /\ LoopInv /\ MustInv /\ [Next]_vars => MustInv'
<1> SUFFICES ASSUME GInv, LoopInv, MustInv, [Next]_vars, NEW q \in Sessions,
                    op'[q] = "SELECT"
             PROVE  /\ must'[q] \subseteq acked' \cap where'[q]
                    /\ FirstInWorld' /\ WithinRegions' =>
                         \A r \in must'[q] \ marked' :
                           \/ Seen(q, r)'
                           \/ \A z : z = home'[r] => Ahead(q, z)'
                           \/ \E x \in Items : Found(q, x)' /\ x.kind = "err"
                           \/ pc'[q] = "err"
  BY DEF MustInv, Ahead
<1>0. acked \subseteq acked' /\ marked \subseteq marked'
  BY HistoryGrows
<1>1. ASSUME NEW t \in Tables, NEW w \in Wheres, StartSelect(q, t, w), NEW r \in must'[q]
      PROVE  /\ r \in acked' /\ r \in where'[q]
             /\ \A z : z = home'[r] => Ahead(q, z)'
  <2>1. r \in acked /\ r \in w /\ InRange(t, home[r])
    BY <1>1, SelectMust DEF GInv
  <2>2. /\ tab'[q] = t /\ where'[q] = w /\ scan'[q].at = 0 /\ scan'[q].n = rowCount[t]
        /\ home' = home /\ acked' = acked
    BY <1>1, SelectStart
  <2> QED
    BY <2>1, <2>2 DEF InRange, Ahead
<1>2. CASE op[q] = "SELECT"
  <2>0. /\ must'[q] = must[q] /\ where'[q] = where[q] /\ tab'[q] = tab[q]
        /\ scan'[q].n = scan[q].n /\ (pc[q] = "err" => pc'[q] = "err")
    BY <1>2, FoundMoves
  <2>1. must[q] \subseteq acked \cap where[q]
    BY <1>2 DEF MustInv
  <2> SUFFICES ASSUME FirstInWorld', WithinRegions', NEW r \in must[q] \ marked',
                      NEW h, h = home[r], ~Seen(q, r)', pc'[q] # "err"
               PROVE  \/ home'[r] = h /\ Ahead(q, h)'
                      \/ \E x \in Items : Found(q, x)' /\ x.kind = "err"
    BY <1>0, <2>0, <2>1
  <2>2. r \in acked /\ r \in where[q] /\ r \notin marked
    BY <1>0, <2>1
  <2>3. nrows \in 0 .. MaxRows /\ r \in 1 .. nrows /\ MaxRows \in Nat
    BY <2>2, Facts DEF GInv, TableInv, ToldInv
  <2>4. r \in 0 .. MaxRows /\ r <= nrows /\ r # 0 /\ nrows # 0
    BY <2>3
  <2>5. FirstInWorld /\ WithinRegions /\ home'[r] = h
    BY <2>4, Kept, FirstKept DEF FirstInWorld
  <2>6. strip[h] = FullStrip(r)
    BY <2>2, <2>5, AckedReadable DEF AckedVisible
  <2>7. ~Seen(q, r)
    BY <1>2, <2>2, SeenMoves
  \* An error on its way stays there or ends the statement.
  <2>8. ASSUME NEW x \in Items, Found(q, x), x.kind = "err"
        PROVE  Found(q, x)'
    <3>1. x # NoItem
      BY <2>8 DEF NoItem
    <3>2. ASSUME Recv(q), x = Head(chan[q]) PROVE FALSE
      <4>1. pc'[q] = "err"
        BY <2>8, <3>2, Facts DEF Recv, Arrived, Goto, GInv
      <4> QED
        BY <4>1
    <3> QED
      BY <1>2, <2>8, <3>1, <3>2, FoundKept
  <2>9. ASSUME Ahead(q, h)
        PROVE  Ahead(q, h)' \/ \E x \in Items : Found(q, x)' /\ x.kind = "err"
    <3>1. CASE scan'[q].at = scan[q].at
      BY <2>0, <2>9, <3>1 DEF Ahead
    <3>2. CASE ScanRead(q)
      <4>0. scan[q] \in Scans /\ tab[q] \in Tables
        BY Facts DEF GInv
      <4>1. scan[q].at \in 0 .. MaxRows /\ scan[q].n \in 0 .. MaxRows
        BY <4>0 DEF Scans
      <4>2. PICK j \in scan[q].at .. (scan[q].n - 1) : h = RowZ(tab[q], j)
        BY <2>9 DEF Ahead
      <4>3. PICK z : z = RowZ(tab[q], scan[q].at)
        OBVIOUS
      <4>4. \/ scan'[q].held = ErrItem
            \/ /\ scan'[q].at = scan[q].at + 1
               /\ \/ isVisible(strip[z], Txid) /\ scan'[q].held = RowItem(z, strip[z])
                  \/ ~isVisible(strip[z], Txid)
        BY <3>2, <4>3, ReadEffect DEF GInv
      <4>5. CASE scan'[q].held = ErrItem
        <5>1. ErrItem \in Items /\ ErrItem.kind = "err"
          BY EmptyType, <2>3 DEF ErrItem, Items, Zs
        <5> QED
          BY <4>5, <5>1 DEF Found
      <4>6. CASE scan'[q].at = scan[q].at + 1 /\ j # scan[q].at
        <5>1. j \in scan'[q].at .. (scan'[q].n - 1)
          BY <2>0, <2>3, <4>1, <4>2, <4>6
        <5> QED
          BY <2>0, <4>2, <5>1 DEF Ahead
      <4>7. CASE j = scan[q].at /\ scan'[q].held # ErrItem
        <5>1. isVisible(strip[z], Txid) /\ z = h
          BY <2>6, <4>2, <4>3, <4>7
             DEF FullStrip, isVisible, Decodable, VisibleXmax, IsNull, Txid
        <5>2. scan'[q].held = RowItem(z, strip[z]) /\ z \in Zs
          BY <3>2, <4>3, <4>4, <4>7, <5>1, RowZType, <4>0, <4>1
        <5>3. PICK y : y = scan'[q].held
          OBVIOUS
        <5>4. y = [kind |-> "row", pos |-> z, row |-> r]
          BY <2>6, <5>1, <5>2, <5>3 DEF RowItem, FullStrip
        <5>5. y \in Items /\ y.kind = "row" /\ y.row = r
          BY <2>4, <5>2, <5>4 DEF Items
        <5>6. Found(q, y)'
          BY <5>3 DEF Found
        <5> QED
          BY <5>5, <5>6 DEF Seen
      <4> QED
        BY <4>4, <4>5, <4>6, <4>7
    <3> QED
      BY <1>2, <3>1, <3>2, FoundMoves
  <2>10. \/ Ahead(q, h)
         \/ \E x \in Items : Found(q, x) /\ x.kind = "err"
    BY <1>2, <2>0, <2>2, <2>5, <2>7 DEF MustInv
  <2> QED
    BY <2>5, <2>8, <2>9, <2>10
<1> QED
  BY <1>1, <1>2, SelectMoves

\* No deleted row comes into sight: the scan reads its delete marker.
LEMMA MustNotStep == GInv /\ LoopInv /\ MustNotInv /\ [Next]_vars => MustNotInv'
<1> SUFFICES ASSUME GInv, LoopInv, MustNotInv, [Next]_vars, NEW q \in Sessions,
                    op'[q] = "SELECT"
             PROVE  /\ mustNot'[q] \subseteq deleted'
                    /\ \A r \in mustNot'[q] \ {0} : Seen(q, r)' => ~MarkerLasts(r)'
  BY DEF MustNotInv
<1>0. deleted \subseteq deleted'
  BY HistoryGrows
<1>1. ASSUME NEW t \in Tables, NEW w \in Wheres, StartSelect(q, t, w)
      PROVE  mustNot'[q] \subseteq deleted' /\ \A r : ~Seen(q, r)'
  <2>1. /\ got'[q] = <<>> /\ chan'[q] = <<>> /\ scan'[q].held = NoItem
        /\ mustNot'[q] = deleted
    BY <1>1, SelectStart
  <2>2. \A x : Found(q, x)' => x.kind # "row"
    BY <2>1, NothingFound DEF NoItem
  <2>3. \A r : r \notin Reported(q)'
    BY <2>1 DEF Reported
  <2> QED
    BY <1>0, <2>1, <2>2, <2>3 DEF Seen
<1>2. CASE op[q] = "SELECT"
  <2>0. mustNot'[q] = mustNot[q] /\ mustNot[q] \subseteq deleted
    BY <1>2, FoundMoves DEF MustNotInv
  <2> SUFFICES ASSUME NEW r \in mustNot[q] \ {0}, Seen(q, r)', MarkerLasts(r)'
               PROVE  FALSE
    BY <1>0, <2>0
  <2>1. r \in deleted /\ r # 0 /\ r \in Rows /\ Read(home[r], r)
    BY <2>0 DEF GInv, TableInv, ToldInv
  <2>2. r \in 0 .. MaxRows /\ r <= nrows
    BY <2>1, Facts DEF GInv, Read, Rows
  <2>3. MarkerLasts(r)
    BY <2>2, Kept DEF MarkerLasts
  <2>4. ~Seen(q, r)
    BY <1>2, <2>3 DEF MustNotInv
  <2>5. ScanRead(q) /\ scan'[q].held.kind = "row" /\ scan'[q].held.row = r
    BY <1>2, <2>4, SeenMoves
  <2>6. PICK z : z = home[r] /\ isVisible(strip[z], Txid) /\ strip[z].cols = r
    BY <2>1, <2>5, ReadRow
  <2> QED
    BY <2>1, <2>3, <2>6, DeletedHidden DEF DeletedStaysDeleted
<1> QED
  BY <1>1, <1>2, SelectMoves


-----------------------------------------------------------------------------
(* The invariant of the scans and what follows from it.                    *)

\* No scan runs when the engine starts.
LEMMA ScanInit == Init => ScanInv
<1> SUFFICES ASSUME Init PROVE ScanInv
  OBVIOUS
<1>1. /\ op = [p \in Sessions |-> "NONE"] /\ got = [p \in Sessions |-> <<>>]
      /\ scan = [p \in Sessions |-> NoScan] /\ chan = [p \in Sessions |-> <<>>]
  BY DEF Init
<1> QED
  BY <1>1 DEF ScanInv, LoopInv, SeenInv, OnceInv, MustInv, MustNotInv, NoScan

\* Every step keeps the invariant of the scans.
LEMMA ScanStep == GInv /\ ScanInv /\ [Next]_vars => ScanInv'
BY LoopStep, SeenStep, OnceStep, MustStep, MustNotStep DEF ScanInv

\* A SELECT that has ended without an error has nothing on its way, and nothing
\* ahead of it.
LEMMA SelectEnds ==
  ASSUME GInv, ScanInv, NEW p \in Sessions, op[p] = "SELECT", pc[p] = "ok", ~ctxDone
  PROVE  /\ \A x \in Items : Found(p, x) => x = NoItem
         /\ \A z : ~Ahead(p, z)
<1>1. chan[p] = <<>> /\ scan[p].held = NoItem /\ scan[p].at = scan[p].n
  BY DEF ScanInv, LoopInv
<1>2. scan[p] \in Scans
  BY Facts DEF GInv
<1>3. scan[p].n \in Int
  BY <1>2 DEF Scans
<1> QED
  BY <1>1, <1>3 DEF Found, Ahead

\* A SELECT that ends without an error reported no row deleted before it started,
\* no row twice and, without a shutdown, every row it had to report, whatever INSERTs, DELETEs,
\* failures and restarts happened beside it: SeqScan reads every slot of its
\* range once, and what it read stays true until the result is out.
THEOREM SelectExactAlways == Spec => []SelectExact
<1>1. GInv /\ ScanInv => SelectExact
  <2> SUFFICES ASSUME GInv, ScanInv, NEW p \in Sessions, pc[p] = "ok",
                      op[p] = "SELECT"
               PROVE
        /\ FirstInWorld /\ WithinRegions /\ ~ctxDone =>
             must[p] \ marked \subseteq Reported(p)
        /\ \A r \in (Reported(p) \cap mustNot[p]) \ {0} : ~MarkerLasts(r)
        /\ \A i, j \in 1 .. Len(got[p]) :
             i # j /\ got[p][i] # 0 => got[p][i] # got[p][j]
    BY DEF SelectExact
  <2>1. ASSUME FirstInWorld, WithinRegions, ~ctxDone, NEW r \in must[p] \ marked
        PROVE  r \in Reported(p)
    <3>0. /\ \A x \in Items : Found(p, x) => x.kind = "none"
          /\ \A z : ~Ahead(p, z)
      BY <2>1, SelectEnds DEF NoItem
    <3>1. \/ Seen(p, r) \/ Ahead(p, home[r])
          \/ \E x \in Items : Found(p, x) /\ x.kind = "err"
      BY <2>1 DEF ScanInv, MustInv
    <3>2. Seen(p, r)
      BY <3>0, <3>1
    <3> QED
      BY <3>0, <3>2 DEF Seen
  <2>2. \A r \in (Reported(p) \cap mustNot[p]) \ {0} : ~MarkerLasts(r)
    BY DEF ScanInv, MustNotInv, Seen
  <2>3. \A i, j \in 1 .. Len(got[p]) : i # j /\ got[p][i] # 0 => got[p][i] # got[p][j]
    BY DEF ScanInv, OnceInv
  <2> QED
    BY <2>1, <2>2, <2>3
<1> QED
  BY RowInvariant, ScanInit, ScanStep, <1>1, PTL DEF Spec

=============================================================================
