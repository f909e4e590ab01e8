---------------------------- MODULE CatalogProofs ----------------------------
(***************************************************************************)
(* Proofs about Catalog for every value of its constants: any number of    *)
(* sessions, table names, CREATE TABLEs, failed calls and crashes.         *)
(***************************************************************************)
EXTENDS Catalog, FiniteSetTheorems, TLAPS

\* The sessions whose CREATE TABLE has reached the catalog and not returned.
Pending == {p \in Sessions : pc[p] \in {"create", "write"}}

\* The barrel of the CREATE TABLE that comes next or is being written.
Slot == IF mu = NoSession THEN nextCatalogZ ELSE nextCatalogZ - 1

\* The barrels below are the ones that the map can know of.
Upto == IF phase = "up" THEN Slot ELSE loadAt

\* Statements run only in a serving process.  The holder of Storage.mu is the
\* session that writes, for a table the map does not have.
MutexInv ==
  /\ \A p \in Sessions : pc[p] = "write" <=> mu = p
  /\ \A p \in Sessions : pc[p] = "write" =>
       /\ nextCatalogZ >= 1
       /\ entry[p] = [z |-> nextCatalogZ - 1, id |-> nextTableID]
       /\ tables[want[p]] = 0
  /\ phase # "up" => nextCatalogZ = 0 /\ \A p \in Sessions : pc[p] = "idle"
  /\ phase = "down" => loadAt = 0 /\ nextTableID = 1 /\ tables = NoTables

\* Barrels and IDs in use never outnumber the CREATE TABLEs received, of which
\* the pending ones have used up none yet.
BoundInv ==
  /\ IsFiniteSet(Pending)
  /\ Slot + Cardinality(Pending) <= MaxCatalogZ + creates
  /\ nextTableID >= 1 /\ nextTableID + Cardinality(Pending) <= creates + 1
  /\ \A z \in Zs : barrel[z] # NoBarrel =>
       barrel[z].id >= 1 /\ barrel[z].id + Cardinality(Pending) <= creates

\* A table of the map has its row below Upto, where nothing is overwritten.
KnownInv ==
  \A n \in Names : tables[n] # 0 =>
    \E z \in Zs : z < Upto /\ barrel[z] = [id |-> tables[n], name |-> n]

\* Without a failed write IDs and barrels are counted in step.
InStepInv ==
  ~failed => /\ \A z \in Zs : barrel[z] # NoBarrel => barrel[z].id = z + 1
             /\ nextTableID = Upto + 1

\* The first process gives every table a fresh ID.
FirstInv ==
  crashes = 0 =>
    /\ phase # "up" => \A z \in Zs : barrel[z] = NoBarrel
    /\ \A n \in Names : tables[n] < nextTableID
    /\ \A m, n \in Names : m # n /\ tables[m] # 0 => tables[m] # tables[n]

\* Below LoadCatalog's limit and without a failed write the rows have no gap,
\* no name occurs twice, and the map agrees with every row it has reached.
RowsInv ==
  ~failed /\ creates <= MaxCatalogZ =>
    /\ \A y, z \in Zs : y < z /\ barrel[z] # NoBarrel => barrel[y] # NoBarrel
    /\ \A y, z \in Zs : barrel[y] # NoBarrel /\ barrel[z] # NoBarrel
                          /\ barrel[y].name = barrel[z].name => y = z
    /\ phase = "up" => \A z \in Zs : barrel[z] # NoBarrel => z < Slot
    /\ \A z \in Zs : z < Upto =>
         barrel[z] # NoBarrel /\ tables[barrel[z].name] = barrel[z].id
    /\ \A n \in Names : acked[n] # 0 =>
         \E z \in Zs : barrel[z] = [id |-> acked[n], name |-> n]

IInv == /\ TypeOK /\ MutexInv /\ BoundInv
        /\ KnownInv /\ InStepInv /\ FirstInv /\ RowsInv


-----------------------------------------------------------------------------
(* Facts about the operators and the count of pending CREATE TABLEs.       *)

\* The constants that stand for an empty catalog are of the right types.
LEMMA EmptyType ==
  /\ NoBarrel \in Barrels /\ NoTables \in [Names -> IDs]
  /\ NoEntry \in [z : Zs, id : IDs] /\ 0 \in Zs /\ 0 \in IDs /\ 1 \in IDs
  /\ (CHOOSE n \in Names : TRUE) \in Names
  /\ \A z \in Zs : z \in Nat
  /\ \A i \in IDs : i \in Nat
BY CatalogAssumption DEF Barrels, NoTables, NoEntry, Zs, IDs

\* Positions and IDs are natural numbers.
LEMMA Numbers == /\ \A z \in Zs : z \in Nat
                 /\ \A i \in IDs : i \in Nat
BY CatalogAssumption DEF Zs, IDs

\* A row that CreateTable stores is a barrel, and not an empty one.
LEMMA RowType ==
  ASSUME NEW i \in IDs, NEW n \in Names
  PROVE  /\ [id |-> i, name |-> n] \in Barrels
         /\ i # 0 => [id |-> i, name |-> n] # NoBarrel
<1>1. [id |-> i, name |-> n] \in Barrels
  BY DEF Barrels
<1>2. ASSUME i # 0, [id |-> i, name |-> n] = NoBarrel PROVE FALSE
  <2>1. [id |-> i, name |-> n].id = NoBarrel.id
    BY <1>2
  <2> QED
    BY <1>2, <2>1 DEF NoBarrel
<1> QED
  BY <1>1, <1>2

\* A barrel that is not empty holds a table's ID and name.
LEMMA RowFields ==
  ASSUME NEW b \in Barrels, b # NoBarrel
  PROVE  b.id \in IDs /\ b.name \in Names /\ b = [id |-> b.id, name |-> b.name]
BY DEF Barrels

\* A session joins the pending CREATE TABLEs, or leaves them.
LEMMA PendingJoin ==
  ASSUME BoundInv, NEW p \in Sessions, Pending' = Pending \cup {p}, p \notin Pending
  PROVE  /\ IsFiniteSet(Pending') /\ Cardinality(Pending) \in Nat
         /\ Cardinality(Pending') = Cardinality(Pending) + 1
BY FS_AddElement, FS_CardinalityType DEF BoundInv

LEMMA PendingLeave ==
  ASSUME BoundInv, NEW p \in Sessions, Pending' = Pending \ {p}, p \in Pending
  PROVE  /\ IsFiniteSet(Pending') /\ Cardinality(Pending) \in Nat
         /\ Cardinality(Pending) = Cardinality(Pending') + 1
         /\ Cardinality(Pending') \in Nat
<1>1. IsFiniteSet(Pending) /\ Cardinality(Pending) \in Nat
  BY FS_CardinalityType DEF BoundInv
<1>2. IsFiniteSet(Pending') /\ Cardinality(Pending') = Cardinality(Pending) - 1
  BY <1>1, FS_RemoveElement
<1> QED
  BY <1>1, <1>2, FS_CardinalityType

\* What a pending CREATE TABLE shows about the bounds.
LEMMA Room ==
  ASSUME TypeOK, MutexInv, BoundInv
  PROVE  /\ Cardinality(Pending) \in Nat
         /\ Slot \in Zs /\ Slot >= 0
         /\ \A p \in Pending : Cardinality(Pending) >= 1
<1>1. IsFiniteSet(Pending) /\ Cardinality(Pending) \in Nat
  BY FS_CardinalityType DEF BoundInv
<1>2. \A p \in Pending : Cardinality(Pending) >= 1
  BY <1>1, FS_EmptySet
<1>3. nextCatalogZ \in Nat /\ creates \in 0 .. MaxCreates /\ MaxCatalogZ \in Nat
      /\ MaxCreates \in Nat /\ mu \in Sessions \cup {NoSession}
  BY CatalogAssumption DEF TypeOK, Zs
<1>4. mu # NoSession => nextCatalogZ >= 1
  BY <1>3 DEF MutexInv
<1>5. Slot \in Nat
  BY <1>3, <1>4 DEF Slot
<1>6. Slot <= MaxCatalogZ + MaxCreates
  BY <1>1, <1>3, <1>5 DEF BoundInv
<1> QED
  BY <1>1, <1>2, <1>5, <1>6, CatalogAssumption DEF Zs

\* The initial state satisfies the inductive invariant.
LEMMA InitInv == Init => IInv
<1> SUFFICES ASSUME Init PROVE IInv
  OBVIOUS
<1> USE EmptyType, CatalogAssumption DEF Init
<1>1. TypeOK
  <2>1. want \in [Sessions -> Names]
    OBVIOUS
  <2>2. barrel \in [Zs -> Barrels] /\ entry \in [Sessions -> [z : Zs, id : IDs]]
    OBVIOUS
  <2>3. tables \in [Names -> IDs] /\ acked \in [Names -> IDs] /\ failed \in BOOLEAN
    OBVIOUS
  <2>4. phase \in {"down", "load", "up"} /\ mu \in Sessions \cup {NoSession}
        /\ pc \in [Sessions -> {"idle", "create", "write", "get"}]
    OBVIOUS
  <2>5. nextCatalogZ \in Zs /\ nextTableID \in IDs /\ loadAt \in 0 .. MaxCatalogZ
        /\ creates \in 0 .. MaxCreates /\ faults \in 0 .. MaxFaults
        /\ crashes \in 0 .. MaxCrashes
    OBVIOUS
  <2> QED
    BY <2>1, <2>2, <2>3, <2>4, <2>5 DEF TypeOK
<1>2. MutexInv
  BY DEF MutexInv
<1>3. Pending = {} /\ Slot = 0 /\ Upto = 0
  BY DEF Pending, Slot, Upto
<1>4. BoundInv
  BY <1>3, FS_EmptySet DEF BoundInv
<1>5. KnownInv /\ FirstInv
  BY DEF KnownInv, FirstInv, NoTables
<1>6. InStepInv
  BY <1>3 DEF InStepInv
<1>7. RowsInv
  BY <1>3 DEF RowsInv, NoTables
<1> QED
  BY <1>1, <1>2, <1>4, <1>5, <1>6, <1>7 DEF IInv


-----------------------------------------------------------------------------
(* Type correctness and the bounds.                                        *)

\* A new Storage is well typed.
LEMMA VolatileType ==
  ASSUME TypeOK, Volatile, barrel' \in [Zs -> Barrels], phase' = "down",
         creates' \in 0 .. MaxCreates, faults' \in 0 .. MaxFaults,
         crashes' \in 0 .. MaxCrashes, UNCHANGED <<acked, failed>>
  PROVE  TypeOK'
<1> USE EmptyType, CatalogAssumption DEF Volatile
<1>1. want' \in [Sessions -> Names]
  OBVIOUS
<1>2. entry' \in [Sessions -> [z : Zs, id : IDs]]
  OBVIOUS
<1> QED
  BY <1>1, <1>2 DEF TypeOK

\* A HAL call keeps the budget of failures.
LEMMA HalType ==
  ASSUME TypeOK, NEW o, Hal(o)
  PROVE  faults' \in 0 .. MaxFaults
BY CatalogAssumption DEF TypeOK, Hal

\* The row a writing session stores goes to a barrel of the world.
LEMMA StoredType ==
  ASSUME TypeOK, MutexInv, BoundInv, NEW p \in Sessions, pc[p] = "write"
  PROVE  /\ Stored(p) = [barrel EXCEPT ![Slot] = [id |-> nextTableID, name |-> want[p]]]
         /\ Slot \in Zs /\ Slot = nextCatalogZ - 1 /\ mu = p
         /\ [id |-> nextTableID, name |-> want[p]] \in Barrels
         /\ [id |-> nextTableID, name |-> want[p]] # NoBarrel
         /\ Stored(p) \in [Zs -> Barrels]
         /\ nextTableID + 1 \in IDs
<1>1. mu = p /\ p # NoSession /\ nextCatalogZ \in Nat
  BY CatalogAssumption DEF MutexInv, TypeOK, Zs
<1>2. Slot = nextCatalogZ - 1 /\ entry[p] = [z |-> nextCatalogZ - 1, id |-> nextTableID]
  BY <1>1 DEF MutexInv, Slot
<1>3. Slot \in Zs /\ Cardinality(Pending) \in Nat
  BY Room
<1>4. nextTableID \in IDs /\ nextTableID # 0 /\ want[p] \in Names
  BY DEF TypeOK, BoundInv, IDs
<1>5. nextTableID + 1 \in IDs
  <2>1. Cardinality(Pending) >= 1
    BY Room DEF Pending
  <2>2. nextTableID \in Nat /\ creates \in 0 .. MaxCreates
    BY EmptyType DEF TypeOK
  <2>3. nextTableID + Cardinality(Pending) <= creates + 1
    BY DEF BoundInv
  <2> QED
    BY <1>3, <2>1, <2>2, <2>3, CatalogAssumption DEF IDs
<1>6. /\ [id |-> nextTableID, name |-> want[p]] \in Barrels
      /\ [id |-> nextTableID, name |-> want[p]] # NoBarrel
  BY <1>4, RowType
<1> QED
  BY <1>1, <1>2, <1>3, <1>5, <1>6 DEF Stored, TypeOK

\* Every step preserves the types.
LEMMA TypeStep == IInv /\ [Next]_vars => TypeOK'
<1> SUFFICES ASSUME IInv, [Next]_vars PROVE TypeOK'
  OBVIOUS
<1> USE CatalogAssumption
<1>0. TypeOK /\ MutexInv /\ BoundInv
  BY DEF IInv
<1>1. ASSUME NEW p \in Sessions, NEW n \in Names, Ask(p, n) PROVE TypeOK'
  BY <1>0, <1>1 DEF Ask, TypeOK, storage
<1>2. ASSUME NEW p \in Sessions, CreateTable(p) PROVE TypeOK'
  <2>1. mu = NoSession /\ p \in Pending
    BY <1>2 DEF CreateTable, MuFree, Pending
  <2>2. Cardinality(Pending) \in Nat /\ Cardinality(Pending) >= 1
    BY <1>0, <2>1, Room
  <2>3. nextCatalogZ + Cardinality(Pending) <= MaxCatalogZ + creates
    BY <1>0, <2>1 DEF BoundInv, Slot
  <2>4. nextCatalogZ \in Nat /\ creates \in 0 .. MaxCreates
    BY <1>0 DEF TypeOK, Zs
  <2>5. nextCatalogZ + 1 \in Zs
    BY <2>2, <2>3, <2>4 DEF Zs
  <2> QED
    BY <1>0, <1>2, <2>5 DEF CreateTable, TypeOK, counters
<1>3. ASSUME NEW p \in Sessions, CreateWrite(p) PROVE TypeOK'
  <2>1. pc[p] = "write" /\ faults' \in 0 .. MaxFaults
    BY <1>0, <1>3, HalType DEF CreateWrite
  <2>2. Stored(p) \in [Zs -> Barrels] /\ nextTableID + 1 \in IDs
    BY <1>0, <2>1, StoredType
  <2>3. barrel' \in [Zs -> Barrels]
    BY <1>0, <1>3, <2>2 DEF CreateWrite, TypeOK
  <2>4. tables' \in [Names -> IDs] /\ acked' \in [Names -> IDs] /\ nextTableID' \in IDs
    BY <1>0, <1>3, <2>2 DEF CreateWrite, TypeOK, NextTableID
  <2>5. entry' \in [Sessions -> [z : Zs, id : IDs]]
    BY <1>0, <1>3, EmptyType DEF CreateWrite, TypeOK
  <2>6. failed' \in BOOLEAN
    BY <1>0, <1>3 DEF CreateWrite, TypeOK
  <2> QED
    BY <1>0, <1>3, <2>1, <2>3, <2>4, <2>5, <2>6 DEF CreateWrite, TypeOK
<1>4. ASSUME NEW p \in Sessions, CreateExists(p) \/ GetTable(p) PROVE TypeOK'
  BY <1>0, <1>4 DEF CreateExists, GetTable, TypeOK, storage, counters
<1>5. CASE LoadFails
  <2>1. faults' \in 0 .. MaxFaults
    BY <1>0, <1>5, HalType DEF LoadFails
  <2> QED
    BY <1>0, <1>5, <2>1, VolatileType DEF LoadFails, TypeOK
<1>6. CASE LoadEntry
  <2>1. barrel[loadAt] \in Barrels /\ loadAt \in Zs /\ loadAt + 1 \in 0 .. MaxCatalogZ
    BY <1>0, <1>6 DEF LoadEntry, TypeOK, Zs
  <2>2. barrel[loadAt].id \in IDs /\ barrel[loadAt].name \in Names
    BY <1>6, <2>1, RowFields DEF LoadEntry
  <2>3. barrel[loadAt].id + 1 \in IDs
    <3>1. barrel[loadAt].id \in Nat /\ Cardinality(Pending) \in Nat
      BY <1>0, <2>2, Room, EmptyType
    <3>2. barrel[loadAt].id + Cardinality(Pending) <= creates /\ creates \in 0 .. MaxCreates
      BY <1>0, <1>6, <2>1 DEF BoundInv, TypeOK, LoadEntry
    <3> QED
      BY <3>1, <3>2 DEF IDs
  <2> QED
    BY <1>0, <1>6, <2>1, <2>2, <2>3 DEF LoadEntry, TypeOK, sessions, counters
<1>7. CASE LoadEnd
  BY <1>0, <1>7 DEF LoadEnd, TypeOK, sessions, counters, LastZ, Zs
<1>8. CASE Crash
  <2>1. barrel' \in [Zs -> Barrels]
    BY <1>0, <1>8, StoredType, ZenonT(30) DEF Crash, TypeOK
  <2>2. crashes' \in 0 .. MaxCrashes
    BY <1>0, <1>8 DEF Crash, TypeOK
  <2> QED
    BY <1>0, <1>8, <2>1, <2>2, VolatileType DEF Crash, TypeOK
<1>9. CASE Restart
  BY <1>0, <1>9 DEF Restart, TypeOK, storage, sessions, counters
<1>10. CASE UNCHANGED vars
  BY <1>0, <1>10 DEF vars, TypeOK, storage, sessions, counters
<1> QED
  BY <1>1, <1>2, <1>3, <1>4, <1>5, <1>6, <1>7, <1>8, <1>9, <1>10 DEF Next, Locked, Load

\* Every step preserves the mutual exclusion of Storage.mu.
LEMMA MutexStep == IInv /\ [Next]_vars => MutexInv'
<1> SUFFICES ASSUME IInv, [Next]_vars PROVE MutexInv'
  OBVIOUS
<1> USE CatalogAssumption
<1>0. TypeOK /\ MutexInv
  BY DEF IInv
<1>1. ASSUME NEW p \in Sessions, NEW n \in Names, Ask(p, n) PROVE MutexInv'
  BY <1>0, <1>1 DEF Ask, TypeOK, MutexInv, storage
<1>2. ASSUME NEW p \in Sessions, CreateTable(p) PROVE MutexInv'
  <2>1. \A q \in Sessions : pc[q] # "write"
    BY <1>0, <1>2 DEF CreateTable, MuFree, MutexInv
  <2>2. phase = "up" /\ nextCatalogZ \in Nat
    BY <1>0, <1>2 DEF CreateTable, MutexInv, TypeOK, Zs
  <2> QED
    BY <1>0, <1>2, <2>1, <2>2 DEF CreateTable, TypeOK, MutexInv
<1>3. ASSUME NEW p \in Sessions, CreateWrite(p) PROVE MutexInv'
  <2>1. mu = p /\ \A q \in Sessions : pc[q] = "write" => q = p
    BY <1>0, <1>3 DEF CreateWrite, MutexInv
  <2>2. phase = "up" /\ phase' = "up"
    BY <1>0, <1>3 DEF CreateWrite, MutexInv
  <2>3. \A q \in Sessions : pc'[q] # "write" /\ mu' # q
    BY <1>0, <1>3, <2>1 DEF CreateWrite, TypeOK
  <2> QED
    BY <2>2, <2>3 DEF MutexInv
<1>4. ASSUME NEW p \in Sessions, CreateExists(p) \/ GetTable(p) PROVE MutexInv'
  BY <1>0, <1>4 DEF CreateExists, GetTable, TypeOK, MutexInv, storage, counters
<1>5. ASSUME Volatile, phase' = "down" PROVE MutexInv'
  BY <1>5 DEF Volatile, MutexInv
<1>6. CASE LoadEntry \/ LoadEnd \/ Restart
  BY <1>0, <1>6 DEF LoadEntry, LoadEnd, Restart, MutexInv, sessions, storage
<1>7. CASE UNCHANGED vars
  BY <1>0, <1>7 DEF vars, MutexInv, storage, sessions
<1> QED
  BY <1>1, <1>2, <1>3, <1>4, <1>5, <1>6, <1>7 DEF Next, Locked, Load, LoadFails, Crash


\* How the barrel in turn moves: it is reserved, then settled.
LEMMA SlotMoves ==
  ASSUME TypeOK, MutexInv, BoundInv, NEW p \in Sessions
  PROVE  /\ CreateTable(p) => mu = NoSession /\ Slot' = Slot
         /\ CreateWrite(p) => Slot' = Slot + 1
         /\ CreateExists(p) \/ GetTable(p) \/ (\E n \in Names : Ask(p, n)) => Slot' = Slot
<1> USE CatalogAssumption
<1>0. nextCatalogZ \in Nat
  BY DEF TypeOK, Zs
<1>1. ASSUME CreateTable(p) PROVE mu = NoSession /\ Slot' = Slot
  BY <1>0, <1>1 DEF CreateTable, MuFree, Slot
<1>2. ASSUME CreateWrite(p) PROVE Slot' = Slot + 1
  <2>1. Slot = nextCatalogZ - 1
    BY <1>2, StoredType DEF CreateWrite
  <2>2. Slot' = nextCatalogZ
    BY <1>2 DEF CreateWrite, Slot
  <2> QED
    BY <1>0, <2>1, <2>2
<1>3. ASSUME CreateExists(p) \/ GetTable(p) \/ (\E n \in Names : Ask(p, n))
      PROVE  Slot' = Slot
  BY <1>3 DEF CreateExists, GetTable, Ask, storage, Slot
<1> QED
  BY <1>1, <1>2, <1>3

\* Before the engine serves nobody holds the mutex or waits for it.
LEMMA Quiet ==
  ASSUME TypeOK, MutexInv, phase # "up"
  PROVE  mu = NoSession /\ Pending = {} /\ Cardinality(Pending) = 0
<1>1. mu = NoSession
  BY DEF TypeOK, MutexInv
<1>2. Pending = {}
  BY DEF MutexInv, Pending
<1> QED
  BY <1>1, <1>2, FS_EmptySet

\* Every step keeps the counts in order.
LEMMA BoundStep == IInv /\ [Next]_vars => BoundInv'
<1> SUFFICES ASSUME IInv, [Next]_vars PROVE BoundInv'
  OBVIOUS
<1> USE CatalogAssumption
<1>0. TypeOK /\ MutexInv /\ BoundInv
  BY DEF IInv
<1>a. /\ Cardinality(Pending) \in Nat /\ Slot \in Nat /\ nextTableID \in Nat
      /\ creates \in Nat /\ IsFiniteSet(Pending) /\ nextTableID >= 1
      /\ \A z \in Zs : barrel[z] # NoBarrel => barrel[z].id \in Nat
  <2>1. \A z \in Zs : barrel[z] # NoBarrel => barrel[z].id \in Nat
    BY <1>0, RowFields, EmptyType DEF TypeOK
  <2> QED
    BY <1>0, <2>1, Room, EmptyType DEF TypeOK, BoundInv
<1>1. ASSUME NEW p \in Sessions, NEW n \in Names, Ask(p, n) PROVE BoundInv'
  <2>1. Slot' = Slot /\ UNCHANGED <<barrel, nextTableID>>
    BY <1>0, <1>1, SlotMoves DEF Ask, storage
  <2>2. CASE pc' = [pc EXCEPT ![p] = "get"] /\ UNCHANGED creates
    <3>1. Pending' = Pending
      BY <1>0, <1>1, <2>2 DEF Ask, Pending, TypeOK
    <3> QED
      BY <1>0, <2>1, <2>2, <3>1 DEF BoundInv
  <2>3. CASE creates' = creates + 1 /\ pc' = [pc EXCEPT ![p] = "create"]
    <3>1. Pending' = Pending \cup {p} /\ p \notin Pending
      BY <1>0, <1>1, <2>3 DEF Ask, Pending, TypeOK
    <3>2. IsFiniteSet(Pending') /\ Cardinality(Pending') = Cardinality(Pending) + 1
      BY <1>0, <3>1, PendingJoin
    <3> QED
      BY <1>0, <1>a, <2>1, <2>3, <3>2 DEF BoundInv
  <2> QED
    BY <1>1, <2>2, <2>3 DEF Ask
<1>2. ASSUME NEW p \in Sessions, CreateTable(p) PROVE BoundInv'
  <2>1. Slot' = Slot /\ UNCHANGED <<barrel, nextTableID, creates>>
    BY <1>0, <1>2, SlotMoves DEF CreateTable, counters
  <2>2. Pending' = Pending
    BY <1>0, <1>2 DEF CreateTable, Pending, TypeOK
  <2> QED
    BY <1>0, <2>1, <2>2 DEF BoundInv
<1>3. ASSUME NEW p \in Sessions, CreateWrite(p) PROVE BoundInv'
  <2>1. Slot' = Slot + 1 /\ creates' = creates
    BY <1>0, <1>3, SlotMoves DEF CreateWrite
  <2>2. Pending' = Pending \ {p} /\ p \in Pending
    BY <1>0, <1>3 DEF CreateWrite, Pending, TypeOK
  <2>3. /\ IsFiniteSet(Pending') /\ Cardinality(Pending') \in Nat
        /\ Cardinality(Pending) = Cardinality(Pending') + 1
    BY <1>0, <2>2, PendingLeave
  <2>4. nextTableID' = nextTableID \/ nextTableID' = nextTableID + 1
    BY <1>3 DEF CreateWrite, NextTableID
  <2>5. ASSUME NEW z \in Zs, barrel'[z] # NoBarrel
        PROVE  barrel'[z].id >= 1 /\ barrel'[z].id + Cardinality(Pending') <= creates
    <3>1. barrel'[z] = barrel[z] \/ barrel'[z] = [id |-> nextTableID, name |-> want[p]]
      BY <1>0, <1>3, StoredType DEF CreateWrite, TypeOK
    <3>2. CASE barrel'[z] = barrel[z]
      BY <1>0, <1>a, <2>3, <2>5, <3>2 DEF BoundInv
    <3>3. CASE barrel'[z] = [id |-> nextTableID, name |-> want[p]]
      BY <1>0, <1>a, <2>3, <3>3 DEF BoundInv
    <3> QED
      BY <3>1, <3>2, <3>3
  <2> QED
    BY <1>0, <1>a, <2>1, <2>3, <2>4, <2>5 DEF BoundInv
<1>4. ASSUME NEW p \in Sessions, CreateExists(p) PROVE BoundInv'
  <2>1. Slot' = Slot /\ UNCHANGED <<barrel, nextTableID, creates>>
    BY <1>0, <1>4, SlotMoves DEF CreateExists, storage, counters
  <2>2. Pending' = Pending \ {p} /\ p \in Pending
    BY <1>0, <1>4 DEF CreateExists, Pending, TypeOK
  <2>3. /\ IsFiniteSet(Pending') /\ Cardinality(Pending') \in Nat
        /\ Cardinality(Pending) = Cardinality(Pending') + 1
    BY <1>0, <2>2, PendingLeave
  <2> QED
    BY <1>0, <1>a, <2>1, <2>3 DEF BoundInv
<1>5. ASSUME NEW p \in Sessions, GetTable(p) PROVE BoundInv'
  <2>1. Slot' = Slot /\ UNCHANGED <<barrel, nextTableID, creates>>
    BY <1>0, <1>5, SlotMoves DEF GetTable, storage, counters
  <2>2. Pending' = Pending
    BY <1>0, <1>5 DEF GetTable, Pending, TypeOK
  <2> QED
    BY <1>0, <2>1, <2>2 DEF BoundInv
<1>6. ASSUME Volatile, creates' = creates,
             barrel' = barrel \/ \E p \in Sessions : pc[p] = "write" /\ barrel' = Stored(p)
      PROVE  BoundInv'
  <2>1. Pending' = {} /\ Slot' = 0 /\ nextTableID' = 1
    BY <1>6 DEF Volatile, Pending, Slot
  <2>2. IsFiniteSet(Pending') /\ Cardinality(Pending') = 0
    BY <2>1, FS_EmptySet
  <2>3. ASSUME NEW z \in Zs, barrel'[z] # NoBarrel
        PROVE  barrel'[z].id >= 1 /\ barrel'[z].id <= creates
    <3>1. CASE barrel'[z] = barrel[z]
      BY <1>0, <1>a, <2>3, <3>1 DEF BoundInv
    <3>2. CASE barrel'[z] # barrel[z]
      <4>1. PICK p \in Sessions : pc[p] = "write" /\ barrel' = Stored(p)
        BY <1>6, <3>2
      <4>2. barrel'[z] = [id |-> nextTableID, name |-> want[p]]
        BY <1>0, <3>2, <4>1, StoredType DEF TypeOK
      <4>3. Cardinality(Pending) >= 1
        BY <1>0, <4>1, Room DEF Pending
      <4> QED
        BY <1>0, <1>a, <4>2, <4>3 DEF BoundInv
    <3> QED
      BY <3>1, <3>2
  <2>4. MaxCatalogZ \in Nat
    OBVIOUS
  <2>5. \A z \in Zs : barrel'[z] # NoBarrel =>
          barrel'[z].id >= 1 /\ barrel'[z].id + Cardinality(Pending') <= creates'
    <3> TAKE z \in Zs
    <3> HAVE barrel'[z] # NoBarrel
    <3>1. barrel'[z].id >= 1 /\ barrel'[z].id <= creates
      BY <2>3
    <3>2. barrel'[z].id \in Nat
      <4>1. barrel'[z] \in Barrels
        BY TypeStep DEF TypeOK
      <4> QED
        BY <4>1, RowFields, EmptyType
    <3> QED
      BY <1>6, <2>2, <3>1, <3>2
  <2> QED
    BY <1>6, <1>a, <2>1, <2>2, <2>4, <2>5 DEF BoundInv
<1>7. CASE LoadEntry
  <2>1. UNCHANGED <<barrel, creates, pc, mu, nextCatalogZ>>
    BY <1>7 DEF LoadEntry, sessions, counters
  <2>2. Pending' = Pending /\ Slot' = Slot
    BY <2>1 DEF Pending, Slot
  <2>3. loadAt \in Zs /\ barrel[loadAt] # NoBarrel
    BY <1>0, <1>7 DEF LoadEntry, TypeOK, Zs
  <2>4. nextTableID' = nextTableID \/ nextTableID' = barrel[loadAt].id + 1
    BY <1>7 DEF LoadEntry
  <2>5. nextTableID' >= 1 /\ nextTableID' + Cardinality(Pending) <= creates + 1
    BY <1>0, <1>a, <2>3, <2>4 DEF BoundInv
  <2> QED
    BY <1>0, <2>1, <2>2, <2>5 DEF BoundInv
<1>8. CASE LoadEnd
  <2>1. UNCHANGED <<barrel, creates, pc, mu, nextTableID>> /\ phase = "load"
    BY <1>8 DEF LoadEnd, sessions, counters
  <2>2. mu = NoSession /\ Cardinality(Pending) = 0
    BY <1>0, <2>1, Quiet
  <2>3. Pending' = Pending
    BY <2>1 DEF Pending
  <2>4. Slot' = loadAt /\ loadAt \in 0 .. MaxCatalogZ
    BY <1>0, <1>8, <2>1, <2>2 DEF LoadEnd, LastZ, Slot, TypeOK
  <2> QED
    BY <1>0, <1>a, <2>1, <2>2, <2>3, <2>4 DEF BoundInv
<1>9. CASE UNCHANGED <<barrel, nextCatalogZ, nextTableID, mu, pc, creates>>
  <2>1. Pending' = Pending /\ Slot' = Slot
    BY <1>9 DEF Pending, Slot
  <2> QED
    BY <1>0, <1>9, <2>1 DEF BoundInv
<1> QED
  BY <1>1, <1>2, <1>3, <1>4, <1>5, <1>6, <1>7, <1>8, <1>9
  DEF Next, Locked, Load, LoadFails, Crash, Restart, vars, storage, sessions, counters


-----------------------------------------------------------------------------
(* What the barrels and the map say of each other.                         *)

\* What the write of a session at "write" comes to: the barrel in turn gets
\* the row or stays as it was, and no other barrel changes.
LEMMA WriteEffect ==
  ASSUME TypeOK, MutexInv, BoundInv, NEW p \in Sessions, pc[p] = "write",
         barrel' = barrel \/ barrel' = Stored(p)
  PROVE  /\ Slot \in Zs /\ Slot \in Nat
         /\ \A z \in Zs : z # Slot => barrel'[z] = barrel[z]
         /\ \/ barrel' = barrel
            \/ barrel'[Slot] = [id |-> nextTableID, name |-> want[p]]
         /\ [id |-> nextTableID, name |-> want[p]] # NoBarrel
         /\ phase = "up" /\ Upto = Slot /\ want[p] \in Names /\ tables[want[p]] = 0
         /\ nextTableID \in Nat /\ nextTableID >= 1
<1>1. barrel \in [Zs -> Barrels]
  BY DEF TypeOK
<1>2. phase = "up" /\ tables[want[p]] = 0 /\ want[p] \in Names
  BY DEF MutexInv, TypeOK
<1>3. /\ Stored(p) = [barrel EXCEPT ![Slot] = [id |-> nextTableID, name |-> want[p]]]
      /\ Slot \in Zs /\ [id |-> nextTableID, name |-> want[p]] # NoBarrel
  BY StoredType
<1>4. Slot \in Nat /\ nextTableID \in Nat /\ nextTableID >= 1 /\ Upto = Slot
  BY <1>2, <1>3, Numbers DEF TypeOK, BoundInv, Upto
<1>5. \A z \in Zs : z # Slot => barrel'[z] = barrel[z]
  BY <1>1, <1>3
<1>6. barrel' = barrel \/ barrel'[Slot] = [id |-> nextTableID, name |-> want[p]]
  BY <1>1, <1>3
<1> QED
  BY <1>2, <1>3, <1>4, <1>5, <1>6

\* An acknowledged CREATE TABLE has stored its row and is in the map; any
\* other leaves the map and the IDs alone, and its write may have happened.
LEMMA WriteOutcome ==
  ASSUME TypeOK, MutexInv, BoundInv, NEW p \in Sessions, CreateWrite(p)
  PROVE  /\ barrel' = barrel \/ barrel' = Stored(p)
         /\ phase' = phase
         /\ \/ /\ barrel' = Stored(p) /\ failed' = failed
               /\ tables' = [tables EXCEPT ![want[p]] = nextTableID]
               /\ acked' = [acked EXCEPT ![want[p]] = nextTableID]
               /\ nextTableID' = nextTableID + 1
            \/ failed' = TRUE /\ UNCHANGED <<tables, nextTableID, acked>>
<1>1. entry[p].id = nextTableID
  BY DEF CreateWrite, MutexInv
<1>2. PICK o \in Outcomes :
        /\ barrel' = IF o = "refused" THEN barrel ELSE Stored(p)
        /\ \/ /\ Registered(o)
              /\ tables' = [tables EXCEPT ![want[p]] = entry[p].id]
              /\ nextTableID' = NextTableID(nextTableID)
              /\ acked' = [acked EXCEPT ![want[p]] = entry[p].id]
           \/ ~Registered(o) /\ UNCHANGED <<tables, nextTableID, acked>>
        /\ failed' = (failed \/ o # "ok")
  BY DEF CreateWrite
<1>3. phase' = phase /\ failed \in BOOLEAN
  BY DEF CreateWrite, TypeOK
<1>4. CASE o = "ok"
  BY <1>1, <1>2, <1>3, <1>4 DEF Registered, NextTableID
<1>5. CASE o # "ok"
  BY <1>2, <1>3, <1>5 DEF Registered
<1> QED
  BY <1>4, <1>5

\* The steps that leave the barrels, the map and the IDs alone.
LEMMA Unmoved ==
  ASSUME TypeOK, MutexInv, BoundInv, NEW p \in Sessions,
         CreateTable(p) \/ CreateExists(p) \/ GetTable(p) \/ (\E n \in Names : Ask(p, n))
  PROVE  /\ UNCHANGED <<barrel, phase, tables, nextTableID, loadAt, crashes, acked, failed>>
         /\ Slot' = Slot /\ Upto' = Upto /\ creates' \in {creates, creates + 1}
<1>1. /\ UNCHANGED <<barrel, phase, tables, nextTableID, loadAt, crashes, acked, failed>>
      /\ creates' \in {creates, creates + 1}
  BY DEF CreateTable, CreateExists, GetTable, Ask, storage, counters
<1>2. Slot' = Slot
  BY SlotMoves
<1> QED
  BY <1>1, <1>2 DEF Upto

\* What the loop of LoadCatalog has read so far.
LEMMA LoadTurn ==
  ASSUME TypeOK, MutexInv, BoundInv, LoadEntry
  PROVE  /\ loadAt \in Zs /\ loadAt \in Nat /\ barrel[loadAt].name \in Names
         /\ barrel[loadAt] = [id |-> barrel[loadAt].id, name |-> barrel[loadAt].name]
         /\ barrel[loadAt].id \in Nat /\ barrel[loadAt].id >= 1
         /\ barrel[loadAt] # NoBarrel
         /\ tables' = [tables EXCEPT ![barrel[loadAt].name] = barrel[loadAt].id]
         /\ UNCHANGED <<barrel, phase, crashes, acked, failed, creates, mu, nextCatalogZ>>
         /\ phase = "load" /\ Upto = loadAt /\ Upto' = loadAt + 1
<1>1. loadAt \in Zs /\ loadAt \in Nat /\ barrel[loadAt] # NoBarrel
  BY CatalogAssumption DEF LoadEntry, TypeOK, Zs
<1>2. barrel[loadAt] \in Barrels
  BY <1>1 DEF TypeOK
<1>3. barrel[loadAt].id \in IDs /\ barrel[loadAt].name \in Names
      /\ barrel[loadAt] = [id |-> barrel[loadAt].id, name |-> barrel[loadAt].name]
  BY <1>1, <1>2, RowFields
<1>4. barrel[loadAt].id >= 1
  BY <1>1 DEF BoundInv
<1>5. /\ UNCHANGED <<barrel, phase, crashes, acked, failed, creates, mu, nextCatalogZ>>
      /\ phase = "load" /\ Upto = loadAt /\ Upto' = loadAt + 1
      /\ tables' = [tables EXCEPT ![barrel[loadAt].name] = barrel[loadAt].id]
  BY DEF LoadEntry, sessions, counters, Upto
<1> QED
  BY <1>1, <1>3, <1>4, <1>5, EmptyType

\* The end of the loop changes the phase and nextCatalogZ only.
LEMMA LoadOver ==
  ASSUME TypeOK, MutexInv, BoundInv, LoadEnd
  PROVE  /\ UNCHANGED <<barrel, tables, nextTableID, crashes, acked, failed, creates>>
         /\ phase = "load" /\ phase' = "up" /\ Slot' = loadAt /\ Upto' = Upto
         /\ Upto = loadAt
<1>1. mu = NoSession
  BY Quiet DEF LoadEnd
<1> QED
  BY <1>1 DEF LoadEnd, sessions, counters, Slot, Upto, LastZ

\* A new Storage knows nothing and counts from the start.
LEMMA Fresh ==
  ASSUME Volatile, phase' = "down"
  PROVE  tables' = NoTables /\ nextTableID' = 1 /\ Upto' = 0 /\ Slot' = 0
BY DEF Volatile, Upto, Slot

\* The initial map has no table.
LEMMA NoTablesEmpty == \A n \in Names : NoTables[n] = 0
BY DEF NoTables

\* Every table of the map keeps its row.
LEMMA KnownStep == IInv /\ [Next]_vars => KnownInv'
<1> SUFFICES ASSUME IInv, [Next]_vars PROVE KnownInv'
  OBVIOUS
<1>0. TypeOK /\ MutexInv /\ BoundInv /\ KnownInv /\ tables \in [Names -> IDs]
      /\ barrel \in [Zs -> Barrels]
  BY DEF IInv, TypeOK
<1>1. ASSUME NEW p \in Sessions,
             CreateTable(p) \/ CreateExists(p) \/ GetTable(p) \/ (\E n \in Names : Ask(p, n))
      PROVE  KnownInv'
  BY <1>0, <1>1, Unmoved DEF KnownInv
<1>2. ASSUME NEW p \in Sessions, CreateWrite(p) PROVE KnownInv'
  <2>1. pc[p] = "write" /\ Slot' = Slot + 1 /\ phase' = "up" /\ phase = "up"
    BY <1>0, <1>2, SlotMoves DEF CreateWrite, MutexInv
  <2>2. Upto = Slot /\ Upto' = Slot + 1 /\ Slot \in Nat /\ Slot \in Zs
    BY <1>0, <2>1, Room, EmptyType DEF Upto
  <2>3. \A z \in Zs : z # Slot => barrel'[z] = barrel[z]
    BY <1>0, <1>2, <2>1, WriteEffect, WriteOutcome
  <2>4. ASSUME NEW n \in Names, tables'[n] # 0
        PROVE  \E z \in Zs : z < Upto' /\ barrel'[z] = [id |-> tables'[n], name |-> n]
    <3>1. CASE tables'[n] = tables[n]
      <4>1. PICK z \in Zs : z < Slot /\ barrel[z] = [id |-> tables[n], name |-> n]
        BY <1>0, <2>2, <2>4, <3>1 DEF KnownInv
      <4>2. z < Upto' /\ barrel'[z] = barrel[z]
        BY <2>2, <2>3, <4>1, EmptyType
      <4> QED
        BY <3>1, <4>1, <4>2
    <3>2. CASE tables'[n] # tables[n]
      <4>1. /\ barrel' = Stored(p) /\ n = want[p]
            /\ tables' = [tables EXCEPT ![want[p]] = nextTableID]
        BY <1>0, <1>2, <3>2, WriteOutcome
      <4>2. barrel'[Slot] = [id |-> nextTableID, name |-> want[p]] /\ tables'[n] = nextTableID
        BY <1>0, <2>1, <2>2, <4>1, StoredType
      <4> QED
        BY <2>2, <4>1, <4>2
    <3> QED
      BY <3>1, <3>2
  <2> QED
    BY <2>4 DEF KnownInv
<1>3. ASSUME Volatile, phase' = "down" PROVE KnownInv'
  BY <1>3, Fresh, NoTablesEmpty DEF KnownInv
<1>4. CASE LoadEntry
  <2> DEFINE b == barrel[loadAt]
  <2>1. /\ loadAt \in Zs /\ loadAt \in Nat /\ b.name \in Names
        /\ b = [id |-> b.id, name |-> b.name]
        /\ tables' = [tables EXCEPT ![b.name] = b.id] /\ barrel' = barrel
        /\ Upto = loadAt /\ Upto' = loadAt + 1
    BY <1>0, <1>4, LoadTurn
  <2> HIDE DEF b
  <2>2. ASSUME NEW n \in Names, tables'[n] # 0
        PROVE  \E z \in Zs : z < Upto' /\ barrel'[z] = [id |-> tables'[n], name |-> n]
    <3>1. CASE n = b.name
      <4>1. tables'[n] = b.id /\ loadAt < Upto' /\ barrel'[loadAt] = b
        BY <1>0, <2>1, <3>1 DEF b
      <4> QED
        BY <2>1, <3>1, <4>1
    <3>2. CASE n # b.name
      <4>1. tables'[n] = tables[n]
        BY <1>0, <2>1, <3>2
      <4>2. PICK z \in Zs : z < Upto /\ barrel[z] = [id |-> tables[n], name |-> n]
        BY <1>0, <2>2, <4>1 DEF KnownInv
      <4>3. z < Upto'
        BY <2>1, <4>2, EmptyType
      <4> QED
        BY <2>1, <4>1, <4>2, <4>3
    <3> QED
      BY <3>1, <3>2
  <2> QED
    BY <2>2 DEF KnownInv
<1>5. CASE LoadEnd
  BY <1>0, <1>5, LoadOver DEF KnownInv
<1>6. CASE Restart
  BY <1>0, <1>6 DEF Restart, storage, sessions, Upto, Slot, KnownInv
<1>7. CASE UNCHANGED vars
  BY <1>0, <1>7 DEF vars, storage, sessions, Upto, Slot, KnownInv
<1> QED
  BY <1>1, <1>2, <1>3, <1>4, <1>5, <1>6, <1>7
  DEF Next, Locked, Load, LoadFails, Crash

\* Without a failed write, IDs and barrels stay in step.
LEMMA InStepStep == IInv /\ [Next]_vars => InStepInv'
<1> SUFFICES ASSUME IInv, [Next]_vars, ~failed' PROVE InStepInv'
  BY DEF InStepInv
<1>0. TypeOK /\ MutexInv /\ BoundInv /\ InStepInv /\ barrel \in [Zs -> Barrels]
  BY DEF IInv, TypeOK
<1>1. ASSUME NEW p \in Sessions,
             CreateTable(p) \/ CreateExists(p) \/ GetTable(p) \/ (\E n \in Names : Ask(p, n))
      PROVE  InStepInv'
  BY <1>0, <1>1, Unmoved DEF InStepInv
<1>2. ASSUME NEW p \in Sessions, CreateWrite(p) PROVE InStepInv'
  <2>1. pc[p] = "write" /\ Slot' = Slot + 1 /\ phase' = "up" /\ phase = "up"
    BY <1>0, <1>2, SlotMoves DEF CreateWrite, MutexInv
  <2>2. Upto = Slot /\ Upto' = Slot + 1 /\ Slot \in Nat /\ Slot \in Zs
    BY <1>0, <2>1, Room, EmptyType DEF Upto
  <2>3. barrel' = Stored(p) /\ ~failed /\ nextTableID' = nextTableID + 1
    BY <1>0, <1>2, WriteOutcome
  <2>4. nextTableID = Slot + 1 /\ nextTableID' = Upto' + 1
    BY <1>0, <2>2, <2>3 DEF InStepInv
  <2>5. barrel'[Slot] = [id |-> nextTableID, name |-> want[p]]
    BY <1>0, <2>1, <2>2, <2>3, StoredType
  <2>6. \A z \in Zs : z # Slot => barrel'[z] = barrel[z]
    BY <1>0, <2>1, <2>3, WriteEffect
  <2> QED
    BY <1>0, <2>3, <2>4, <2>5, <2>6 DEF InStepInv
<1>3. ASSUME Volatile, phase' = "down", failed' = failed,
             barrel' = barrel \/ \E p \in Sessions : pc[p] = "write" /\ barrel' = Stored(p)
      PROVE  InStepInv'
  <2>1. nextTableID' = Upto' + 1 /\ ~failed
    BY <1>3, Fresh
  <2>2. CASE barrel' = barrel
    BY <1>0, <2>1, <2>2 DEF InStepInv
  <2>3. ASSUME NEW p \in Sessions, pc[p] = "write", barrel' = Stored(p)
        PROVE  InStepInv'
    <3>1. /\ \A z \in Zs : z # Slot => barrel'[z] = barrel[z]
          /\ Upto = Slot /\ Slot \in Zs
      BY <1>0, <2>3, WriteEffect
    <3>2. barrel'[Slot] = [id |-> nextTableID, name |-> want[p]]
      BY <1>0, <2>3, <3>1, StoredType
    <3> QED
      BY <1>0, <2>1, <3>1, <3>2 DEF InStepInv
  <2> QED
    BY <1>3, <2>2, <2>3
<1>4. CASE LoadEntry
  <2>1. /\ loadAt \in Zs /\ loadAt \in Nat /\ barrel[loadAt] # NoBarrel
        /\ barrel' = barrel /\ failed' = failed /\ Upto = loadAt /\ Upto' = loadAt + 1
    BY <1>0, <1>4, LoadTurn
  <2>2. barrel[loadAt].id = loadAt + 1 /\ nextTableID = loadAt + 1
    BY <1>0, <2>1 DEF InStepInv
  <2>3. nextTableID' = loadAt + 2
    BY <1>4, <2>1, <2>2 DEF LoadEntry
  <2> QED
    BY <1>0, <2>1, <2>3 DEF InStepInv
<1>5. CASE LoadEnd
  BY <1>0, <1>5, LoadOver DEF InStepInv
<1>6. CASE Restart
  BY <1>0, <1>6 DEF Restart, storage, sessions, Upto, Slot, InStepInv
<1>7. CASE UNCHANGED vars
  BY <1>0, <1>7 DEF vars, storage, sessions, Upto, Slot, InStepInv
<1> QED
  BY <1>1, <1>2, <1>3, <1>4, <1>5, <1>6, <1>7
  DEF Next, Locked, Load, LoadFails, Crash


\* The first process never gives an ID twice.
LEMMA FirstStep == IInv /\ [Next]_vars => FirstInv'
<1> SUFFICES ASSUME IInv, [Next]_vars, crashes' = 0 PROVE FirstInv'
  BY DEF FirstInv
<1>0. /\ TypeOK /\ MutexInv /\ BoundInv /\ FirstInv /\ KnownInv
      /\ tables \in [Names -> IDs] /\ nextTableID \in Nat
      /\ \A n \in Names : tables[n] \in Nat
  BY EmptyType DEF IInv, TypeOK
<1>1. ASSUME NEW p \in Sessions,
             CreateTable(p) \/ CreateExists(p) \/ GetTable(p) \/ (\E n \in Names : Ask(p, n))
      PROVE  FirstInv'
  BY <1>0, <1>1, Unmoved DEF FirstInv
<1>2. ASSUME NEW p \in Sessions, CreateWrite(p) PROVE FirstInv'
  <2>1. phase' = "up" /\ crashes = 0 /\ want[p] \in Names
    BY <1>0, <1>2 DEF CreateWrite, MutexInv, TypeOK
  <2>2. CASE /\ tables' = [tables EXCEPT ![want[p]] = nextTableID]
             /\ nextTableID' = nextTableID + 1
    <3>1. \A n \in Names : tables[n] < nextTableID
      BY <1>0, <2>1 DEF FirstInv
    <3> QED
      BY <1>0, <2>1, <2>2, <3>1 DEF FirstInv
  <2>3. CASE UNCHANGED <<tables, nextTableID>>
    BY <1>0, <2>1, <2>3 DEF FirstInv
  <2> QED
    BY <1>0, <1>2, <2>2, <2>3, WriteOutcome
<1>3. CASE LoadFails
  <2>1. crashes = 0 /\ barrel' = barrel /\ phase = "load" /\ tables' = NoTables
        /\ nextTableID' = 1
    BY <1>3, Fresh DEF LoadFails
  <2> QED
    BY <1>0, <2>1, NoTablesEmpty DEF FirstInv
<1>4. ~Crash
  BY CatalogAssumption DEF Crash, IInv, TypeOK
<1>5. ~LoadEntry
  <2> SUFFICES ASSUME LoadEntry PROVE FALSE
    OBVIOUS
  <2>1. loadAt \in Zs /\ barrel[loadAt] # NoBarrel /\ phase = "load" /\ crashes = 0
    BY <1>0, LoadTurn
  <2> QED
    BY <1>0, <2>1 DEF FirstInv
<1>6. CASE LoadEnd
  BY <1>0, <1>6, LoadOver DEF FirstInv
<1>7. CASE Restart
  BY <1>0, <1>7 DEF Restart, storage, counters, FirstInv
<1>8. CASE UNCHANGED vars
  BY <1>0, <1>8 DEF vars, storage, counters, FirstInv
<1> QED
  BY <1>1, <1>2, <1>3, <1>4, <1>5, <1>6, <1>7, <1>8 DEF Next, Locked, Load

\* A row written to the barrel in turn extends the rows without gap or double
\* name, and leaves those of acknowledged tables where they were.
LEMMA RowAdded ==
  ASSUME TypeOK, MutexInv, BoundInv, InStepInv, RowsInv, ~failed, creates <= MaxCatalogZ,
         NEW p \in Sessions, pc[p] = "write", barrel' = Stored(p)
  PROVE  /\ \A y, z \in Zs : y < z /\ barrel'[z] # NoBarrel => barrel'[y] # NoBarrel
         /\ \A y, z \in Zs : barrel'[y] # NoBarrel /\ barrel'[z] # NoBarrel
                               /\ barrel'[y].name = barrel'[z].name => y = z
         /\ \A z \in Zs : barrel'[z] # NoBarrel => z < Slot + 1
         /\ \A z \in Zs : z < Slot =>
              /\ barrel'[z] = barrel[z] /\ barrel'[z] # NoBarrel
              /\ tables[barrel'[z].name] = barrel'[z].id
              /\ barrel'[z].name \in Names /\ barrel'[z].name # want[p]
         /\ \A n \in Names : acked[n] # 0 =>
              \E z \in Zs : z < Slot /\ barrel'[z] = [id |-> acked[n], name |-> n]
<1>1. /\ Slot \in Zs /\ Slot \in Nat /\ phase = "up" /\ Upto = Slot
      /\ \A z \in Zs : z # Slot => barrel'[z] = barrel[z]
      /\ [id |-> nextTableID, name |-> want[p]] # NoBarrel
      /\ tables[want[p]] = 0
  BY WriteEffect
<1>2. barrel'[Slot] = [id |-> nextTableID, name |-> want[p]]
  BY <1>1, StoredType DEF TypeOK
<1>3. \A z \in Zs : barrel[z] # NoBarrel => z < Slot
  BY <1>1 DEF RowsInv
<1>4. \A z \in Zs : z < Slot =>
        barrel[z] # NoBarrel /\ tables[barrel[z].name] = barrel[z].id
  BY <1>1 DEF RowsInv
<1>5. \A z \in Zs : z \in Nat
  BY EmptyType
<1>6. ASSUME NEW z \in Zs, z < Slot
      PROVE  /\ barrel'[z] = barrel[z] /\ barrel'[z] # NoBarrel
             /\ tables[barrel'[z].name] = barrel'[z].id
             /\ barrel'[z].name \in Names /\ barrel'[z].name # want[p]
  <2>0. z # Slot
    BY <1>1, <1>5, <1>6
  <2>1. barrel'[z] = barrel[z] /\ barrel[z] # NoBarrel
    BY <1>1, <1>4, <1>6, <2>0
  <2>2. barrel[z].name \in Names /\ barrel[z].id >= 1
    BY <2>1, RowFields DEF TypeOK, BoundInv
  <2>3. tables[barrel[z].name] = barrel[z].id
    BY <1>4, <1>6
  <2>4. barrel[z].name # want[p]
    BY <1>1, <2>2, <2>3
  <2> QED
    BY <2>1, <2>2, <2>3, <2>4
<1>7. \A z \in Zs : barrel'[z] # NoBarrel => z < Slot \/ z = Slot
  BY <1>1, <1>3
<1>8. \A y, z \in Zs : y < z /\ barrel'[z] # NoBarrel => barrel'[y] # NoBarrel
  BY <1>1, <1>5, <1>6, <1>7
<1>9. ASSUME NEW y \in Zs, NEW z \in Zs, barrel'[y] # NoBarrel, barrel'[z] # NoBarrel,
             barrel'[y].name = barrel'[z].name
      PROVE  y = z
  <2>1. CASE y < Slot /\ z < Slot
    <3>1. barrel[y] # NoBarrel /\ barrel[z] # NoBarrel /\ barrel[y].name = barrel[z].name
      BY <1>6, <1>9, <2>1
    <3> QED
      BY <3>1 DEF RowsInv
  <2>2. CASE y = Slot /\ z < Slot
    BY <1>2, <1>6, <1>9, <2>2
  <2>3. CASE y < Slot /\ z = Slot
    BY <1>2, <1>6, <1>9, <2>3
  <2> QED
    BY <1>7, <1>9, <2>1, <2>2, <2>3
<1>10. ASSUME NEW n \in Names, acked[n] # 0
       PROVE  \E z \in Zs : z < Slot /\ barrel'[z] = [id |-> acked[n], name |-> n]
  <2>1. PICK z \in Zs : barrel[z] = [id |-> acked[n], name |-> n]
    BY <1>10 DEF RowsInv
  <2>2. barrel[z] # NoBarrel
    BY <1>10, <2>1, RowType DEF TypeOK
  <2>3. z < Slot
    BY <1>3, <2>2
  <2> QED
    BY <1>6, <2>1, <2>3
<1>11. ASSUME NEW z \in Zs, barrel'[z] # NoBarrel PROVE z < Slot + 1
  <2>1. z < Slot \/ z = Slot
    BY <1>7, <1>11
  <2>2. z \in Int /\ Slot \in Int
    BY <1>1, <1>5
  <2> QED
    BY <2>1, <2>2
<1> QED
  BY <1>6, <1>8, <1>9, <1>10, <1>11

\* The map agrees with the rows it has reached, and loses none.
LEMMA RowsStep == IInv /\ [Next]_vars => RowsInv'
<1> SUFFICES ASSUME IInv, [Next]_vars, ~failed', creates' <= MaxCatalogZ PROVE RowsInv'
  BY DEF RowsInv
<1>0. /\ TypeOK /\ MutexInv /\ BoundInv /\ InStepInv /\ RowsInv
      /\ tables \in [Names -> IDs] /\ acked \in [Names -> IDs]
      /\ barrel \in [Zs -> Barrels] /\ creates \in Nat /\ MaxCatalogZ \in Nat
  BY CatalogAssumption DEF IInv, TypeOK
<1>1. ASSUME NEW p \in Sessions,
             CreateTable(p) \/ CreateExists(p) \/ GetTable(p) \/ (\E n \in Names : Ask(p, n))
      PROVE  RowsInv'
  <2>1. /\ UNCHANGED <<barrel, phase, tables, acked, failed>> /\ Slot' = Slot /\ Upto' = Upto
        /\ creates' \in {creates, creates + 1}
    BY <1>0, <1>1, Unmoved
  <2>2. creates <= MaxCatalogZ
    BY <1>0, <2>1
  <2> QED
    BY <1>0, <2>1, <2>2 DEF RowsInv
<1>2. ASSUME NEW p \in Sessions, CreateWrite(p) PROVE RowsInv'
  <2>1. pc[p] = "write" /\ Slot' = Slot + 1 /\ phase' = "up" /\ phase = "up"
        /\ creates' = creates
    BY <1>0, <1>2, SlotMoves DEF CreateWrite, MutexInv
  <2>2. Upto' = Slot + 1 /\ Slot \in Nat /\ Slot \in Zs
    BY <1>0, <2>1, Room, EmptyType DEF Upto
  <2>3. /\ barrel' = Stored(p) /\ ~failed
        /\ tables' = [tables EXCEPT ![want[p]] = nextTableID]
        /\ acked' = [acked EXCEPT ![want[p]] = nextTableID]
    BY <1>0, <1>2, WriteOutcome
  <2>4. /\ \A y, z \in Zs : y < z /\ barrel'[z] # NoBarrel => barrel'[y] # NoBarrel
        /\ \A y, z \in Zs : barrel'[y] # NoBarrel /\ barrel'[z] # NoBarrel
                              /\ barrel'[y].name = barrel'[z].name => y = z
        /\ \A z \in Zs : barrel'[z] # NoBarrel => z < Slot + 1
        /\ \A z \in Zs : z < Slot =>
              /\ barrel'[z] # NoBarrel /\ tables[barrel'[z].name] = barrel'[z].id
              /\ barrel'[z].name \in Names /\ barrel'[z].name # want[p]
        /\ \A n \in Names : acked[n] # 0 =>
             \E z \in Zs : z < Slot /\ barrel'[z] = [id |-> acked[n], name |-> n]
    BY <1>0, <2>1, <2>3, RowAdded
  <2>5. /\ barrel'[Slot] = [id |-> nextTableID, name |-> want[p]]
        /\ [id |-> nextTableID, name |-> want[p]] # NoBarrel /\ want[p] \in Names
    BY <1>0, <2>1, <2>2, <2>3, StoredType DEF TypeOK
  <2>6. ASSUME NEW z \in Zs, z < Upto'
        PROVE  barrel'[z] # NoBarrel /\ tables'[barrel'[z].name] = barrel'[z].id
    <3>1. z < Slot \/ z = Slot
      BY <2>2, <2>6, EmptyType
    <3>2. CASE z < Slot
      BY <1>0, <2>3, <2>4, <3>2
    <3>3. CASE z = Slot
      BY <1>0, <2>3, <2>5, <3>3
    <3> QED
      BY <3>1, <3>2, <3>3
  <2>7. ASSUME NEW n \in Names, acked'[n] # 0
        PROVE  \E z \in Zs : barrel'[z] = [id |-> acked'[n], name |-> n]
    <3>1. CASE n = want[p]
      BY <1>0, <2>2, <2>3, <2>5, <3>1
    <3>2. CASE n # want[p]
      BY <1>0, <2>3, <2>4, <2>7, <3>2
    <3> QED
      BY <3>1, <3>2
  <2> QED
    BY <2>1, <2>4, <2>6, <2>7 DEF RowsInv
<1>3. ASSUME Volatile, phase' = "down", UNCHANGED <<failed, acked, creates>>,
             barrel' = barrel \/ \E p \in Sessions : pc[p] = "write" /\ barrel' = Stored(p)
      PROVE  RowsInv'
  <2>1. Upto' = 0 /\ ~failed /\ creates <= MaxCatalogZ
    BY <1>3, Fresh
  <2>2. \A z \in Zs : ~(z < Upto')
    BY <2>1, EmptyType
  <2>3. CASE barrel' = barrel
    BY <1>0, <1>3, <2>1, <2>2, <2>3 DEF RowsInv
  <2>4. ASSUME NEW p \in Sessions, pc[p] = "write", barrel' = Stored(p)
        PROVE  RowsInv'
    <3>1. /\ \A y, z \in Zs : y < z /\ barrel'[z] # NoBarrel => barrel'[y] # NoBarrel
          /\ \A y, z \in Zs : barrel'[y] # NoBarrel /\ barrel'[z] # NoBarrel
                                /\ barrel'[y].name = barrel'[z].name => y = z
          /\ \A n \in Names : acked[n] # 0 =>
               \E z \in Zs : barrel'[z] = [id |-> acked[n], name |-> n]
      BY <1>0, <2>1, <2>4, RowAdded
    <3> QED
      BY <1>3, <2>2, <3>1 DEF RowsInv
  <2> QED
    BY <1>3, <2>3, <2>4
<1>4. CASE LoadEntry
  <2> DEFINE b == barrel[loadAt]
  <2>1. /\ loadAt \in Zs /\ loadAt \in Nat /\ b.name \in Names /\ b # NoBarrel
        /\ tables' = [tables EXCEPT ![b.name] = b.id]
        /\ UNCHANGED <<barrel, phase, acked, failed, creates>> /\ phase = "load"
        /\ Upto = loadAt /\ Upto' = loadAt + 1
    BY <1>0, <1>4, LoadTurn
  <2>2. ASSUME NEW z \in Zs, z < Upto'
        PROVE  barrel'[z] # NoBarrel /\ tables'[barrel'[z].name] = barrel'[z].id
    <3>1. z < loadAt \/ z = loadAt
      BY <2>1, <2>2, EmptyType
    <3>2. CASE z = loadAt
      BY <1>0, <2>1, <3>2
    <3>3. CASE z < loadAt
      <4>1. barrel[z] # NoBarrel /\ tables[barrel[z].name] = barrel[z].id
        BY <1>0, <2>1, <3>3 DEF RowsInv
      <4>2. z # loadAt /\ barrel[z].name \in Names
        BY <1>0, <2>1, <3>3, <4>1, EmptyType, RowFields
      <4>3. barrel[z].name # b.name
        BY <1>0, <2>1, <4>1, <4>2 DEF RowsInv
      <4> QED
        BY <1>0, <2>1, <4>1, <4>2, <4>3
    <3> QED
      BY <3>1, <3>2, <3>3
  <2> QED
    BY <1>0, <2>1, <2>2 DEF RowsInv
<1>5. CASE LoadEnd
  <2>1. /\ UNCHANGED <<barrel, tables, acked, failed, creates>> /\ Upto' = Upto
        /\ Slot' = loadAt /\ ~failed /\ creates <= MaxCatalogZ
    BY <1>0, <1>5, LoadOver
  <2>2. ASSUME NEW z \in Zs, barrel[z] # NoBarrel PROVE z < loadAt
    <3>1. z \in Nat /\ loadAt \in Nat /\ loadAt \in Zs
      BY <1>0, EmptyType, CatalogAssumption DEF TypeOK, Zs
    <3>2. CASE loadAt = MaxCatalogZ
      <4>1. Cardinality(Pending) \in Nat
        BY <1>0, Room
      <4>2. barrel[z].id = z + 1 /\ barrel[z].id + Cardinality(Pending) <= creates
        BY <1>0, <2>1, <2>2 DEF InStepInv, BoundInv
      <4> QED
        BY <1>0, <2>1, <3>1, <3>2, <4>1, <4>2
    <3>3. CASE barrel[loadAt] = NoBarrel
      BY <1>0, <2>1, <2>2, <3>1, <3>3 DEF RowsInv
    <3> QED
      BY <1>5, <3>2, <3>3 DEF LoadEnd
  <2> QED
    BY <1>0, <2>1, <2>2 DEF RowsInv
<1>6. CASE Restart
  BY <1>0, <1>6 DEF Restart, storage, sessions, counters, Upto, Slot, RowsInv
<1>7. CASE UNCHANGED vars
  BY <1>0, <1>7 DEF vars, storage, sessions, counters, Upto, Slot, RowsInv
<1> QED
  BY <1>1, <1>2, <1>3, <1>4, <1>5, <1>6, <1>7
  DEF Next, Locked, Load, LoadFails, Crash

-----------------------------------------------------------------------------
(* The theorems.                                                           *)

\* The inductive invariant holds in every reachable state.
LEMMA Invariant == Spec => []IInv
<1>1. IInv /\ [Next]_vars => IInv'
  BY TypeStep, MutexStep, BoundStep, KnownStep, InStepStep, FirstStep, RowsStep DEF IInv
<1> QED
  BY InitInv, <1>1, PTL DEF Spec

\* Every barrel that CreateTable and LoadCatalog address and every ID they
\* compute stays within the range the numbers of CREATE TABLEs allow.
THEOREM TypeCorrect == Spec => []TypeOK
<1>1. IInv => TypeOK
  BY DEF IInv
<1> QED
  BY Invariant, <1>1, PTL

\* Every table that a lookup can return has its catalog row in the world,
\* whatever other sessions, failed writes and crashes do.
THEOREM KnownIsStoredAlways == Spec => []KnownIsStored
<1>1. IInv => KnownIsStored
  BY DEF IInv, KnownInv, KnownIsStored
<1> QED
  BY Invariant, <1>1, PTL

\* No two tables get one ID: in the first process whatever its writes come to,
\* and over any number of restarts as long as no catalog write has failed.
THEOREM IdsUniqueAlways == Spec => []IdsUniqueUnlessFailed
<1>1. ASSUME IInv, crashes = 0 PROVE IdsUnique
  BY <1>1 DEF IInv, FirstInv, IdsUnique
<1>2. ASSUME IInv, ~failed PROVE IdsUnique
  <2> SUFFICES ASSUME NEW m \in Names, NEW n \in Names, m # n, tables[m] # 0,
                      tables[m] = tables[n]
               PROVE  FALSE
    BY DEF IdsUnique
  <2>1. PICK y \in Zs : barrel[y] = [id |-> tables[m], name |-> m]
    BY <1>2 DEF IInv, KnownInv
  <2>2. PICK z \in Zs : barrel[z] = [id |-> tables[n], name |-> n]
    BY <1>2 DEF IInv, KnownInv
  <2>3. barrel[y] # NoBarrel /\ barrel[z] # NoBarrel
    BY <1>2, <2>1, <2>2, RowType DEF IInv, TypeOK
  <2>4. tables[m] = y + 1 /\ tables[n] = z + 1
    BY <1>2, <2>1, <2>2, <2>3 DEF IInv, InStepInv
  <2>5. y = z
    <3>1. y + 1 = z + 1
      BY <2>4
    <3> QED
      BY <3>1, Numbers
  <2>6. barrel[y].name = m /\ barrel[z].name = n
    BY <2>1, <2>2
  <2> QED
    BY <2>5, <2>6
<1>3. IInv => IdsUniqueUnlessFailed
  BY <1>1, <1>2 DEF IdsUniqueUnlessFailed
<1> QED
  BY Invariant, <1>3, PTL

\* An acknowledged CREATE TABLE is known to every later process under its ID,
\* below LoadCatalog's limit and without a failed catalog write.
THEOREM AckedKnownAlways == Spec => []AckedKnown
<1>1. ASSUME IInv, phase = "up", ~failed, creates <= MaxCatalogZ, NEW n \in Names,
             acked[n] # 0
      PROVE  tables[n] = acked[n]
  <2>1. PICK z \in Zs : barrel[z] = [id |-> acked[n], name |-> n]
    BY <1>1 DEF IInv, RowsInv
  <2>2. barrel[z] # NoBarrel
    BY <1>1, <2>1, RowType DEF IInv, TypeOK
  <2>3. z < Upto
    BY <1>1, <2>2 DEF IInv, RowsInv, Upto
  <2>4. tables[barrel[z].name] = barrel[z].id
    BY <1>1, <2>3 DEF IInv, RowsInv
  <2> QED
    BY <2>1, <2>4
<1>2. IInv => AckedKnown
  BY <1>1 DEF AckedKnown
<1> QED
  BY Invariant, <1>2, PTL

=============================================================================
