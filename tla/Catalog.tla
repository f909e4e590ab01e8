------------------------------ MODULE Catalog ------------------------------
(***************************************************************************)
(* The table catalog of mineSQL: the barrels at Y=10 that describe the     *)
(* tables, and the in-memory map that LoadCatalog builds from them and     *)
(* CreateTable extends.                                                    *)
(*                                                                         *)
(* Source: CreateTable, LoadCatalog and parseCatalogRow of                 *)
(* internal/storage/storage.go, called by executeCreateTable and by main.  *)
(*                                                                         *)
(* Granularity: the goroutines of several sessions compete for Storage.mu. *)
(* CreateTable holds it across its only HAL call, so one CREATE TABLE is   *)
(* two steps, and the lookups of all other statements wait in between.     *)
(* LoadCatalog runs before the servers start; each turn of its loop is one *)
(* step.                                                                   *)
(*                                                                         *)
(* Data: a barrel holds the table's ID and name; the columns are left out. *)
(* The ID is what places the table in the world (ZStart).                  *)
(***************************************************************************)
EXTENDS Naturals, FiniteSets

CONSTANTS
  Sessions,     \* connection goroutines
  NoSession,    \* nobody, as the holder of Storage.mu
  Names,        \* table names that clients use
  MaxCatalogZ,  \* LoadCatalog reads this many barrels (1024 in the source)
  MaxCreates,   \* bound: CREATE TABLE statements that reach the catalog
  Faults,       \* kinds of HAL failure that may happen
  MaxFaults,    \* bound: failed HAL calls
  MaxCrashes    \* bound: process deaths

ASSUME CatalogAssumption ==
  /\ NoSession \notin Sessions
  /\ Names # {}
  /\ MaxCatalogZ \in Nat \ {0}
  /\ MaxCreates \in Nat
  /\ MaxFaults \in Nat
  /\ MaxCrashes \in Nat
  /\ Faults \subseteq {"refused", "noack"}

VARIABLES
  barrel,        \* barrel[z]: the catalog row at (0, 10, z)
  phase,         \* "down", "load", "up"
  tables,        \* Storage.tables: name -> ID, 0 for no such table
  nextCatalogZ,  \* Storage.nextCatalogZ
  nextTableID,   \* Storage.nextTableID
  loadAt,        \* LoadCatalog's loop variable
  mu,            \* the session that holds Storage.mu, or NoSession
  pc,            \* pc[p]: "idle", "create", "write", "get"
  want,          \* want[p]: the table that p's statement names
  entry,         \* entry[p]: CreateTable's catalogZ and id
  creates, faults, crashes,
  acked,         \* history: name -> ID of the acknowledged CREATE TABLEs
  failed         \* history: some CREATE TABLE's write was reported as failed

counters == <<creates, faults, crashes>>
sessions == <<mu, pc, want, entry>>
storage  == <<tables, nextCatalogZ, nextTableID, loadAt>>
vars == <<barrel, phase, storage, sessions, counters, acked, failed>>

Zs  == 0 .. (MaxCatalogZ + MaxCreates)
IDs == 0 .. (MaxCatalogZ + MaxCreates + 1)

NoBarrel == [id |-> 0]
Barrels  == {NoBarrel} \cup [id : IDs, name : Names]
NoTables == [n \in Names |-> 0]

Outcomes == {"ok"} \cup Faults

Hal(o) ==
  \/ o = "ok" /\ UNCHANGED faults
  \/ o # "ok" /\ faults < MaxFaults /\ faults' = faults + 1

-----------------------------------------------------------------------------
NextTableIDFar(n) == n + MaxCatalogZ + MaxCreates
NextTableID(n) == n + 1

NoEntry == [z |-> 0, id |-> 0]

MuFreeIgnored == TRUE
MuFree == mu = NoSession

\* The table enters the map only after an acknowledged write.
RegisteredAlways(o) == TRUE
Registered(o) == o = "ok"

\* A session's statement reaches CreateTable, or GetTable with which INSERT,
\* SELECT and DELETE begin, and asks for the mutex.
Ask(p, n) ==
  /\ phase = "up" /\ pc[p] = "idle"
  /\ want' = [want EXCEPT ![p] = n]
  /\ \/ pc' = [pc EXCEPT ![p] = "get"] /\ UNCHANGED creates
     \/ /\ creates < MaxCreates /\ creates' = creates + 1
        /\ pc' = [pc EXCEPT ![p] = "create"]
  /\ UNCHANGED <<barrel, phase, storage, mu, entry, faults, crashes, acked, failed>>

\* CreateTable up to its write: nextCatalogZ moves, nextTableID does not yet.
CreateTable(p) ==
  /\ pc[p] = "create" /\ MuFree /\ tables[want[p]] = 0
  /\ mu' = p
  /\ entry' = [entry EXCEPT ![p] = [z |-> nextCatalogZ, id |-> nextTableID]]
  /\ nextCatalogZ' = nextCatalogZ + 1
  /\ pc' = [pc EXCEPT ![p] = "write"]
  /\ UNCHANGED <<barrel, phase, tables, nextTableID, loadAt, want, counters, acked,
                 failed>>

Stored(p) == [barrel EXCEPT ![entry[p].z] = [id |-> entry[p].id, name |-> want[p]]]

\* The catalog write and the rest of CreateTable, under the same lock.
CreateWrite(p) ==
  /\ pc[p] = "write"
  /\ \E o \in Outcomes :
       /\ Hal(o)
       /\ barrel' = IF o = "refused" THEN barrel ELSE Stored(p)
       /\ \/ /\ Registered(o)
             /\ tables' = [tables EXCEPT ![want[p]] = entry[p].id]
             /\ nextTableID' = NextTableID(nextTableID)
             /\ acked' = [acked EXCEPT ![want[p]] = entry[p].id]
          \/ ~Registered(o) /\ UNCHANGED <<tables, nextTableID, acked>>
       /\ failed' = (failed \/ o # "ok")
  /\ mu' = NoSession
  /\ pc' = [pc EXCEPT ![p] = "idle"]
  /\ entry' = [entry EXCEPT ![p] = NoEntry]
  /\ UNCHANGED <<phase, nextCatalogZ, loadAt, want, creates, crashes>>

\* CreateTable's early return: "table already exists".
CreateExists(p) ==
  /\ pc[p] = "create" /\ MuFree /\ tables[want[p]] # 0
  /\ pc' = [pc EXCEPT ![p] = "idle"]
  /\ UNCHANGED <<barrel, phase, storage, mu, want, entry, counters, acked, failed>>

GetTableRetry(p) ==
  /\ pc[p] = "get" /\ MuFree
  /\ pc' = IF tables[want[p]] = 0 THEN pc ELSE [pc EXCEPT ![p] = "idle"]
  /\ UNCHANGED <<barrel, phase, storage, mu, want, entry, counters, acked, failed>>

\* GetTable: it only reads the map, under the mutex.
GetTable(p) ==
  /\ pc[p] = "get" /\ MuFree
  /\ pc' = [pc EXCEPT ![p] = "idle"]
  /\ UNCHANGED <<barrel, phase, storage, mu, want, entry, counters, acked, failed>>

-----------------------------------------------------------------------------
\* A new Storage.
Volatile ==
  /\ tables' = NoTables /\ nextCatalogZ' = 0 /\ nextTableID' = 1 /\ loadAt' = 0
  /\ mu' = NoSession
  /\ pc' = [p \in Sessions |-> "idle"]
  /\ want' = [p \in Sessions |-> CHOOSE n \in Names : TRUE]
  /\ entry' = [p \in Sessions |-> NoEntry]

\* LoadCatalog's read failed: log.Fatalf.
LoadFails ==
  /\ phase = "load" /\ loadAt < MaxCatalogZ
  /\ \E o \in Faults : Hal(o)
  /\ phase' = "down" /\ Volatile
  /\ UNCHANGED <<barrel, creates, crashes, acked, failed>>

\* One catalog row: the later of two rows with one name wins.  maxTableID is
\* folded into nextTableID, which nobody reads before the loop ends.
LoadEntry ==
  /\ phase = "load" /\ loadAt < MaxCatalogZ /\ barrel[loadAt] # NoBarrel
  /\ LET b == barrel[loadAt]
     IN  /\ tables' = [tables EXCEPT ![b.name] = b.id]
         /\ nextTableID' = IF b.id >= nextTableID THEN b.id + 1 ELSE nextTableID
  /\ loadAt' = loadAt + 1
  /\ UNCHANGED <<barrel, phase, nextCatalogZ, sessions, counters, acked, failed>>

LastZBehind(z) == IF z = 0 THEN 0 ELSE z - 1
LastZ(z) == z

\* The first empty barrel, or maxCatalogZ, ends the loop.
LoadEnd ==
  /\ phase = "load"
  /\ loadAt = MaxCatalogZ \/ barrel[loadAt] = NoBarrel
  /\ nextCatalogZ' = LastZ(loadAt)
  /\ phase' = "up"
  /\ UNCHANGED <<barrel, tables, nextTableID, loadAt, sessions, counters, acked,
                 failed>>

\* The process dies; a catalog write in flight arrives or does not.
Crash ==
  /\ phase # "down" /\ crashes < MaxCrashes
  /\ crashes' = crashes + 1
  /\ \/ UNCHANGED barrel
     \/ \E p \in Sessions : pc[p] = "write" /\ barrel' = Stored(p)
  /\ phase' = "down" /\ Volatile
  /\ UNCHANGED <<creates, faults, acked, failed>>

Restart ==
  /\ phase = "down"
  /\ phase' = "load"
  /\ UNCHANGED <<barrel, storage, sessions, counters, acked, failed>>

-----------------------------------------------------------------------------
Init ==
  /\ barrel = [z \in Zs |-> NoBarrel]
  /\ phase = "load"
  /\ tables = NoTables /\ nextCatalogZ = 0 /\ nextTableID = 1 /\ loadAt = 0
  /\ mu = NoSession
  /\ pc = [p \in Sessions |-> "idle"]
  /\ want = [p \in Sessions |-> CHOOSE n \in Names : TRUE]
  /\ entry = [p \in Sessions |-> NoEntry]
  /\ creates = 0 /\ faults = 0 /\ crashes = 0
  /\ acked = NoTables /\ failed = FALSE

Locked(p) == CreateTable(p) \/ CreateExists(p) \/ GetTable(p)

Load == LoadFails \/ LoadEntry \/ LoadEnd

Next ==
  \/ \E p \in Sessions : Locked(p) \/ CreateWrite(p) \/ \E n \in Names : Ask(p, n)
  \/ Load \/ Crash \/ Restart

\* HAL calls return and the process is started again; sync.Mutex hands the
\* lock to every goroutine that keeps waiting (its starvation mode).
Fairness ==
  /\ \A p \in Sessions : WF_vars(CreateWrite(p)) /\ SF_vars(Locked(p))
  /\ WF_vars(Load) /\ WF_vars(Restart)

Spec == Init /\ [][Next]_vars /\ Fairness

-----------------------------------------------------------------------------
(* Properties.                                                             *)

\* Every variable has a value of its type: no barrel outside the range that
\* the bounds allow is addressed, no ID is computed beyond it.
TypeOK ==
  /\ barrel \in [Zs -> Barrels]
  /\ phase \in {"down", "load", "up"}
  /\ tables \in [Names -> IDs]
  /\ mu \in Sessions \cup {NoSession}
  /\ pc \in [Sessions -> {"idle", "create", "write", "get"}]
  /\ want \in [Sessions -> Names]
  /\ entry \in [Sessions -> [z : Zs, id : IDs]]
  /\ nextCatalogZ \in Zs /\ nextTableID \in IDs /\ loadAt \in 0 .. MaxCatalogZ
  /\ creates \in 0 .. MaxCreates
  /\ faults \in 0 .. MaxFaults
  /\ crashes \in 0 .. MaxCrashes
  /\ acked \in [Names -> IDs] /\ failed \in BOOLEAN

\* No two tables of a running engine have the same ID, so no two tables are
\* laid out over the same region of the world.
IdsUnique ==
  phase = "up" =>
    \A m, n \in Names : m # n /\ tables[m] # 0 => tables[m] # tables[n]

\* IDs stay unique under concurrent CREATE TABLEs, in a process whatever its
\* catalog writes come to, and over any restarts and failed reads as long as
\* no catalog write has failed.
IdsUniqueUnlessFailed == crashes = 0 \/ ~failed => IdsUnique

\* A table whose CREATE TABLE was acknowledged is known to every later engine
\* process under the ID that locates its rows, as long as no catalog write has
\* failed and LoadCatalog's limit is not reached.
AckedKnown ==
  phase = "up" /\ ~failed /\ creates <= MaxCatalogZ =>
    \A n \in Names : acked[n] # 0 => tables[n] = acked[n]

\* Every table that a lookup can return has its catalog row in the world, with
\* the same ID, while other sessions are in the middle of CREATE TABLE too.
KnownIsStored ==
  \A n \in Names :
    tables[n] # 0 => \E z \in Zs : barrel[z] = [id |-> tables[n], name |-> n]

\* A statement that needs the catalog gets through, although CreateTable keeps
\* Storage.mu during a HAL call that may fail.
CatalogAvailable == \A p \in Sessions : pc[p] # "idle" ~> pc[p] = "idle"

=============================================================================
