------------------------------ MODULE RowTable ------------------------------
(***************************************************************************)
(* The life of the rows that one engine process inserts, as its clients    *)
(* may rely on it: a row appears once and whole, is deleted at most once   *)
(* and stays deleted, and success is reported only of what has happened.   *)
(* There are no blocks, logs, scans or sessions here; RowStore implements  *)
(* this specification with all of them.                                    *)
(*                                                                         *)
(* A new process starts with no rows of its own: what it makes of the rows *)
(* of its predecessors is outside this promise (see AckedSurvive).         *)
(***************************************************************************)
CONSTANT Rows

VARIABLES
  present,  \* rows whose blocks are in the world
  dead,     \* rows that are marked deleted
  acked,    \* rows whose INSERT was reported successful
  deleted   \* rows whose deletion was reported successful

rvars == <<present, dead, acked, deleted>>

Init == present = {} /\ dead = {} /\ acked = {} /\ deleted = {}

Insert(r) ==
  /\ r \notin present
  /\ present' = present \cup {r}
  /\ UNCHANGED <<dead, acked, deleted>>

AckInsert(r) ==
  /\ r \in present
  /\ acked' = acked \cup {r}
  /\ UNCHANGED <<present, dead, deleted>>

\* Any statement may delete a row that is present, acknowledged or not.
Delete(r) ==
  /\ r \in present
  /\ dead' = dead \cup {r}
  /\ UNCHANGED <<present, acked, deleted>>

AckDelete(r) ==
  /\ r \in dead
  /\ deleted' = deleted \cup {r}
  /\ UNCHANGED <<present, dead, acked>>

Restart == present' = {} /\ dead' = {} /\ acked' = {} /\ deleted' = {}

Next ==
  \/ \E r \in Rows : Insert(r) \/ AckInsert(r) \/ Delete(r) \/ AckDelete(r)
  \/ Restart

Spec == Init /\ [][Next]_rvars

=============================================================================
