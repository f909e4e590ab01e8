------------------------------ MODULE SqlTable ------------------------------
(***************************************************************************)
(* What a client may rely on when it sends SQL to mineSQL: one table, a    *)
(* request at a time, and for each request the effect and the answer.      *)
(*                                                                         *)
(* For the statements inside the limits that the operators "Fits",         *)
(* "Understood" and "PlainTargets" spell out the promise is that of SQL.   *)
(* Outside them it is weaker: an INSERT still adds exactly one row and     *)
(* keeps the values that fit, a DELETE removes at least the rows that      *)
(* match if the clause is built from known comparisons, its count is the   *)
(* number of rows removed, a SELECT changes nothing.                       *)
(*                                                                         *)
(* The statements are those of the executor's Execute and the limits those *)
(* of the code, which Statements models step by step and in blocks; here a *)
(* row is the sequence of its values.                                      *)
(***************************************************************************)
EXTENDS Values

CONSTANTS
  MaxInt32,   \* the largest integer constant that is no float
  MaxText,    \* bytes of a text that is kept whole
  TextCut     \* a text is cut after every TextCut bytes

VARIABLES
  columns,  \* the table's columns, <<>> before CREATE TABLE
  rows,     \* its rows in the order of their INSERTs: [id, vals]
  request,  \* the request being served, a sequence of statements, or Idle
  answer    \* its answer

svars == <<columns, rows, request, answer>>

Idle     == <<[kind |-> "idle", table |-> ""]>>
NoAnswer == [kind |-> "none", count |-> 0, cols |-> <<>>, rows |-> <<>>]
ErrorAnswer   == [NoAnswer EXCEPT !.kind = "error"]
DoneAnswer(n) == [NoAnswer EXCEPT !.kind = "done", !.count = n]

IntTypes == {"int4", "int8"}
TypeOIDs == [int4 |-> 23, int8 |-> 20, text |-> 25, bool |-> 16, float8 |-> 701]

-----------------------------------------------------------------------------
(* The limits.                                                             *)

\* A column of type ty keeps the constant l as it is.
Fits(ty, l) ==
  \/ ty \in IntTypes /\ l.kind = "num" /\ l.num \in (-MaxInt32) .. MaxInt32
  \/ ty = "bool" /\ l.kind = "bool"
  \/ /\ ty = "text" /\ l.kind = "text" /\ Len(l.text) <= MaxText /\ WellFormed(l.text)
     /\ \A i \in DOMAIN l.text : i % TextCut = 1 => ~IsFollow(l.text[i])

ValueOf(l) == IF l.kind = "num" THEN IntVal(l.num) ELSE l

\* n names one column: with two of one name some operations take the first
\* of them and some the last.
Known(n) ==
  \E i \in DOMAIN columns : \A j \in DOMAIN columns : columns[j].name = n <=> j = i
IndexOf(n) == CHOOSE i \in DOMAIN columns : columns[i].name = n

\* A comparison that the engine evaluates as SQL does: a column with a
\* constant of its own type; excluded are "<>", integers that a float64 does
\* not hold, and texts that ParseFloat reads as a number.
KnownCmp(c) ==
  /\ c.kind = "op" /\ Known(c.col) /\ c.op \in {"=", "<", ">", "<=", ">="}
  /\ LET ty == columns[IndexOf(c.col)].type
     IN  \/ ty \in IntTypes /\ c.lit.kind = "num"
                           /\ c.lit.num \in (-MaxExact) .. MaxExact
         \/ ty = "text" /\ c.lit.kind = "text" /\ ~IsNumeral(c.lit.text)

Understood(w) ==
  w.bool \in {"none", "leaf", "and"} /\ \A i \in DOMAIN w.args : KnownCmp(w.args[i])

\* Clauses of known comparisons and IS NULL under AND, OR or NOT.
Comparable(w) ==
  \A i \in DOMAIN w.args :
    KnownCmp(w.args[i]) \/ (w.args[i].kind = "other" /\ Known(w.args[i].col))

PlainTargets(ts) ==
  \/ ts = Star
  \/ ts # <<>> /\ \A i \in DOMAIN ts : ts[i].alias = "" /\ ts[i].ref \notin {"*", "expr"}
                                      /\ Known(ts[i].ref)

-----------------------------------------------------------------------------
(* The meaning of a clause: SQL's three-valued logic.                      *)

Less(v, u) == IF v.kind = "int" THEN v.num < u.num ELSE LexLess(v.text, u.text)

LeafTruth(c, vals) ==
  LET v == vals[IndexOf(c.col)]
      u == ValueOf(c.lit)
      b == CASE c.op = "="  -> v = u
             [] c.op = "<"  -> Less(v, u)
             [] c.op = ">"  -> Less(u, v)
             [] c.op = "<=" -> ~Less(u, v)
             [] OTHER       -> ~Less(v, u)
  IN  CASE c.kind = "other"                     -> IF v = Nil THEN "true" ELSE "false"
        [] c.kind = "op" /\ (v = Nil \/ u = Nil) -> "null"
        [] OTHER                                -> IF b THEN "true" ELSE "false"

\* The row is one of those the clause names.
Matches(w, vals) ==
  LET truth == [i \in DOMAIN w.args |-> LeafTruth(w.args[i], vals)]
  IN  CASE w.bool = "or"  -> \E i \in DOMAIN truth : truth[i] = "true"
        [] w.bool = "not" -> \A i \in DOMAIN truth : truth[i] = "false"
        [] OTHER          -> \A i \in DOMAIN truth : truth[i] = "true"

Ids(rs) == {rs[i].id : i \in DOMAIN rs}

-----------------------------------------------------------------------------
(* The statements.                                                         *)

Fails == answer' = ErrorAnswer /\ UNCHANGED <<columns, rows>>

NoTable(s) == s.table # "t" \/ columns = <<>>

Create(s) ==
  /\ columns = <<>>
  /\ columns' = s.cols
  /\ answer' = DoneAnswer(0)
  /\ UNCHANGED rows

\* The constant that the statement's only list gives to column i, if any; with
\* a name that is used twice there is no promise.
Given(s, i) ==
  LET at == IF s.cols = <<>> THEN {i}
            ELSE {j \in DOMAIN s.cols : s.cols[j] = columns[i].name}
  IN  IF Len(s.lists) # 1 \/ ~Known(columns[i].name) \/ \E j, k \in at : j # k THEN {}
      ELSE {s.lists[1][j] : j \in at \cap DOMAIN s.lists[1]}

Insert(s) ==
  /\ answer' = DoneAnswer(1)
  /\ LET old == rows
         new == rows'
     IN  /\ Len(new) = Len(old) + 1
         /\ Front(new) = old
         /\ Last(new).id \notin Ids(old)
         /\ \A i \in DOMAIN columns : \A l \in Given(s, i) :
              Fits(columns[i].type, l) => Last(new).vals[i] = ValueOf(l)
  /\ UNCHANGED columns

Chosen(ts) == IF ts = Star THEN [i \in DOMAIN columns |-> i]
              ELSE [j \in DOMAIN ts |-> IndexOf(ts[j].ref)]

Text(v) == IF v = Nil THEN Nil ELSE TextVal(Formatted(v))

Select(s) ==
  /\ answer'.kind = "rows" /\ answer'.count = Len(answer'.rows)
  /\ answer'.count <= Len(rows)
  /\ Understood(s.where) =>
       LET sel == Kept(rows, {i \in DOMAIN rows : Matches(s.where, rows[i].vals)})
           at  == Chosen(s.targets)
       IN  /\ answer'.count = Len(sel)
           /\ PlainTargets(s.targets) =>
                /\ answer'.rows = [k \in DOMAIN sel |->
                                     [j \in DOMAIN at |-> Text(sel[k].vals[at[j]])]]
                /\ (\A j \in DOMAIN at : columns[at[j]].type \in DOMAIN TypeOIDs) =>
                     answer'.cols = [j \in DOMAIN at |->
                       [name |-> columns[at[j]].name,
                        oid  |-> TypeOIDs[columns[at[j]].type]]]
  /\ UNCHANGED <<columns, rows>>

Delete(s) ==
  /\ LET old  == rows
         left == Ids(rows')
     IN  /\ rows' = Kept(old, {i \in DOMAIN old : old[i].id \in left})
         /\ answer' = DoneAnswer(Len(old) - Cardinality(left))
         /\ \A i \in DOMAIN old :
              /\ Comparable(s.where) /\ Matches(s.where, old[i].vals) =>
                   old[i].id \notin left
              /\ Understood(s.where) /\ ~Matches(s.where, old[i].vals) =>
                   old[i].id \in left
  /\ UNCHANGED columns

-----------------------------------------------------------------------------
Init == columns = <<>> /\ rows = <<>> /\ request = Idle /\ answer = NoAnswer

Receive ==
  /\ request = Idle /\ request' # Idle
  /\ UNCHANGED <<columns, rows, answer>>

\* A request of several statements is outside the promise but for its answer.
Execute ==
  /\ request # Idle /\ answer = NoAnswer /\ answer' # NoAnswer
  /\ UNCHANGED request
  /\ \/ Len(request) = 0 /\ Fails
     \/ Len(request) > 1
     \/ /\ Len(request) = 1
        /\ LET s == request[1]
           IN  \/ s.kind = "other" /\ Fails
               \/ s.kind = "create" /\ Create(s)
               \/ s.kind = "create" /\ columns # <<>> /\ Fails
               \/ s.kind \in {"insert", "select", "delete"} /\ NoTable(s) /\ Fails
               \/ s.kind = "insert" /\ ~NoTable(s) /\ Insert(s)
               \/ s.kind = "select" /\ ~NoTable(s) /\ Select(s)
               \/ s.kind = "delete" /\ ~NoTable(s) /\ Delete(s)

Reply ==
  /\ answer # NoAnswer
  /\ request' = Idle /\ answer' = NoAnswer
  /\ UNCHANGED <<columns, rows>>

Next == Receive \/ Execute \/ Reply

Spec == Init /\ [][Next]_svars

=============================================================================
