----------------------------- MODULE Statements -----------------------------
(***************************************************************************)
(* How one request becomes blocks and blocks become an answer: the parser, *)
(* the executor with its WHERE evaluation, and the layout of a row.        *)
(*                                                                         *)
(* Source: internal/parser/parser.go, internal/executor/executor.go, the   *)
(* row layout of internal/storage/storage.go and the result encoding of    *)
(* internal/wire/server.go.  Requests are served one after another and the *)
(* HAL does not fail: RowStore models interleaving, failure and the log.   *)
(*                                                                         *)
(* Data: a request is the parse tree that pg_query returns (external), a   *)
(* sequence of statements.  The table is t; its strips are numbered from 1 *)
(* in the order in which InsertRow reserves them.                          *)
(***************************************************************************)
EXTENDS Codec

CONSTANTS
  Requests,  \* the requests that clients send
  MaxRows    \* bound: rows inserted over the whole behaviour

ASSUME StatementsAssumption == MaxRows \in Nat /\ Requests \subseteq Seq(SqlStatements)

VARIABLES
  columns,   \* TableMeta.Columns, <<>> before CREATE TABLE
  declared,  \* history: the column types as the client declared them
  rowCount,  \* TableMeta.RowCount
  strip,     \* strip[i]: the blocks of row i from X = 0 on
  shown,     \* history: what a scan of the table returns now
  request,   \* the request being served, or Idle
  answer     \* its answer, or NoAnswer

table == <<columns, declared, rowCount, strip, shown>>
vars  == <<table, request, answer>>

Txid == 1

Idle     == <<[kind |-> "idle", table |-> ""]>>
NoAnswer == [kind |-> "none", count |-> 0, cols |-> <<>>, rows |-> <<>>]
ErrorAnswer   == [NoAnswer EXCEPT !.kind = "error"]
DoneAnswer(n) == [NoAnswer EXCEPT !.kind = "done", !.count = n]

-----------------------------------------------------------------------------
(* The parser.                                                             *)

\* PostgreSQL lexes an integer beyond int32 as a float, and a float arrives
\* as the string it was spelled with; -2147483648 is such a float negated.
extractConstValue(l) ==
  LET float == 2 * (IF l.num < 0 THEN -l.num ELSE l.num) >= Radix^4
  IN  CASE l.kind = "num" /\ ~float      -> IntVal(l.num)
        [] l.kind = "num" /\ float       -> TextVal(Digits(l.num))
        [] l.kind = "float"              -> TextVal(l.text)
        [] l.kind \in {"text", "bool"}   -> l
        [] OTHER                         -> Nil

\* Only "left operator right" is translated; anything else is dropped.
parseCondition(c) ==
  IF c.kind = "op"
  THEN <<[Column |-> c.col, Operator |-> c.op, Value |-> extractConstValue(c.lit)]>>
  ELSE <<>>

\* OR and NOT are no A_Expr, so the whole clause is dropped.
parseWhereClause(w) ==
  IF w.bool \in {"and", "leaf"}
  THEN FlattenSeq([i \in DOMAIN w.args |-> parseCondition(w.args[i])])
  ELSE <<>>

\* The requested names; "*" and unnamed expressions add none, and no name at
\* all asks for every column.
parseTargetList(ts) ==
  LET name(t) == IF t.alias # "" THEN <<t.alias>>
                 ELSE IF t.ref \in {"*", "expr"} THEN <<>> ELSE <<t.ref>>
  IN  FlattenSeq([i \in DOMAIN ts |-> name(ts[i])])

\* The values of the first list.
parseInsert(s) ==
  [s EXCEPT !.lists = IF s.lists = <<>> THEN <<>>
                      ELSE [i \in DOMAIN s.lists[1] |-> extractConstValue(s.lists[1][i])]]

\* The first statement of the request.
Parse(req) ==
  CASE req = <<>> -> OtherStmt
    [] req # <<>> /\ req[1].kind = "insert" -> parseInsert(req[1])
    [] OTHER      -> req[1]

-----------------------------------------------------------------------------
(* The layout of a row.                                                    *)

normalizeType(t) ==
  CASE t \in {"int4", "integer"}           -> "INT"
    [] t \in {"int8", "bigint"}            -> "BIGINT"
    [] t \in {"text", "varchar", "bpchar"} -> "TEXT"
    [] t \in {"bool", "boolean"}           -> "BOOLEAN"
    [] t \in {"float4", "float8", "real", "double precision"} -> "FLOAT"
    [] OTHER                               -> t

\* Banners of a column; a FLOAT or unknown column has no block at all.
Banners(c) == CASE c.type \in {"INT", "BOOLEAN"} -> 1 [] c.type = "BIGINT" -> 2
                [] OTHER -> 0
Signs(c) == IF c.type = "TEXT" THEN 1 ELSE 0

SumOf(f(_), cs) ==
  LET sum[i \in 0 .. Len(cs)] == IF i = 0 THEN 0 ELSE sum[i - 1] + f(cs[i])
  IN  sum[Len(cs)]

stripWidthBanners == 4 + SumOf(Banners, columns)
stripWidth == 4 + SumOf(Banners, columns) + SumOf(Signs, columns)

\* getColumnValue: by name, or under the key that names the ordinal ("c0").
Ordinals == <<"c0", "c1", "c2", "c3">>
getColumnValue(values, i) ==
  CASE columns[i].name \in DOMAIN values -> values[columns[i].name]
    [] columns[i].name \notin DOMAIN values /\ Ordinals[i] \in DOMAIN values
                                        -> values[Ordinals[i]]
    [] OTHER                            -> Nil

EncodedBanners(c, v) ==
  CASE c.type = "INT"     -> <<EncodeInt32(toInt32(v))>>
    [] c.type = "BIGINT"  -> EncodeInt64(toInt64(v))
    [] c.type = "BOOLEAN" -> <<EncodeBool(toBool(v))>>
    [] OTHER              -> <<>>

EncodedSign(c, v) ==
  IF c.type = "TEXT" THEN <<PluginText(encodeSignData(EncodeText(toString(v))))>>
  ELSE <<>>

\* InsertRow's batch: xmin, the null xmax, all banners, then all signs.
RowBlocks(values) ==
  LET val(i) == getColumnValue(values, i)
  IN  EncodeInt64(Txid) \o EncodeNull
      \o FlattenSeq([i \in DOMAIN columns |-> EncodedBanners(columns[i], val(i))])
      \o FlattenSeq([i \in DOMAIN columns |-> EncodedSign(columns[i], val(i))])

SignStartInOrder(i) ==
  4 + SumOf(Banners, SubSeq(columns, 1, i - 1)) + SumOf(Signs, SubSeq(columns, 1, i - 1))
\* The block before column i's own: banners in column order, signs after all
\* banners.
BannerStart(i) == 4 + SumOf(Banners, SubSeq(columns, 1, i - 1))
SignStart(i) == 4 + SumOf(Banners, columns) + SumOf(Signs, SubSeq(columns, 1, i - 1))

\* decodeStrip's value of column i; a column without blocks stays nil.
DecodedColumn(data, i) ==
  LET b == BannerStart(i)
  IN  CASE columns[i].type = "INT"     -> IntVal(DecodeInt32(data[b + 1]))
        [] columns[i].type = "BIGINT"  -> IntVal(DecodeInt64(data[b + 1], data[b + 2]))
        [] columns[i].type = "BOOLEAN" -> BoolVal(DecodeBool(data[b + 1]))
        [] columns[i].type = "TEXT"    ->
             TextVal(DecodeText(decodeSignData(data[SignStart(i) + 1])))
        [] OTHER                       -> Nil

decodeStrip(data) == [i \in DOMAIN columns |-> DecodedColumn(data, i)]

isVisible(data, txid) ==
  /\ DecodeInt64(data[1], data[2]) <= txid
  /\ IsNull(data[3], data[4]) \/ DecodeInt64(data[3], data[4]) > txid

\* SeqScan over the first n strips of st: the visible rows in the order of
\* their slots.
SeqScan(n, st) ==
  Kept([i \in 1 .. n |-> [id |-> i, vals |-> decodeStrip(st[i])]],
       {i \in 1 .. n : isVisible(SubSeq(st[i], 1, stripWidth), Txid)})

-----------------------------------------------------------------------------
(* WHERE evaluation.                                                       *)

\* compareNum and compareStr, given a < b and a = b.  PostgreSQL's lexer
\* turns "!=" into "<>", which neither of them knows.
Compared(op, less, equal) ==
  CASE op = "="  -> equal
    [] op = ">"  -> ~less /\ ~equal
    [] op = "<"  -> less
    [] op = ">=" -> ~less
    [] op = "<=" -> less \/ equal
    [] op = "!=" -> ~equal
    [] OTHER     -> FALSE

IsFloat(v) == v.kind = "int" \/ (v.kind = "text" /\ IsNumeral(v.text))
toFloat(v) == IF v.kind = "int" THEN FloatOf(v.num) ELSE ParseFloat(v.text)

\* A NaN differs from every float64 and compares with none.
compareNum(a, b, op) ==
  IF a.nan \/ b.nan THEN op = "!=" ELSE Compared(op, a.val < b.val, a.val = b.val)
compareStr(a, b, op) == Compared(op, LexLess(a, b), a = b)

\* A text against any other constant compares with the constant's spelling;
\* a boolean column against anything is false.
compareValue(v, c, op) ==
  CASE v = Nil /\ c = Nil        -> op = "="
    [] (v = Nil) # (c = Nil)     -> op = "!="
    [] v # Nil /\ c # Nil /\ IsFloat(v) /\ IsFloat(c) ->
         compareNum(toFloat(v), toFloat(c), op)
    [] OTHER -> v.kind = "text" /\ compareStr(v.text, Formatted(c), op)

\* buildColumnMap: the later of two columns with one name.
Mapped(name, j) ==
  columns[j].name = name /\ \A k \in DOMAIN columns : columns[k].name = name => k <= j

\* An unknown column (or a clause without a column on its left) never holds.
evaluateWhere(vals, conds) ==
  \A i \in DOMAIN conds :
    \E j \in DOMAIN columns :
      /\ Mapped(conds[i].Column, j)
      /\ compareValue(vals[j], conds[i].Value, conds[i].Operator)

\* The rows of the scan for which the loops of executeSelect and
\* executeDelete go on.
Accepted(w) ==
  LET scan == SeqScan(rowCount, strip)
  IN  Kept(scan, {k \in DOMAIN scan : evaluateWhere(scan[k].vals, parseWhereClause(w))})

-----------------------------------------------------------------------------
(* The executor.                                                           *)

Refuse == answer' = ErrorAnswer /\ UNCHANGED table

GetTable(s) == s.table = "t" /\ columns # <<>>

\* Create, or "table already exists".
executeCreateTable(s) ==
  \/ columns # <<>> /\ Refuse
  \/ /\ columns = <<>>
     /\ columns' = [i \in DOMAIN s.cols |-> [s.cols[i] EXCEPT !.type = normalizeType(@)]]
     /\ declared' = s.cols
     /\ answer' = DoneAnswer(0)
     /\ UNCHANGED <<rowCount, strip, shown>>

\* The map from column name to value: by position without a column list,
\* the later of two with one name otherwise; surplus on either side is dropped.
InsertValues(s) ==
  LET names == IF s.cols = <<>> THEN [i \in DOMAIN columns |-> columns[i].name]
               ELSE s.cols
      used  == DOMAIN names \cap DOMAIN s.lists
      last(n) == CHOOSE i \in used : names[i] = n /\ \A j \in used : names[j] = n => j <= i
  IN  [n \in {names[i] : i \in used} |-> s.lists[last(n)]]

executeInsert(s) ==
  \/ ~GetTable(s) /\ Refuse
  \/ /\ GetTable(s)
     /\ rowCount' = rowCount + 1
     /\ strip' = Append(strip, RowBlocks(InsertValues(s)))
     /\ shown' = SeqScan(rowCount', strip')
     /\ answer' = DoneAnswer(1)
     /\ UNCHANGED <<columns, declared>>

resolveOutputColumns(names) ==
  LET at(n) == {i \in DOMAIN columns : columns[i].name = n}
      one(n) == IF at(n) = {} THEN <<>> ELSE <<CHOOSE i \in at(n) : \A j \in at(n) : i <= j>>
  IN  IF names = <<>> THEN [i \in DOMAIN columns |-> i]
      ELSE FlattenSeq([k \in DOMAIN names |-> one(names[k])])

typeToOID(t) ==
  CASE t \in {"int4", "INT", "int", "integer"}                     -> 23
    [] t \in {"int8", "BIGINT", "bigint"}                          -> 20
    [] t \in {"int2", "SMALLINT", "smallint"}                      -> 21
    [] t \in {"float4", "real"}                                    -> 700
    [] t \in {"float8", "FLOAT", "float", "double precision"}      -> 701
    [] t \in {"bool", "BOOLEAN", "boolean"}                        -> 16
    [] OTHER                                                       -> 25

encodeValue(v) == IF v = Nil THEN Nil ELSE TextVal(Formatted(v))

\* executeSelect and sendSelectResult.
executeSelect(s) ==
  \/ ~GetTable(s) /\ Refuse
  \/ /\ GetTable(s)
     /\ LET out == resolveOutputColumns(parseTargetList(s.targets))
            sel == Accepted(s.where)
        IN  answer' =
              [kind  |-> "rows",
               count |-> Len(sel),
               cols  |-> [j \in DOMAIN out |-> [name |-> columns[out[j]].name,
                                               oid |-> typeToOID(columns[out[j]].type)]],
               rows  |-> [k \in DOMAIN sel |->
                            [j \in DOMAIN out |-> encodeValue(sel[k].vals[out[j]])]]]
     /\ UNCHANGED table

\* MarkDeleted: the xmax banners of the row.
MarkDeleted(data) ==
  [data EXCEPT ![3] = EncodeInt64(Txid)[1], ![4] = EncodeInt64(Txid)[2]]

executeDelete(s) ==
  \/ ~GetTable(s) /\ Refuse
  \/ /\ GetTable(s)
     /\ LET sel == Accepted(s.where)
            hit == {sel[k].id : k \in DOMAIN sel}
        IN  /\ strip' = [i \in DOMAIN strip |->
                           IF i \in hit THEN MarkDeleted(strip[i]) ELSE strip[i]]
            /\ answer' = DoneAnswer(Len(sel))
     /\ shown' = SeqScan(rowCount, strip')
     /\ UNCHANGED <<columns, declared, rowCount>>

-----------------------------------------------------------------------------
Init ==
  /\ columns = <<>> /\ declared = <<>> /\ rowCount = 0 /\ strip = <<>>
  /\ shown = <<>> /\ request = Idle /\ answer = NoAnswer

Receive(req) ==
  /\ request = Idle
  /\ req # <<>> /\ req[1].kind = "insert" => rowCount < MaxRows
  /\ request' = req
  /\ UNCHANGED <<table, answer>>

\* Execute's switch over the statement types.
Execute ==
  /\ request # Idle /\ answer = NoAnswer
  /\ LET s == Parse(request)
     IN  \/ s.kind = "other" /\ Refuse
         \/ s.kind = "create" /\ executeCreateTable(s)
         \/ s.kind = "insert" /\ executeInsert(s)
         \/ s.kind = "select" /\ executeSelect(s)
         \/ s.kind = "delete" /\ executeDelete(s)
  /\ UNCHANGED request

Reply ==
  /\ answer # NoAnswer
  /\ request' = Idle /\ answer' = NoAnswer
  /\ UNCHANGED table

Next == (\E req \in Requests : Receive(req)) \/ Execute \/ Reply

Spec == Init /\ [][Next]_vars

-----------------------------------------------------------------------------
(* Properties.                                                             *)

\* Every block of a row is a banner of six bytes or a sign, in a strip as wide
\* as SeqScan will read, so decodeStrip finds every column where InsertRow
\* put it.
TypeOK ==
  /\ rowCount \in 0 .. MaxRows /\ rowCount = Len(strip)
  /\ \A i \in DOMAIN strip :
       /\ Len(strip[i]) = stripWidth
       /\ \A k \in 1 .. (4 + SumOf(Banners, columns)) :
            /\ Len(strip[i][k]) = bytesPerBanner
            /\ \A j \in DOMAIN strip[i][k] : strip[i][k][j] \in 0 .. (Radix - 1)
  /\ Len(columns) = Len(declared)
  /\ shown = SeqScan(rowCount, strip)
  /\ request \in Requests \cup {Idle}
  /\ answer.kind \in {"none", "error", "done", "rows"}

\* The blocks implement the table that SqlTable promises: the rows are those
\* that SeqScan decodes.
Sql == INSTANCE SqlTable WITH
         columns  <- declared,
         rows     <- shown,
         MaxInt32 <- Radix^4 \div 2 - 1,
         MaxText  <- signMaxLen,
         TextCut  <- SignLineLen

\* Every statement has the effect and the answer that SqlTable states for it:
\* values that fit come back as they were given whatever the other columns
\* are, and an understood clause selects and deletes exactly the rows that SQL
\* selects.
ImplementsSql == Sql!Spec

\* What a SELECT returns of a text column is well-formed UTF-8, although
\* EncodeText cuts in the middle of a character.
TextsWellFormed ==
  \A i \in DOMAIN answer.rows : \A j \in DOMAIN answer.rows[i] :
    WellFormed(answer.rows[i][j].text)

\* A DELETE whose clause consists of comparisons the engine knows and of IS
\* NULL removes only rows that satisfy the clause.
DeletesOnlyMatches ==
  [][Len(request) = 1 /\ request[1].kind = "delete"
       /\ Sql!Comparable(request[1].where) =>
     \A k \in DOMAIN shown :
       \/ Sql!Matches(request[1].where, shown[k].vals)
       \/ shown[k].id \in Sql!Ids(shown')]_vars

=============================================================================
