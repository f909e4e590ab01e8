---------------------------- MODULE MCStatements ----------------------------
(* Instances of Statements for TLC: schemas, constants, clauses, requests. *)
EXTENDS Statements

A == 97
\* "", "a", "10", "9", sixteen bytes, seventeen bytes, a character across
\* the end of the first line, one across the cut of a long text, half a
\* character; "9.0", "+9", ".5", "inf", "nan".
MCEmpty   == <<>>
MCa       == <<A>>
MCTen     == <<49, 48>>
MCNine    == <<57>>
MCFull    == [i \in 1 .. 16 |-> A + i]
MCLong    == Append(MCFull, A)
MCAcross  == <<A, A, A, 195, 169>>
MCLongCut == [i \in 1 .. 12 |-> A] \o <<195, 169, 195, 169, A>>
MCHalf    == <<200>>
MCNineDot == <<57, 46, 48>>
MCPlus    == <<43, 57>>
MCHalfOne == <<46, 53>>
MCInf     == <<105, 110, 102>>
MCNan     == <<110, 97, 110>>

\* ParseFloat for the texts above: the integers, "9.0", "+9", ".5", "inf", "nan".
MCUnsigned(s) == IF s # <<>> /\ s[1] = 45 THEN Tail(s) ELSE s
MCInteger(s) == FoldLeft(LAMBDA n, b : 10 * n + (b - 48), 0, MCUnsigned(s))
MCParseFloat(s) ==
  LET digits == MCUnsigned(s) # <<>> /\ \A i \in DOMAIN MCUnsigned(s) :
                                        MCUnsigned(s)[i] \in 48 .. 57
      float(n) == [ok |-> TRUE, nan |-> FALSE, val |-> n]
  IN  CASE digits /\ s[1] = 45      -> float(-MCInteger(s) * FloatUnit)
        [] digits /\ s[1] # 45      -> float(MCInteger(s) * FloatUnit)
        [] s \in {MCNineDot, MCPlus} -> float(9 * FloatUnit)
        [] s = MCHalfOne            -> float(FloatUnit \div 2)
        [] s = MCInf                -> float(1000000)
        [] s = MCNan                -> [float(0) EXCEPT !.nan = TRUE]
        [] OTHER                    -> [float(0) EXCEPT !.ok = FALSE]

MCSchemas == {
  Columns(<<"a", "a">>, <<"varchar", "int4">>),
  Columns(<<"a", "b">>, <<"int4", "text">>),
  Columns(<<"b", "a">>, <<"text", "int8">>),
  Columns(<<"a", "b">>, <<"bool", "int4">>),
  Columns(<<"c1", "b">>, <<"int8", "float8">>),
  Columns(<<"b", "a", "c">>, <<"text", "bool", "text">>)}

\* One value list, for the columns in order.
Lists == {
  <<NumLit(127), TextLit(MCa)>>,
  <<NumLit(-1), TextLit(MCFull)>>,
  <<TextLit(MCTen), NumLit(-127), TextLit(MCNine)>>,
  <<TextLit(MCAcross), BoolLit(TRUE), TextLit(MCLongCut)>>,
  <<BoolLit(FALSE), NumLit(2)>>,
  <<NumLit(128), NullLit>>,
  <<NumLit(0), TextLit(MCNineDot)>>,
  <<ExprLit>>}

Inserts ==
  {InsertStmt(<<>>, <<l>>) : l \in Lists} \cup
  {InsertStmt(<<"b", "a">>, <<<<TextLit(MCEmpty), NumLit(5)>>>>),
   InsertStmt(<<"z", "c1">>, <<<<NumLit(1), NumLit(3)>>>>),
   InsertStmt(<<>>, <<<<NumLit(4), TextLit(MCLong)>>, <<NumLit(6), TextLit(MCa)>>>>),
   InsertStmt(<<"a">>, <<>>),
   InsertStmt(<<"a", "a">>, <<<<NumLit(3), TextLit(MCa)>>>>),
   InsertStmt(<<>>, <<<<TextLit(MCHalf), TextLit(MCHalf)>>>>)}

Wheres == {
  NoWhere,
  Where("leaf", <<Cmp("a", "=", NumLit(-1))>>),
  Where("leaf", <<Cmp("a", ">", NumLit(4))>>),
  Where("leaf", <<Cmp("a", "<=", NumLit(300))>>),
  Where("leaf", <<Cmp("b", ">=", TextLit(MCa))>>),
  Where("leaf", <<Cmp("b", "<", TextLit(MCNine))>>),
  Where("leaf", <<Cmp("b", "=", TextLit(MCPlus))>>),
  Where("leaf", <<Cmp("a", ">=", FloatLit(MCHalfOne))>>),
  Where("and", <<Cmp("a", "<", TextLit(MCInf)), Cmp("a", "<=", TextLit(MCNan))>>),
  Where("leaf", <<Cmp("a", "=", BoolLit(TRUE))>>),
  Where("leaf", <<Cmp("b", "<>", NumLit(2))>>),
  Where("leaf", <<Cmp("b", "=", NullLit)>>),
  Where("leaf", <<Cmp("", "=", NumLit(5))>>),
  Where("and", <<Cmp("a", "<", NumLit(127)), Cmp("b", "=", TextLit(MCEmpty))>>),
  Where("and", <<Cmp("a", "<", NumLit(127)), IsNullOf("b")>>),
  Where("or", <<Cmp("a", "=", NumLit(5)), Cmp("b", ">", TextLit(MCa))>>),
  Where("not", <<Cmp("a", "=", NumLit(127))>>)}

Selects ==
  {SelectStmt(Star, w) : w \in Wheres} \cup
  {SelectStmt(<<Target("b"), Target("a")>>, NoWhere),
   SelectStmt(<<Target("*"), Target("a")>>, NoWhere),
   SelectStmt(<<Aliased("a", "x")>>, NoWhere),
   SelectStmt(<<Target("expr")>>, NoWhere),
   SelectStmt(<<>>, NoWhere)}

MCRequests ==
  {<<CreateStmt(s)>> : s \in MCSchemas} \cup {<<i>> : i \in Inserts} \cup
  {<<s>> : s \in Selects} \cup {<<DeleteStmt(w)>> : w \in Wheres} \cup
  {<<>>, <<OtherStmt>>, <<[DeleteStmt(NoWhere) EXCEPT !.table = "u"]>>,
   <<[InsertStmt(<<>>, <<>>) EXCEPT !.table = "u"]>>,
   <<SelectStmt(Star, NoWhere), DeleteStmt(NoWhere)>>}

=============================================================================
