------------------------------- MODULE Values -------------------------------
(***************************************************************************)
(* The vocabulary of the statement modules: the values a column can hold,  *)
(* the constants, conditions and statements of PostgreSQL's parse tree as  *)
(* far as mineSQL looks at them, and text as a sequence of bytes.          *)
(*                                                                         *)
(* A value, like a Go interface{}, is nil, an integer, a string or a bool; *)
(* one record shape serves all four.                                       *)
(***************************************************************************)
EXTENDS Integers, Sequences, SequencesExt

CONSTANTS
  ParseFloat(_),  \* strconv.ParseFloat(s, 64) (external): [ok, nan, val]
  FloatUnit,      \* a float64 counts the smallest of them (2^1074 in the source)
  MaxExact        \* float64 holds the integers up to here (2^53 in the source)

Nil        == [kind |-> "nil", num |-> 0, text |-> <<>>]
IntVal(n)  == [kind |-> "int", num |-> n, text |-> <<>>]
TextVal(s) == [kind |-> "text", num |-> 0, text |-> s]
BoolVal(b) == [kind |-> "bool", num |-> IF b THEN 1 ELSE 0, text |-> <<>>]

\* Constants of a statement: an integer, a number spelled with a fraction or an
\* exponent, a string, a boolean, NULL, or any other expression.
NumLit(n)  == [kind |-> "num", num |-> n, text |-> <<>>]
FloatLit(s) == [kind |-> "float", num |-> 0, text |-> s]
TextLit(s) == TextVal(s)
BoolLit(b) == BoolVal(b)
NullLit    == [kind |-> "null", num |-> 0, text |-> <<>>]
ExprLit    == [kind |-> "expr", num |-> 0, text |-> <<>>]

\* A leaf of a WHERE clause: "op" is "column op constant", "other" any other
\* predicate, of which IS NULL is the one the reference semantics knows.
Cmp(c, o, l) == [kind |-> "op", col |-> c, op |-> o, lit |-> l]
IsNullOf(c)  == [kind |-> "other", col |-> c, op |-> "", lit |-> NullLit]

\* A WHERE clause: none, one leaf, or leaves under one AND, OR or NOT.
Where(b, args) == [bool |-> b, args |-> args]
NoWhere == Where("none", <<>>)

Columns(ns, ts) == [i \in 1 .. Len(ns) |-> [name |-> ns[i], type |-> ts[i]]]

CreateStmt(cs)        == [kind |-> "create", table |-> "t", cols |-> cs]
InsertStmt(cs, lists) == [kind |-> "insert", table |-> "t", cols |-> cs,
                          lists |-> lists]
SelectStmt(ts, w)     == [kind |-> "select", table |-> "t", targets |-> ts,
                          where |-> w]
DeleteStmt(w)         == [kind |-> "delete", table |-> "t", where |-> w]
OtherStmt             == [kind |-> "other", table |-> "t"]

Target(r)       == [alias |-> "", ref |-> r]
Aliased(r, a)   == [alias |-> a, ref |-> r]
Star            == <<Target("*")>>

\* The elements of s at the indices in K, in their order.
Kept(s, K) == FlattenSeq([i \in DOMAIN s |-> IF i \in K THEN <<s[i]>> ELSE <<>>])

-----------------------------------------------------------------------------
(* What a client can send.  PostgreSQL's strings have no NUL, and the      *)
(* characters here take one byte or two, so no byte is above 223.  CREATE  *)
(* TABLE is that of t: tables beside it are the subject of Catalog.        *)

Texts    == Seq(1 .. 223)
Literals == [kind : {"num"}, num : Int, text : {<<>>}] \cup
            [kind : {"text", "float"}, num : {0}, text : Texts] \cup
            {BoolLit(TRUE), BoolLit(FALSE), NullLit, ExprLit}
Clauses  == [bool : {"leaf", "and", "or", "not"},
             args : Seq([kind : {"op", "other"}, col : STRING, op : STRING,
                         lit : Literals])] \cup {NoWhere}
Schemas  == Seq([name : STRING, type : STRING])

SqlStatements ==
  [kind : {"create"}, table : {"t"}, cols : Schemas \ {<<>>}] \cup
  [kind : {"insert"}, table : STRING, cols : Seq(STRING), lists : Seq(Seq(Literals))] \cup
  [kind : {"select"}, table : STRING, targets : Seq([alias : STRING, ref : STRING]),
   where : Clauses] \cup
  [kind : {"delete"}, table : STRING, where : Clauses] \cup
  [kind : {"other"}, table : STRING]

-----------------------------------------------------------------------------
(* Text.                                                                   *)

\* The decimal digits of n.
Decimal[m \in Nat] ==
  IF m < 10 THEN <<48 + m>> ELSE Append(Decimal[m \div 10], 48 + (m % 10))
Digits(n) == IF n < 0 THEN <<45>> \o Decimal[-n] ELSE Decimal[n]

\* float64(n); exact for the integers of a column, which are int32.
FloatOf(n) == [ok |-> TRUE, nan |-> FALSE, val |-> n * FloatUnit]

\* ParseFloat reads the digits of an integer as that integer, exactly up to
\* MaxExact.  It reads more spellings: "+5", "1.0", ".5", "1e3", "0x1p3", "inf",
\* "nan" and others; what is out of range is an error.
ASSUME FloatAssumption ==
  /\ FloatUnit \in Nat \ {0} /\ MaxExact \in Nat
  /\ \A n \in (-MaxExact) .. MaxExact : ParseFloat(Digits(n)) = FloatOf(n)

IsNumeral(s) == ParseFloat(s).ok

\* Byte-wise order, Go's < on strings.
LexLess(s, t) ==
  \/ IsStrictPrefix(s, t)
  \/ \E k \in DOMAIN s \cap DOMAIN t :
       s[k] < t[k] /\ SubSeq(s, 1, k - 1) = SubSeq(t, 1, k - 1)

TrueText  == <<116, 114, 117, 101>>
FalseText == <<102, 97, 108, 115, 101>>
NilText   == <<60, 110, 105, 108, 62>>

\* fmt.Sprintf("%v", v).
Formatted(v) ==
  CASE v.kind = "text" -> v.text
    [] v.kind = "int"  -> Digits(v.num)
    [] v.kind = "bool" -> IF v.num = 1 THEN TrueText ELSE FalseText
    [] OTHER           -> NilText

\* Characters take one byte below 128 and otherwise, here, two; 192 and 193
\* start none.
IsLead(b)   == b >= 194
IsFollow(b) == b \in 128 .. 191

\* s is well-formed UTF-8 (239 starts the three bytes of U+FFFD).
WellFormed(s) ==
  \A i \in DOMAIN s :
    /\ s[i] \notin 192 .. 193
    /\ IsLead(s[i]) => i < Len(s) /\ IsFollow(s[i + 1])
    /\ s[i] = 239 => i + 1 < Len(s) /\ IsFollow(s[i + 2])
    /\ IsFollow(s[i]) => /\ i > 1
                         /\ \/ IsLead(s[i - 1])
                            \/ i > 2 /\ IsFollow(s[i - 1]) /\ s[i - 2] = 239

=============================================================================
