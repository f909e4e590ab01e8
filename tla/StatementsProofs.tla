-------------------------- MODULE StatementsProofs --------------------------
(***************************************************************************)
(* Proofs about how statements become blocks and blocks become answers.    *)
(*                                                                         *)
(* The types and the well-formed texts follow from the inductive invariant *)
(* IInv.  StatementsImplementsSql shows that the parser, the executor and  *)
(* the blocks implement the table SqlTable promises: each of InsertRefines,*)
(* SelectRefines, DeleteRefines and CreateRefines is one statement.        *)
(*                                                                         *)
(* Facts about recursive functions and about sequences of any length are   *)
(* proved over sets of numbers: SetInduction is induction for such a set.  *)
(***************************************************************************)
EXTENDS Statements, CodecProofs, FiniteSetTheorems

-----------------------------------------------------------------------------
(* Recursion over the numbers.                                             *)

\* Induction over Nat as a fact about a set: the least number outside S, which
\* well-foundedness gives, is neither 0 nor a successor.
LEMMA SetInduction ==
  ASSUME NEW S, 0 \in S, \A n \in Nat : n \in S => n + 1 \in S
  PROVE  \A n \in Nat : n \in S
<1> SUFFICES ASSUME NEW m \in Nat, m \notin S PROVE FALSE
  OBVIOUS
<1> DEFINE T == {n \in Nat : n \notin S}
           R == OpToRel(<, Nat)
<1>1. PICK x \in T : \A y \in T : ~(<<y, x>> \in R)
  <2>1. IsWellFoundedOn(R, Nat)
    BY NatLessThanWellFounded
  <2>2. T \subseteq Nat /\ T # {}
    OBVIOUS
  <2> QED BY <2>1, <2>2, WFMin
<1>2. x \in Nat /\ x # 0 /\ x - 1 \in Nat
  OBVIOUS
<1>3. x - 1 \notin S
  BY <1>2
<1>4. <<x - 1, x>> \in R
  BY <1>2 DEF OpToRel
<1> QED BY <1>1, <1>2, <1>3, <1>4

\* The steps of a recursion over 1 .. n.
Steps(D, n) == [D \X (1 .. n) -> D]

\* g[0] is z and g[i] what step makes of g[i - 1] and i.
Iterates(g, D, z, n, step) ==
  /\ g \in [0 .. n -> D] /\ g[0] = z
  /\ \A i \in 1 .. n : g[i] = step[<<g[i - 1], i>>]

\* A finite recursion with a step given as a function has a solution.
LEMMA Recursion ==
  ASSUME NEW D, NEW z \in D, NEW n \in Nat, NEW step \in Steps(D, n)
  PROVE  \E g : Iterates(g, D, z, n, step)
<1> USE DEF Steps
<1> DEFINE Good(m, g) == g[0] = z /\ \A i \in 1 .. m : g[i] = step[<<g[i - 1], i>>]
           S == {m \in Nat : m <= n => \E g \in [0 .. m -> D] : Good(m, g)}
<1>1. 0 \in S
  <2> DEFINE g == [i \in 0 .. 0 |-> z]
  <2>1. g \in [0 .. 0 -> D] /\ Good(0, g)
    OBVIOUS
  <2> QED BY <2>1
<1>2. ASSUME NEW m \in Nat, m \in S PROVE m + 1 \in S
  <2> SUFFICES ASSUME m + 1 <= n PROVE \E g \in [0 .. m + 1 -> D] : Good(m + 1, g)
    OBVIOUS
  <2>1. PICK g \in [0 .. m -> D] : Good(m, g)
    BY <1>2
  <2> DEFINE h == [i \in 0 .. m + 1 |-> IF i <= m THEN g[i] ELSE step[<<g[m], m + 1>>]]
  <2>2. step[<<g[m], m + 1>>] \in D
    OBVIOUS
  <2>3. h \in [0 .. m + 1 -> D]
    BY <2>2
  <2>4. h[0] = z
    BY <2>1
  <2>5. \A i \in 1 .. m + 1 : h[i] = step[<<h[i - 1], i>>]
    <3> SUFFICES ASSUME NEW i \in 1 .. m + 1 PROVE h[i] = step[<<h[i - 1], i>>]
      OBVIOUS
    <3>1. CASE i = m + 1
      BY <3>1
    <3>2. CASE i <= m
      BY <3>2, <2>1
    <3> QED BY <3>1, <3>2
  <2> HIDE DEF h
  <2> QED BY <2>3, <2>4, <2>5
<1> HIDE DEF S
<1>3. \A m \in Nat : m \in S
  BY <1>1, <1>2, SetInduction
<1>4. n \in S
  BY <1>3
<1>5. PICK g \in [0 .. n -> D] : Good(n, g)
  BY <1>4 DEF S
<1> QED BY <1>5 DEF Iterates

-----------------------------------------------------------------------------
(* FlattenSeq, part by part.                                               *)

\* off[i] elements lie before the (i+1)-st part.
Offsets(ss, off) ==
  /\ off \in [0 .. Len(ss) -> Nat] /\ off[0] = 0
  /\ \A i \in 1 .. Len(ss) : off[i] = off[i - 1] + Len(ss[i])

\* Every sequence of parts has offsets: the lengths summed up.
LEMMA OffsetsExist ==
  ASSUME NEW S, NEW ss \in Seq(Seq(S))
  PROVE  \E off : Offsets(ss, off)
<1> DEFINE n == Len(ss)
           step == [p \in Nat \X (1 .. n) |-> p[1] + Len(ss[p[2]])]
<1>1. n \in Nat /\ \A i \in 1 .. n : Len(ss[i]) \in Nat
  OBVIOUS
<1>2. step \in Steps(Nat, n)
  BY <1>1 DEF Steps
<1> HIDE DEF step, n
<1>3. PICK g : Iterates(g, Nat, 0, n, step)
  <2>1. 0 \in Nat /\ n \in Nat
    BY <1>1
  <2> QED BY <2>1, <1>2, Recursion
<1>3a. g \in [0 .. n -> Nat] /\ g[0] = 0 /\ \A i \in 1 .. n : g[i] = step[<<g[i - 1], i>>]
  BY <1>3 DEF Iterates
<1>4. \A i \in 1 .. n : g[i] = g[i - 1] + Len(ss[i])
  <2> SUFFICES ASSUME NEW i \in 1 .. n PROVE g[i] = g[i - 1] + Len(ss[i])
    OBVIOUS
  <2>1. i - 1 \in 0 .. n
    BY <1>1
  <2>2. <<g[i - 1], i>> \in Nat \X (1 .. n)
    BY <2>1, <1>3a
  <2> QED BY <1>3a, <2>2 DEF step
<1> QED BY <1>3a, <1>4 DEF Offsets, n

\* Offsets never decrease.
LEMMA OffsetsGrow ==
  ASSUME NEW S, NEW ss \in Seq(Seq(S)), NEW off, Offsets(ss, off)
  PROVE  \A i \in 0 .. Len(ss) : \A j \in 0 .. i : off[j] <= off[i]
<1> DEFINE T == {i \in Nat : i <= Len(ss) => \A j \in 0 .. i : off[j] <= off[i]}
<1>0. /\ Len(ss) \in Nat /\ (\A i \in 1 .. Len(ss) : Len(ss[i]) \in Nat)
      /\ \A i \in 0 .. Len(ss) : off[i] \in Nat
  <2>1. \A i \in 1 .. Len(ss) : ss[i] \in Seq(S)
    OBVIOUS
  <2> QED BY <2>1 DEF Offsets
<1>1. 0 \in T
  BY <1>0
<1>2. ASSUME NEW i \in Nat, i \in T PROVE i + 1 \in T
  <2> SUFFICES ASSUME i + 1 <= Len(ss), NEW j \in 0 .. (i + 1) PROVE off[j] <= off[i + 1]
    OBVIOUS
  <2>1. off[i + 1] = off[i] + Len(ss[i + 1])
    BY DEF Offsets
  <2>2. off[i] <= off[i + 1]
    <3>1. i \in 0 .. Len(ss) /\ i + 1 \in 1 .. Len(ss) /\ i + 1 \in 0 .. Len(ss)
      BY <1>0
    <3>2. off[i] \in Nat /\ off[i + 1] \in Nat /\ Len(ss[i + 1]) \in Nat
      BY <3>1, <1>0
    <3> QED BY <3>2, <2>1
  <2>3. CASE j = i + 1
    BY <2>3, <1>0
  <2>4. CASE j <= i
    <3>1. off[j] <= off[i]
      BY <2>4, <1>2, <1>0
    <3>2. off[j] \in Nat /\ off[i] \in Nat /\ off[i + 1] \in Nat
      BY <2>4, <1>0
    <3> QED BY <3>1, <3>2, <2>2
  <2> QED BY <2>3, <2>4
<1> HIDE DEF T
<1>3. \A i \in Nat : i \in T
  BY <1>1, <1>2, SetInduction
<1> QED BY <1>3, <1>0 DEF T

\* FlattenSeq appends one part after the other.
LEMMA FlattenRecursion ==
  ASSUME NEW S, NEW ss \in Seq(Seq(S)), Len(ss) # 0
  PROVE  \E g \in [1 .. Len(ss) -> Seq(S)] :
           /\ g[1] = ss[1] /\ \A i \in 2 .. Len(ss) : g[i] = g[i - 1] \o ss[i]
           /\ FlattenSeq(ss) = g[Len(ss)]
<1> DEFINE n == Len(ss)
           step == [p \in Seq(S) \X (1 .. n) |-> p[1] \o ss[p[2]]]
           Sat(g) == g = [i \in 1 .. n |-> IF i = 1 THEN ss[i] ELSE g[i - 1] \o ss[i]]
<1>1. n \in Nat \ {0} /\ \A i \in 1 .. n : ss[i] \in Seq(S)
  OBVIOUS
<1>2. step \in Steps(Seq(S), n)
  <2>1. \A q \in Seq(S), i \in 1 .. n : q \o ss[i] \in Seq(S)
    BY <1>1, Joined
  <2> QED BY <2>1 DEF Steps
<1> HIDE DEF step
<1>3. PICK h : Iterates(h, Seq(S), <<>>, n, step)
  <2>1. <<>> \in Seq(S)
    OBVIOUS
  <2>2. n \in Nat
    BY <1>1
  <2> QED BY <1>2, <2>1, <2>2, Recursion
<1>3a. /\ h \in [0 .. n -> Seq(S)] /\ h[0] = <<>>
       /\ \A i \in 1 .. n : h[i] = step[<<h[i - 1], i>>]
  BY <1>3 DEF Iterates
<1>4. \A i \in 1 .. n : h[i] = h[i - 1] \o ss[i]
  <2> SUFFICES ASSUME NEW i \in 1 .. n PROVE h[i] = h[i - 1] \o ss[i]
    OBVIOUS
  <2>1. i - 1 \in 0 .. n
    BY <1>1
  <2>2. <<h[i - 1], i>> \in Seq(S) \X (1 .. n)
    BY <2>1, <1>3a
  <2>3. step[<<h[i - 1], i>>] = h[i - 1] \o ss[i]
    BY <2>2 DEF step
  <2> QED BY <1>3a, <2>3
<1>5. \E g : Sat(g)
  <2> DEFINE k == [i \in 1 .. n |-> h[i]]
  <2>1. h[1] = ss[1]
    <3>1. h[1] = <<>> \o ss[1]
      <4>1. 1 \in 1 .. n /\ 1 - 1 = 0
        BY <1>1
      <4>2. h[1] = h[0] \o ss[1]
        BY <4>1, <1>4
      <4> QED BY <4>2, <1>3a
    <3>2. ss[1] \in Seq(S)
      BY <1>1
    <3>3. <<>> \o ss[1] = ss[1]
      BY <3>2
    <3> QED BY <3>1, <3>3
  <2>2. \A i \in 1 .. n : k[i] = IF i = 1 THEN ss[i] ELSE k[i - 1] \o ss[i]
    <3> SUFFICES ASSUME NEW i \in 1 .. n
                 PROVE  k[i] = IF i = 1 THEN ss[i] ELSE k[i - 1] \o ss[i]
      OBVIOUS
    <3>1. CASE i = 1
      BY <3>1, <2>1, <1>1
    <3>2. CASE i # 1
      <4>1. i - 1 \in 1 .. n
        BY <3>2, <1>1
      <4> QED BY <4>1, <3>2, <1>4
    <3> QED BY <3>1, <3>2
  <2>3. Sat(k)
    <3> HIDE DEF n
    <3> QED BY <2>2
  <2> QED BY <2>3
<1>6. PICK g : Sat(g) /\ FlattenSeq(ss) = g[n]
  <2> DEFINE c == CHOOSE g : Sat(g)
  <2>1. Sat(c)
    BY <1>5
  <2>2. FlattenSeq(ss) = c[n]
    BY DEF FlattenSeq
  <2> HIDE DEF c
  <2> QED BY <2>1, <2>2
<1>7. DOMAIN g = 1 .. n /\ g[1] = ss[1] /\ \A i \in 2 .. n : g[i] = g[i - 1] \o ss[i]
  <2> HIDE DEF n
  <2>1. g = [i \in 1 .. n |-> IF i = 1 THEN ss[i] ELSE g[i - 1] \o ss[i]]
    BY <1>6
  <2>2. DOMAIN g = 1 .. n /\ \A i \in 1 .. n : g[i] = IF i = 1 THEN ss[i] ELSE g[i - 1] \o ss[i]
    BY <2>1
  <2>3. 1 \in 1 .. n /\ \A i \in 2 .. n : i \in 1 .. n /\ i # 1
    BY <1>1
  <2>4. g[1] = ss[1]
    BY <2>2, <2>3
  <2> QED BY <2>2, <2>3, <2>4
<1>8. \A i \in 1 .. n : g[i] \in Seq(S)
  <2> DEFINE T == {i \in Nat : i + 1 <= n => g[i + 1] \in Seq(S)}
  <2>1. 0 \in T
    BY <1>7, <1>1
  <2>2. ASSUME NEW i \in Nat, i \in T PROVE i + 1 \in T
    <3> SUFFICES ASSUME i + 2 <= n PROVE g[i + 2] \in Seq(S)
      OBVIOUS
    <3>1. g[i + 1] \in Seq(S) /\ ss[i + 2] \in Seq(S)
      BY <2>2, <1>1
    <3>2. g[i + 2] = g[i + 1] \o ss[i + 2]
      <4>1. i + 2 \in 2 .. n /\ (i + 2) - 1 = i + 1
        BY <1>1
      <4> QED BY <4>1, <1>7
    <3> QED BY <3>1, <3>2, Joined
  <2> HIDE DEF T
  <2>3. \A i \in Nat : i \in T
    BY <2>1, <2>2, SetInduction
  <2> SUFFICES ASSUME NEW i \in 1 .. n PROVE g[i] \in Seq(S)
    OBVIOUS
  <2>4. i - 1 \in Nat /\ (i - 1) + 1 = i /\ i <= n
    BY <1>1
  <2>5. i - 1 \in T
    BY <2>3, <2>4
  <2> QED BY <2>5, <2>4 DEF T
<1>9. g \in [1 .. n -> Seq(S)]
  <2>1. g = [i \in 1 .. n |-> g[i]]
    <3> HIDE DEF n
    <3> QED BY <1>6
  <2> QED BY <2>1, <1>8
<1> QED BY <1>6, <1>7, <1>9

\* q holds the first i parts of ss one after another.
Laid(ss, off, i, q) ==
  /\ Len(q) = off[i]
  /\ \A j \in 1 .. i : \A k \in 1 .. Len(ss[j]) : q[off[j - 1] + k] = ss[j][k]

\* Appending the next part to a laid out prefix lays out one part more.
LEMMA LaidStep ==
  ASSUME NEW S, NEW ss \in Seq(Seq(S)), NEW off, Offsets(ss, off),
         NEW i \in 1 .. Len(ss), NEW q \in Seq(S), Laid(ss, off, i - 1, q)
  PROVE  Laid(ss, off, i, q \o ss[i])
<1>0. /\ ss[i] \in Seq(S) /\ Len(ss) \in Nat /\ i \in Nat /\ i - 1 \in 0 .. Len(ss)
      /\ Len(ss[i]) \in Nat /\ Len(q) \in Nat
  OBVIOUS
<1>1. off[i] = off[i - 1] + Len(ss[i]) /\ off[i - 1] = Len(q)
  BY <1>0 DEF Offsets, Laid
<1>2. PICK r : r = q \o ss[i]
  OBVIOUS
<1>3. /\ Len(r) = Len(q) + Len(ss[i])
      /\ \A k \in 1 .. Len(q) : r[k] = q[k]
      /\ \A k \in 1 .. Len(ss[i]) : r[Len(q) + k] = ss[i][k]
  BY <1>2, <1>0, Joined
<1>4. \A j \in 1 .. i : \A k \in 1 .. Len(ss[j]) : r[off[j - 1] + k] = ss[j][k]
  <2> SUFFICES ASSUME NEW j \in 1 .. i, NEW k \in 1 .. Len(ss[j])
               PROVE  r[off[j - 1] + k] = ss[j][k]
    OBVIOUS
  <2>1. CASE j = i
    BY <2>1, <1>1, <1>3
  <2>2. CASE j # i
    <3>1. j \in 1 .. i - 1 /\ j \in 1 .. Len(ss) /\ j \in 0 .. i - 1 /\ j - 1 \in 0 .. Len(ss)
      BY <2>2, <1>0
    <3>2. off[j] <= off[i - 1] /\ off[j] = off[j - 1] + Len(ss[j]) /\ off[j - 1] \in Nat
      BY <3>1, <1>0, OffsetsGrow DEF Offsets
    <3>3. ss[j] \in Seq(S)
      BY <3>1
    <3>4. off[j - 1] + k \in 1 .. Len(q)
      <4>1. PICK a \in Nat : a = off[j - 1]
        BY <3>2
      <4>2. PICK l \in Nat : l = Len(ss[j])
        BY <3>3
      <4>3. a + l <= Len(q) /\ k \in 1 .. l
        BY <4>1, <4>2, <3>2, <1>1
      <4>4. a + k \in 1 .. Len(q)
        BY <4>3, <1>0
      <4> QED BY <4>1, <4>4
    <3>5. q[off[j - 1] + k] = ss[j][k]
      BY <3>1 DEF Laid
    <3> QED BY <3>4, <3>5, <1>3
  <2> QED BY <2>1, <2>2
<1> QED BY <1>1, <1>2, <1>3, <1>4 DEF Laid

\* FlattenSeq puts every element of every part at the part's offset.
LEMMA Flattened ==
  ASSUME NEW S, NEW ss \in Seq(Seq(S)), NEW off, Offsets(ss, off)
  PROVE  FlattenSeq(ss) \in Seq(S) /\ Laid(ss, off, Len(ss), FlattenSeq(ss))
<1>0. Len(ss) \in Nat /\ \A i \in 1 .. Len(ss) : ss[i] \in Seq(S)
  OBVIOUS
<1>1. CASE Len(ss) = 0
  <2>1. ss = <<>> /\ FlattenSeq(ss) = <<>>
    BY <1>1 DEF FlattenSeq
  <2>2. <<>> \in Seq(S) /\ Len(<<>>) = 0
    OBVIOUS
  <2>3. off[0] = 0 /\ 1 .. 0 = {}
    BY DEF Offsets
  <2> QED BY <1>1, <2>1, <2>2, <2>3 DEF Laid
<1>2. CASE Len(ss) # 0
  <2>1. PICK g \in [1 .. Len(ss) -> Seq(S)] :
          /\ g[1] = ss[1] /\ \A i \in 2 .. Len(ss) : g[i] = g[i - 1] \o ss[i]
          /\ FlattenSeq(ss) = g[Len(ss)]
    BY <1>2, FlattenRecursion
  <2> DEFINE T == {i \in Nat : i + 1 <= Len(ss) => Laid(ss, off, i + 1, g[i + 1])}
  <2>2. 0 \in T
    <3>1. 1 \in 1 .. Len(ss) /\ 1 - 1 = 0 /\ off[0] = 0 /\ off[1] = off[0] + Len(ss[1])
      BY <1>2, <1>0 DEF Offsets
    <3>2. <<>> \in Seq(S) /\ Len(<<>>) = 0 /\ ss[1] \in Seq(S) /\ <<>> \o ss[1] = ss[1]
      BY <3>1, <1>0
    <3>3. Laid(ss, off, 0, <<>>)
      BY <3>1, <3>2 DEF Laid
    <3>4. Laid(ss, off, 1, <<>> \o ss[1])
      BY <3>1, <3>2, <3>3, LaidStep
    <3> QED BY <3>2, <3>4, <2>1
  <2>3. ASSUME NEW i \in Nat, i \in T PROVE i + 1 \in T
    <3> SUFFICES ASSUME i + 2 <= Len(ss) PROVE Laid(ss, off, i + 2, g[i + 2])
      OBVIOUS
    <3>1. i + 2 \in 2 .. Len(ss) /\ i + 2 \in 1 .. Len(ss) /\ (i + 2) - 1 = i + 1
          /\ i + 1 \in 1 .. Len(ss)
      BY <1>0
    <3>2. Laid(ss, off, i + 1, g[i + 1]) /\ g[i + 1] \in Seq(S)
      <4>1. i + 1 <= Len(ss)
        BY <1>0
      <4>2. Laid(ss, off, i + 1, g[i + 1])
        BY <2>3, <4>1
      <4> QED BY <4>2, <3>1
    <3>3. g[i + 2] = g[i + 1] \o ss[i + 2]
      BY <2>1, <3>1
    <3>4. Laid(ss, off, (i + 2) - 1, g[i + 1])
      BY <3>1, <3>2
    <3> QED BY <3>1, <3>2, <3>3, <3>4, LaidStep
  <2> HIDE DEF T
  <2>4. \A i \in Nat : i \in T
    BY <2>2, <2>3, SetInduction
  <2>5. Len(ss) - 1 \in T /\ (Len(ss) - 1) + 1 = Len(ss)
    BY <2>4, <1>0, <1>2
  <2>6. Laid(ss, off, Len(ss), g[Len(ss)])
    BY <2>5, <1>0 DEF T
  <2> QED BY <2>1, <2>6, <1>0, <1>2
<1> QED BY <1>1, <1>2

\* p is a position of one of the parts.
InPart(ss, off, p) ==
  \E i \in 1 .. Len(ss) : \E k \in 1 .. Len(ss[i]) : p = off[i - 1] + k

\* Every position between two offsets lies in one of the parts.
LEMMA PartOf ==
  ASSUME NEW S, NEW ss \in Seq(Seq(S)), NEW off, Offsets(ss, off),
         NEW p \in 1 .. off[Len(ss)]
  PROVE  InPart(ss, off, p)
<1>0. /\ Len(ss) \in Nat /\ \A i \in 0 .. Len(ss) : off[i] \in Nat
      /\ \A i \in 1 .. Len(ss) : ss[i] \in Seq(S)
  <2>1. \A i \in 0 .. Len(ss) : off[i] \in Nat
    BY DEF Offsets
  <2> QED BY <2>1
<1> DEFINE T == {i \in Nat : i <= Len(ss) /\ p <= off[i] =>
                   \E j \in 1 .. i : \E k \in 1 .. Len(ss[j]) : p = off[j - 1] + k}
<1>1. 0 \in T
  BY <1>0 DEF Offsets
<1>2. ASSUME NEW i \in Nat, i \in T PROVE i + 1 \in T
  <2> SUFFICES ASSUME i + 1 <= Len(ss), p <= off[i + 1]
               PROVE  \E j \in 1 .. i + 1 : \E k \in 1 .. Len(ss[j]) : p = off[j - 1] + k
    OBVIOUS
  <2>1. CASE p <= off[i]
    <3>1. PICK j \in 1 .. i : \E k \in 1 .. Len(ss[j]) : p = off[j - 1] + k
      BY <1>2, <2>1
    <3>2. j \in 1 .. i + 1
      OBVIOUS
    <3> QED BY <3>1, <3>2
  <2>2. CASE p > off[i]
    <3>1. /\ i + 1 \in 1 .. Len(ss) /\ i \in 0 .. Len(ss) /\ i + 1 \in 1 .. i + 1
          /\ (i + 1) - 1 = i
      BY <1>0
    <3>2. off[i + 1] = off[i] + Len(ss[i + 1]) /\ Len(ss[i + 1]) \in Nat /\ off[i] \in Nat
      BY <3>1, <1>0 DEF Offsets
    <3>5. PICK w \in Nat, x \in Nat : w = off[i] /\ x = Len(ss[i + 1])
      BY <3>2
    <3>6. p > w /\ p <= w + x /\ p \in Nat
      BY <3>2, <3>5, <2>2, <1>0
    <3>7. p - w \in 1 .. x /\ p = w + (p - w)
      BY <3>6
    <3>3. p - off[i] \in 1 .. Len(ss[i + 1]) /\ p = off[i] + (p - off[i])
      BY <3>5, <3>7
    <3>4. \E k \in 1 .. Len(ss[i + 1]) : p = off[(i + 1) - 1] + k
      BY <3>3, <3>1
    <3> QED BY <3>4, <3>1
  <2>3. off[i] \in Nat /\ p \in Nat
    BY <1>0
  <2> QED BY <2>1, <2>2, <2>3
<1> HIDE DEF T
<1>3. \A i \in Nat : i \in T
  BY <1>1, <1>2, SetInduction
<1>4. Len(ss) \in T /\ p <= off[Len(ss)]
  BY <1>0, <1>3
<1> QED BY <1>4, <1>0 DEF T, InPart

-----------------------------------------------------------------------------
(* Places in a row: sums over the columns.                                 *)

\* off[i] is the sum of the first i of n numbers.
PrefixSums(h, n, off) ==
  /\ off \in [0 .. n -> Nat] /\ off[0] = 0
  /\ \A i \in 1 .. n : off[i] = off[i - 1] + h[i]

\* The recursion of SumOf has one solution: the prefix sums.
LEMMA SumUnique ==
  ASSUME NEW h, NEW n \in Nat, NEW off, PrefixSums(h, n, off), NEW g,
         g = [i \in 0 .. n |-> IF i = 0 THEN 0 ELSE g[i - 1] + h[i]]
  PROVE  g[n] = off[n]
<1> DEFINE T == {i \in Nat : i <= n => g[i] = off[i]}
<1>0. \A i \in 0 .. n : g[i] = IF i = 0 THEN 0 ELSE g[i - 1] + h[i]
  OBVIOUS
<1>1. 0 \in T
  BY <1>0 DEF PrefixSums
<1>2. ASSUME NEW i \in Nat, i \in T PROVE i + 1 \in T
  <2> SUFFICES ASSUME i + 1 <= n PROVE g[i + 1] = off[i + 1]
    OBVIOUS
  <2>1. i + 1 \in 1 .. n /\ i + 1 \in 0 .. n /\ (i + 1) - 1 = i /\ i + 1 # 0
    OBVIOUS
  <2>2. g[i + 1] = g[i] + h[i + 1]
    BY <2>1, <1>0
  <2>3. off[i + 1] = off[i] + h[i + 1]
    BY <2>1 DEF PrefixSums
  <2>4. g[i] = off[i]
    BY <1>2
  <2> QED BY <2>2, <2>3, <2>4
<1> HIDE DEF T
<1>3. \A i \in Nat : i \in T
  BY <1>1, <1>2, SetInduction
<1>4. n \in T
  BY <1>3
<1> QED BY <1>4 DEF T

\* The number of banners of a row is the last prefix sum.
LEMMA BannerSum ==
  ASSUME NEW cs, Len(cs) \in Nat, NEW h, NEW off, PrefixSums(h, Len(cs), off),
         \A i \in 1 .. Len(cs) : h[i] = Banners(cs[i])
  PROVE  SumOf(Banners, cs) = off[Len(cs)]
<1> DEFINE Sat(g) == g = [i \in 0 .. Len(cs) |->
                            IF i = 0 THEN 0 ELSE g[i - 1] + Banners(cs[i])]
           sum == CHOOSE g : Sat(g)
<1>0. PICK n \in Nat : n = Len(cs)
  OBVIOUS
<1>1. Sat(off)
  <2>1. \A i \in 0 .. n : off[i] = IF i = 0 THEN 0 ELSE off[i - 1] + Banners(cs[i])
    BY <1>0 DEF PrefixSums
  <2> QED BY <2>1, <1>0 DEF PrefixSums
<1>2. Sat(sum)
  BY <1>1
<1>3. SumOf(Banners, cs) = sum[Len(cs)]
  BY DEF SumOf
<1> HIDE DEF sum
<1>4. \A i \in 0 .. n : (IF i = 0 THEN 0 ELSE sum[i - 1] + Banners(cs[i]))
                        = (IF i = 0 THEN 0 ELSE sum[i - 1] + h[i])
  BY <1>0
<1>5. sum = [i \in 0 .. n |-> IF i = 0 THEN 0 ELSE sum[i - 1] + Banners(cs[i])]
  BY <1>2, <1>0
<1>6. sum = [i \in 0 .. n |-> IF i = 0 THEN 0 ELSE sum[i - 1] + h[i]]
  BY <1>4, <1>5
<1>7. PrefixSums(h, n, off)
  BY <1>0
<1>8. sum[n] = off[n]
  BY <1>6, <1>7, SumUnique
<1> QED BY <1>0, <1>3, <1>8

\* The number of signs of a row is the last prefix sum.
LEMMA SignSum ==
  ASSUME NEW cs, Len(cs) \in Nat, NEW h, NEW off, PrefixSums(h, Len(cs), off),
         \A i \in 1 .. Len(cs) : h[i] = Signs(cs[i])
  PROVE  SumOf(Signs, cs) = off[Len(cs)]
<1> DEFINE Sat(g) == g = [i \in 0 .. Len(cs) |->
                            IF i = 0 THEN 0 ELSE g[i - 1] + Signs(cs[i])]
           sum == CHOOSE g : Sat(g)
<1>0. PICK n \in Nat : n = Len(cs)
  OBVIOUS
<1>1. Sat(off)
  <2>1. \A i \in 0 .. n : off[i] = IF i = 0 THEN 0 ELSE off[i - 1] + Signs(cs[i])
    BY <1>0 DEF PrefixSums
  <2> QED BY <2>1, <1>0 DEF PrefixSums
<1>2. Sat(sum)
  BY <1>1
<1>3. SumOf(Signs, cs) = sum[Len(cs)]
  BY DEF SumOf
<1> HIDE DEF sum
<1>4. \A i \in 0 .. n : (IF i = 0 THEN 0 ELSE sum[i - 1] + Signs(cs[i]))
                        = (IF i = 0 THEN 0 ELSE sum[i - 1] + h[i])
  BY <1>0
<1>5. sum = [i \in 0 .. n |-> IF i = 0 THEN 0 ELSE sum[i - 1] + Signs(cs[i])]
  BY <1>2, <1>0
<1>6. sum = [i \in 0 .. n |-> IF i = 0 THEN 0 ELSE sum[i - 1] + h[i]]
  BY <1>4, <1>5
<1>7. PrefixSums(h, n, off)
  BY <1>0
<1>8. sum[n] = off[n]
  BY <1>6, <1>7, SumUnique
<1> QED BY <1>0, <1>3, <1>8

\* Prefix sums of a prefix are those of the whole.
LEMMA PrefixOfSums ==
  ASSUME NEW h, NEW n \in Nat, NEW off, PrefixSums(h, n, off), NEW m \in 0 .. n
  PROVE  \E o : PrefixSums(h, m, o) /\ o[m] = off[m]
<1> DEFINE o == [i \in 0 .. m |-> off[i]]
<1>1. o \in [0 .. m -> Nat] /\ o[0] = 0 /\ o[m] = off[m]
  BY DEF PrefixSums
<1>2. \A i \in 1 .. m : o[i] = o[i - 1] + h[i]
  BY DEF PrefixSums
<1> HIDE DEF o
<1> QED BY <1>1, <1>2 DEF PrefixSums

\* h has the banners, or the signs, of each column of cs.
BannersOf(h, cs) == \A i \in 1 .. Len(cs) : h[i] = Banners(cs[i])
SignsOf(h, cs) == \A i \in 1 .. Len(cs) : h[i] = Signs(cs[i])

\* What SumOf makes of the first columns, from one function off for all of them.
LEMMA BannerPrefix ==
  ASSUME NEW X, NEW cs \in Seq(X), NEW h, NEW off, PrefixSums(h, Len(cs), off),
         BannersOf(h, cs), NEW m \in 0 .. Len(cs)
  PROVE  SumOf(Banners, SubSeq(cs, 1, m)) = off[m]
<1>1. PICK o : PrefixSums(h, m, o) /\ o[m] = off[m]
  <2>1. Len(cs) \in Nat
    OBVIOUS
  <2> QED BY <2>1, PrefixOfSums
<1>2. PICK d : d = SubSeq(cs, 1, m)
  OBVIOUS
<1>3. Len(d) = m /\ \A i \in 1 .. m : d[i] = cs[i]
  BY <1>2
<1>4. SumOf(Banners, d) = o[Len(d)]
  <2>1. Len(d) \in Nat /\ PrefixSums(h, Len(d), o) /\ \A i \in 1 .. Len(d) : h[i] = Banners(d[i])
    BY <1>1, <1>3 DEF BannersOf
  <2> QED BY <2>1, BannerSum
<1> QED BY <1>1, <1>2, <1>3, <1>4

\* The signs of the first m columns: what SignStart counts.
LEMMA SignPrefix ==
  ASSUME NEW X, NEW cs \in Seq(X), NEW h, NEW off, PrefixSums(h, Len(cs), off),
         SignsOf(h, cs), NEW m \in 0 .. Len(cs)
  PROVE  SumOf(Signs, SubSeq(cs, 1, m)) = off[m]
<1>1. PICK o : PrefixSums(h, m, o) /\ o[m] = off[m]
  <2>1. Len(cs) \in Nat
    OBVIOUS
  <2> QED BY <2>1, PrefixOfSums
<1>2. PICK d : d = SubSeq(cs, 1, m)
  OBVIOUS
<1>3. Len(d) = m /\ \A i \in 1 .. m : d[i] = cs[i]
  BY <1>2
<1>4. SumOf(Signs, d) = o[Len(d)]
  <2>1. Len(d) \in Nat /\ PrefixSums(h, Len(d), o) /\ \A i \in 1 .. Len(d) : h[i] = Signs(d[i])
    BY <1>1, <1>3 DEF SignsOf
  <2> QED BY <2>1, SignSum
<1> QED BY <1>1, <1>2, <1>3, <1>4

-----------------------------------------------------------------------------
(* Integers and booleans in banners.                                       *)

\* What the parser makes of a literal.
SmallInt == (1 - (Radix^4 \div 2)) .. (Radix^4 \div 2 - 1)
Consts ==
  [kind : {"int"}, num : SmallInt, text : {<<>>}] \cup
  [kind : {"text"}, num : {0}, text : Texts] \cup
  {BoolVal(TRUE), BoolVal(FALSE), Nil}

\* The bytes of a banner, as a set.
BannerBlocks == {b \in Seq(Byte) : Len(b) = bytesPerBanner}

\* The integers of four bytes are those from -h to h - 1.
LEMMA Half ==
  \E h \in Nat : /\ h > 1 /\ Power(4) = 2 * h /\ Power(4) \div 2 = h
                /\ Int32 = (-h) .. (h - 1) /\ SmallInt = (1 - h) .. (h - 1)
                /\ Int64 = (-h * Power(4)) .. (h * Power(4) - 1)
<1>1. \E h \in Nat : h > 1 /\ Power(4) = 2 * h /\ Power(4) \div 2 = h
  <2>1. CASE Radix = 4
    BY <2>1, SMT DEF Power
  <2>2. CASE Radix = 16
    BY <2>2, SMT DEF Power
  <2>3. CASE Radix = 256
    BY <2>3, SMT DEF Power
  <2> QED BY <2>1, <2>2, <2>3, CodecAssumption
<1>2. PICK h \in Nat : h > 1 /\ Power(4) = 2 * h /\ Power(4) \div 2 = h
  BY <1>1
<1>3. Int32 = (-h) .. (h - 1)
  BY <1>2, Zenon DEF Int32, Power
<1>4. SmallInt = (1 - h) .. (h - 1)
  BY <1>2, Zenon DEF SmallInt, Power
<1>5. Int64 = (-h * Power(4)) .. (h * Power(4) - 1)
  BY <1>2, Zenon DEF Int64, Power
<1> QED BY <1>2, <1>3, <1>4, <1>5

\* An integer constant is within both integer widths.
LEMMA SmallIntRange ==
  ASSUME NEW n \in SmallInt
  PROVE  n \in Int32 /\ n \in Int64 /\ n \in Int
<1>1. PICK h \in Nat : /\ h > 1 /\ Power(4) = 2 * h /\ Power(4) \div 2 = h
                       /\ Int32 = (-h) .. (h - 1) /\ SmallInt = (1 - h) .. (h - 1)
                       /\ Int64 = (-h * Power(4)) .. (h * Power(4) - 1)
  BY Half
<1>2. n \in Int /\ -h < n /\ n < h
  BY <1>1
<1>3. h * (2 * h) >= h /\ -h * (2 * h) = -(h * (2 * h)) /\ h * (2 * h) \in Int
  BY <1>1
<1>4. n \in (-h * (2 * h)) .. (h * (2 * h) - 1)
  BY <1>2, <1>3
<1> QED BY <1>1, <1>2, <1>4

\* The constants that a nil or a boolean turns into are small.
LEMMA ZeroRange == 0 \in SmallInt /\ 1 \in SmallInt
BY Half

\* int32(v) keeps an integer constant.
LEMMA WrappedSmall ==
  ASSUME NEW n \in SmallInt
  PROVE  Wrapped(n) = n
<1>1. n \in Int32 /\ n \in Int
  BY SmallIntRange
<1>2. Uint32(PutUint32(n)) = n % Power(4)
  BY <1>1, Word
<1>3. Signed(n % Power(4)) = n
  BY <1>1, SignedWord
<1> QED BY <1>2, <1>3 DEF Wrapped

\* The shapes of a parsed constant.
LEMMA ConstKinds ==
  ASSUME NEW v \in Consts
  PROVE  /\ v.kind \in {"int", "text", "bool", "nil"} /\ v.num \in SmallInt
         /\ v.kind = "int" => v = IntVal(v.num)
         /\ v.kind = "text" => v = TextVal(v.text) /\ v.text \in Texts
         /\ v.kind = "bool" => v \in {BoolVal(TRUE), BoolVal(FALSE)}
         /\ v.kind = "nil" => v = Nil
<1>0. 0 \in SmallInt /\ 1 \in SmallInt
  BY ZeroRange
<1>1. CASE v \in [kind : {"int"}, num : SmallInt, text : {<<>>}]
  BY <1>1 DEF IntVal
<1>2. CASE v \in [kind : {"text"}, num : {0}, text : Texts]
  BY <1>0, <1>2 DEF TextVal
<1>3. CASE v \in {BoolVal(TRUE), BoolVal(FALSE), Nil}
  BY <1>0, <1>3 DEF BoolVal, Nil
<1> QED BY <1>1, <1>2, <1>3 DEF Consts

\* The executor's conversions stay within the width of their column, and keep an
\* integer constant.
LEMMA ToInts ==
  ASSUME NEW v \in Consts
  PROVE  /\ toInt32(v) \in Int32 /\ toInt64(v) \in Int64 /\ toBool(v) \in BOOLEAN
         /\ v.kind = "int" => toInt32(v) = v.num /\ toInt64(v) = v.num
<1>1. v.num \in SmallInt /\ 0 \in SmallInt
  BY ConstKinds, ZeroRange
<1>2. /\ v.num \in Int32 /\ v.num \in Int64
      /\ 0 \in Int32 /\ 0 \in Int64
  BY <1>1, SmallIntRange
<1>3. Wrapped(v.num) = v.num
  BY <1>1, WrappedSmall
<1>4. toInt32(v) \in Int32 /\ (v.kind = "int" => toInt32(v) = v.num)
  BY <1>2, <1>3 DEF toInt32
<1>5. toInt64(v) \in Int64 /\ (v.kind = "int" => toInt64(v) = v.num)
  BY <1>2 DEF toInt64
<1>6. toBool(v) \in BOOLEAN
  BY DEF toBool
<1> QED BY <1>4, <1>5, <1>6

\* encodeColumn writes as many banners as the layout reserves, of six bytes each.
LEMMA BannersOfColumn ==
  ASSUME NEW c, NEW v \in Consts
  PROVE  /\ EncodedBanners(c, v) \in Seq(BannerBlocks)
         /\ Len(EncodedBanners(c, v)) = Banners(c)
<1>1. CASE c.type = "INT"
  <2>1. EncodeInt32(toInt32(v)) \in BannerBlocks
    BY ToInts, Int32RoundTrip DEF Banner, BannerBlocks
  <2>2. EncodedBanners(c, v) = <<EncodeInt32(toInt32(v))>> /\ Banners(c) = 1
    BY <1>1 DEF EncodedBanners, Banners
  <2> QED BY <2>1, <2>2
<1>2. CASE c.type = "BIGINT"
  <2>1. PICK e : e = EncodeInt64(toInt64(v))
    OBVIOUS
  <2>2. e[1] \in BannerBlocks /\ e[2] \in BannerBlocks
    BY <2>1, ToInts, Int64RoundTrip DEF Banner, BannerBlocks
  <2>3. e = <<e[1], e[2]>>
    BY <2>1 DEF EncodeInt64
  <2>4. EncodedBanners(c, v) = e /\ Banners(c) = 2
    BY <1>2, <2>1 DEF EncodedBanners, Banners
  <2>5. PICK x \in BannerBlocks, y \in BannerBlocks : e = <<x, y>>
    BY <2>2, <2>3
  <2>6. <<x, y>> \in Seq(BannerBlocks) /\ Len(<<x, y>>) = 2
    OBVIOUS
  <2> QED BY <2>4, <2>5, <2>6
<1>3. CASE c.type = "BOOLEAN"
  <2>1. EncodeBool(toBool(v)) \in BannerBlocks
    BY ToInts, BoolRoundTrip DEF Banner, BannerBlocks
  <2>2. EncodedBanners(c, v) = <<EncodeBool(toBool(v))>> /\ Banners(c) = 1
    BY <1>3 DEF EncodedBanners, Banners
  <2> QED BY <2>1, <2>2
<1>4. CASE c.type \notin {"INT", "BIGINT", "BOOLEAN"}
  <2>1. EncodedBanners(c, v) = <<>> /\ Banners(c) = 0
    BY <1>4 DEF EncodedBanners, Banners
  <2> QED BY <2>1
<1> QED BY <1>1, <1>2, <1>3, <1>4

-----------------------------------------------------------------------------
(* Decimal digits.                                                         *)

DigitBytes == 48 .. 57

\* g holds the digits of the numbers up to n.
DecimalsTo(n, g) ==
  /\ g \in [0 .. n -> Seq(DigitBytes)]
  /\ \A m \in 0 .. n :
       g[m] = IF m < 10 THEN <<48 + m>> ELSE Append(g[m \div 10], 48 + (m % 10))

\* A number is its last digit and the rest, and the rest is smaller.
LEMMA DigitStep ==
  ASSUME NEW m \in Nat
  PROVE  /\ m % 10 \in 0 .. 9 /\ 48 + (m % 10) \in DigitBytes /\ m \div 10 \in Nat
         /\ m = 10 * (m \div 10) + (m % 10)
         /\ m >= 10 => m \div 10 < m /\ m \div 10 \in 0 .. (m - 1)
         /\ m < 10 => <<48 + m>> \in Seq(DigitBytes)
<1>1. m % 10 \in 0 .. 9 /\ m \div 10 \in Nat /\ m = 10 * (m \div 10) + (m % 10)
  BY SMT
<1>2. m >= 10 => m \div 10 < m
  BY <1>1
<1>3. 48 + (m % 10) \in DigitBytes
  BY <1>1 DEF DigitBytes
<1>4. m < 10 => 48 + m \in DigitBytes
  BY DEF DigitBytes
<1>5. m < 10 => <<48 + m>> \in Seq(DigitBytes)
  BY <1>4
<1> QED BY <1>1, <1>2, <1>3, <1>5

\* The recursion of Decimal has a solution up to every n.
LEMMA DecimalsExist ==
  \A n \in Nat : \E g : DecimalsTo(n, g)
<1> DEFINE T == {n \in Nat : \E g : DecimalsTo(n, g)}
<1>1. 0 \in T
  <2> DEFINE g == [m \in 0 .. 0 |-> <<48 + m>>]
  <2>1. \A m \in 0 .. 0 : <<48 + m>> \in Seq(DigitBytes) /\ m < 10
    BY DigitStep
  <2>2. g \in [0 .. 0 -> Seq(DigitBytes)]
    BY <2>1
  <2>3. \A m \in 0 .. 0 : g[m] = <<48 + m>> /\ m < 10
    BY <2>1
  <2> HIDE DEF g
  <2>4. DecimalsTo(0, g)
    BY <2>2, <2>3 DEF DecimalsTo
  <2> QED BY <2>4
<1>2. ASSUME NEW n \in Nat, n \in T PROVE n + 1 \in T
  <2>1. PICK g : DecimalsTo(n, g)
    BY <1>2
  <2>2. /\ g \in [0 .. n -> Seq(DigitBytes)]
        /\ \A m \in 0 .. n :
             g[m] = IF m < 10 THEN <<48 + m>> ELSE Append(g[m \div 10], 48 + (m % 10))
    BY <2>1 DEF DecimalsTo
  <2> DEFINE new == IF n + 1 < 10 THEN <<48 + (n + 1)>>
                    ELSE Append(g[(n + 1) \div 10], 48 + ((n + 1) % 10))
             h == [m \in 0 .. n + 1 |-> IF m <= n THEN g[m] ELSE new]
  <2>3. new \in Seq(DigitBytes)
    <3>1. CASE n + 1 < 10
      BY <3>1, DigitStep
    <3>2. CASE n + 1 >= 10
      <4>1. (n + 1) \div 10 \in 0 .. n /\ 48 + ((n + 1) % 10) \in DigitBytes
        BY <3>2, DigitStep
      <4>2. g[(n + 1) \div 10] \in Seq(DigitBytes)
        BY <4>1, <2>2
      <4>3. Append(g[(n + 1) \div 10], 48 + ((n + 1) % 10)) \in Seq(DigitBytes)
        BY <4>1, <4>2
      <4> QED BY <4>3, <3>2
    <3> QED BY <3>1, <3>2
  <2> HIDE DEF new
  <2>4. h \in [0 .. n + 1 -> Seq(DigitBytes)]
    BY <2>2, <2>3
  <2>5. /\ \A m \in 0 .. n : h[m] = g[m]
        /\ h[n + 1] = new
    OBVIOUS
  <2> HIDE DEF h
  <2>6. ASSUME NEW m \in 0 .. n + 1
        PROVE  h[m] = IF m < 10 THEN <<48 + m>> ELSE Append(h[m \div 10], 48 + (m % 10))
    <3>1. m >= 10 => m \div 10 \in 0 .. n
      BY DigitStep
    <3>2. m >= 10 => h[m \div 10] = g[m \div 10]
      BY <3>1, <2>5
    <3>3. CASE m <= n
      <4>1. m \in 0 .. n
        BY <3>3
      <4>2. g[m] = IF m < 10 THEN <<48 + m>> ELSE Append(g[m \div 10], 48 + (m % 10))
        BY <4>1, <2>2
      <4>3. h[m] = g[m]
        BY <4>1, <2>5
      <4>4. CASE m < 10
        BY <4>2, <4>3, <4>4
      <4>5. CASE m >= 10
        BY <4>2, <4>3, <4>5, <3>2
      <4> QED BY <4>4, <4>5
    <3>4. CASE m = n + 1
      BY <3>4, <3>2, <2>5 DEF new
    <3> QED BY <3>3, <3>4
  <2>7. DecimalsTo(n + 1, h)
    BY <2>4, <2>6 DEF DecimalsTo
  <2> QED BY <2>7
<1> HIDE DEF T
<1>3. \A n \in Nat : n \in T
  BY <1>1, <1>2, SetInduction
<1> QED BY <1>3 DEF T

\* Two solutions agree where both are defined.
LEMMA DecimalsAgree ==
  ASSUME NEW n \in Nat, NEW f, DecimalsTo(n, f), NEW k \in Nat, NEW g, DecimalsTo(k, g),
         NEW m \in Nat, m <= n, m <= k
  PROVE  f[m] = g[m]
<1> DEFINE T == {j \in Nat : \A i \in 0 .. j : i <= n /\ i <= k => f[i] = g[i]}
<1>0. /\ \A i \in 0 .. n :
           f[i] = IF i < 10 THEN <<48 + i>> ELSE Append(f[i \div 10], 48 + (i % 10))
      /\ \A i \in 0 .. k :
           g[i] = IF i < 10 THEN <<48 + i>> ELSE Append(g[i \div 10], 48 + (i % 10))
  BY DEF DecimalsTo
<1>a. ASSUME NEW i \in Nat, i <= n, i <= k, i < 10 PROVE f[i] = g[i]
  <2>1. i \in 0 .. n /\ i \in 0 .. k
    BY <1>a
  <2>2. f[i] = <<48 + i>>
    BY <2>1, <1>0, <1>a, Zenon
  <2>3. g[i] = <<48 + i>>
    BY <2>1, <1>0, <1>a, Zenon
  <2> QED BY <2>2, <2>3
<1>1. 0 \in T
  BY <1>a
<1>2. ASSUME NEW j \in Nat, j \in T PROVE j + 1 \in T
  <2> SUFFICES ASSUME NEW i \in 0 .. (j + 1), i <= n, i <= k PROVE f[i] = g[i]
    OBVIOUS
  <2>1. CASE i <= j
    BY <2>1, <1>2
  <2>2. CASE i < 10
    BY <2>2, <1>a
  <2>3. CASE i = j + 1 /\ i >= 10
    <3>1. i \div 10 \in 0 .. j /\ i \div 10 <= n /\ i \div 10 <= k
      BY <2>3, DigitStep
    <3>2. f[i \div 10] = g[i \div 10]
      BY <3>1, <1>2
    <3>3. i \in 0 .. n /\ i \in 0 .. k /\ ~(i < 10)
      BY <2>3
    <3>4. f[i] = Append(f[i \div 10], 48 + (i % 10))
      BY <3>3, <1>0, Zenon
    <3>5. g[i] = Append(g[i \div 10], 48 + (i % 10))
      BY <3>3, <1>0, Zenon
    <3> QED BY <3>2, <3>4, <3>5
  <2> QED BY <2>1, <2>2, <2>3
<1> HIDE DEF T
<1>3. \A j \in Nat : j \in T
  BY <1>1, <1>2, SetInduction
<1>4. m \in T
  BY <1>3
<1> QED BY <1>4 DEF T

\* What strconv prints of a number: the digits of the rest, then the last digit.
LEMMA DecimalDef ==
  \A m \in Nat :
    /\ Decimal[m] \in Seq(DigitBytes) /\ Decimal[m] # <<>>
    /\ Decimal[m] = IF m < 10 THEN <<48 + m>> ELSE Append(Decimal[m \div 10], 48 + (m % 10))
<1> DEFINE Sat(f) == f = [m \in Nat |-> IF m < 10 THEN <<48 + m>>
                                        ELSE Append(f[m \div 10], 48 + (m % 10))]
           G(m) == CHOOSE g : DecimalsTo(m, g)
           f == [m \in Nat |-> G(m)[m]]
<1>1. \A m \in Nat : DecimalsTo(m, G(m))
  BY DecimalsExist
<1> HIDE DEF G
<1>2. ASSUME NEW m \in Nat
      PROVE  f[m] = IF m < 10 THEN <<48 + m>> ELSE Append(f[m \div 10], 48 + (m % 10))
  <2>1. G(m)[m] = IF m < 10 THEN <<48 + m>> ELSE Append(G(m)[m \div 10], 48 + (m % 10))
    BY <1>1 DEF DecimalsTo
  <2>2. CASE m < 10
    BY <2>1, <2>2
  <2>3. CASE m >= 10
    <3>1. m \div 10 \in Nat /\ m \div 10 <= m
      BY <2>3, DigitStep
    <3>2. G(m \div 10)[m \div 10] = G(m)[m \div 10]
      <4>1. DecimalsTo(m, G(m)) /\ DecimalsTo(m \div 10, G(m \div 10))
        BY <1>1, <3>1
      <4>2. m \div 10 <= m \div 10
        BY <3>1
      <4> QED BY <4>1, <4>2, <3>1, DecimalsAgree
    <3>3. f[m \div 10] = G(m)[m \div 10] /\ f[m] = G(m)[m]
      BY <3>1, <3>2
    <3> QED BY <2>1, <2>3, <3>3
  <2> QED BY <2>2, <2>3
<1>3. Sat(f)
  <2>1. f = [m \in Nat |-> f[m]]
    OBVIOUS
  <2> HIDE DEF f
  <2> QED BY <1>2, <2>1
<1>4. Sat(Decimal)
  <2> HIDE DEF f
  <2>1. \E e : Sat(e)
    BY <1>3
  <2> QED BY <2>1 DEF Decimal
<1>5. ASSUME NEW m \in Nat
      PROVE  Decimal[m] = IF m < 10 THEN <<48 + m>>
                          ELSE Append(Decimal[m \div 10], 48 + (m % 10))
  BY <1>4
<1>a. ASSUME NEW m \in Nat, m < 10 PROVE Decimal[m] = <<48 + m>>
  BY <1>5, <1>a, Zenon
<1>b. ASSUME NEW m \in Nat, m >= 10
      PROVE  Decimal[m] = Append(Decimal[m \div 10], 48 + (m % 10))
  <2>1. ~(m < 10)
    BY <1>b
  <2> QED BY <1>5, <2>1, Zenon
<1>6. ASSUME NEW n \in Nat PROVE Decimal[n] \in Seq(DigitBytes)
  <2> DEFINE T == {j \in Nat : \A i \in 0 .. j : Decimal[i] \in Seq(DigitBytes)}
  <2>1. 0 \in T
    <3>1. Decimal[0] \in Seq(DigitBytes)
      <4>1. 0 \in Nat /\ 0 < 10
        OBVIOUS
      <4>2. <<48 + 0>> \in Seq(DigitBytes)
        BY <4>1, DigitStep
      <4>3. Decimal[0] = <<48 + 0>>
        BY <4>1, <1>a
      <4> QED BY <4>2, <4>3
    <3> QED BY <3>1
  <2>2. ASSUME NEW j \in Nat, j \in T PROVE j + 1 \in T
    <3> SUFFICES ASSUME NEW i \in 0 .. (j + 1) PROVE Decimal[i] \in Seq(DigitBytes)
      OBVIOUS
    <3>1. CASE i <= j
      BY <3>1, <2>2
    <3>2. CASE i < 10
      <4>1. i \in Nat
        OBVIOUS
      <4>2. <<48 + i>> \in Seq(DigitBytes)
        BY <4>1, <3>2, DigitStep
      <4>3. Decimal[i] = <<48 + i>>
        BY <4>1, <3>2, <1>a
      <4> QED BY <4>2, <4>3
    <3>3. CASE i = j + 1 /\ i >= 10
      <4>1. i \div 10 \in 0 .. j /\ 48 + (i % 10) \in DigitBytes
        BY <3>3, DigitStep
      <4>2. PICK d \in Seq(DigitBytes) : d = Decimal[i \div 10]
        BY <4>1, <2>2
      <4>3. Append(d, 48 + (i % 10)) \in Seq(DigitBytes)
        BY <4>1
      <4>4. Decimal[i] = Append(d, 48 + (i % 10))
        <5>1. i \in Nat /\ i >= 10
          BY <3>3
        <5> QED BY <1>b, <5>1, <4>2
      <4> QED BY <4>3, <4>4
    <3> QED BY <3>1, <3>2, <3>3
  <2> HIDE DEF T
  <2>3. \A j \in Nat : j \in T
    BY <2>1, <2>2, SetInduction
  <2>4. n \in T
    BY <2>3
  <2> QED BY <2>4 DEF T
<1>7. ASSUME NEW m \in Nat PROVE Decimal[m] # <<>>
  <2>1. CASE m < 10
    <3>1. Decimal[m] = <<48 + m>>
      BY <2>1, <1>5
    <3> QED BY <3>1
  <2>2. CASE m >= 10
    <3>1. PICK d \in Seq(DigitBytes) : d = Decimal[m \div 10]
      BY <1>6, DigitStep
    <3>2. Decimal[m] = Append(d, 48 + (m % 10))
      BY <2>2, <1>b, <3>1
    <3> QED BY <3>2
  <2> QED BY <2>1, <2>2
<1> QED BY <1>5, <1>6, <1>7

\* The digits of an integer are a text of ASCII bytes.
LEMMA DigitsTexts ==
  \A n \in Int : Digits(n) \in Texts /\ \A i \in 1 .. Len(Digits(n)) : Digits(n)[i] < 128
<1> SUFFICES ASSUME NEW n \in Int
             PROVE  Digits(n) \in Texts /\ \A i \in 1 .. Len(Digits(n)) : Digits(n)[i] < 128
  OBVIOUS
<1>1. CASE n >= 0
  <2>1. PICK u \in Seq(DigitBytes) : u = Decimal[n]
    <3>1. n \in Nat
      BY <1>1
    <3> QED BY <3>1, DecimalDef
  <2>2. Digits(n) = u
    BY <1>1, <2>1 DEF Digits
  <2>3. u \in Texts /\ \A i \in 1 .. Len(u) : u[i] < 128
    BY <2>1 DEF Texts, DigitBytes
  <2> QED BY <2>2, <2>3
<1>2. CASE n < 0
  <2>1. PICK u \in Seq(DigitBytes) : u = Decimal[-n]
    <3>1. -n \in Nat
      BY <1>2
    <3> QED BY <3>1, DecimalDef
  <2>2. PICK s : s = <<45>> \o u
    OBVIOUS
  <2>3. Digits(n) = s
    BY <1>2, <2>1, <2>2 DEF Digits
  <2>4. s \in Texts
    <3>1. <<45>> \in Seq(1 .. 223) /\ u \in Seq(1 .. 223)
      BY <2>1 DEF DigitBytes
    <3> QED BY <3>1, <2>2, Joined DEF Texts
  <2>5. s[1] = 45 /\ Len(s) = Len(u) + 1 /\ \A i \in 1 .. Len(u) : s[i + 1] = u[i]
    BY <2>2
  <2>6. ASSUME NEW i \in 1 .. Len(s) PROVE s[i] < 128
    <3>1. CASE i = 1
      BY <3>1, <2>5
    <3>2. CASE i # 1
      <4>1. PICK k \in 1 .. Len(u) : i = k + 1
        <5>1. i - 1 \in 1 .. Len(u) /\ i = (i - 1) + 1
          BY <3>2, <2>1, <2>5
        <5> QED BY <5>1
      <4>2. u[k] \in DigitBytes
        BY <2>1
      <4> QED BY <4>1, <4>2, <2>5 DEF DigitBytes
    <3> QED BY <3>1, <3>2
  <2> QED BY <2>3, <2>4, <2>6
<1> QED BY <1>1, <1>2

\* What PostgreSQL hands on as the digits of an integer is that float64.
LEMMA FloatRead ==
  ASSUME NEW n \in (-MaxExact) .. MaxExact
  PROVE  IsNumeral(Digits(n)) /\ ParseFloat(Digits(n)) = FloatOf(n)
<1>1. ParseFloat(Digits(n)) = FloatOf(n)
  BY FloatAssumption
<1> QED BY <1>1 DEF IsNumeral, FloatOf

\* Integers compare as their float64 do.
LEMMA FloatOrder ==
  ASSUME NEW m \in Int, NEW n \in Int
  PROVE  /\ m * FloatUnit < n * FloatUnit <=> m < n
         /\ m * FloatUnit = n * FloatUnit <=> m = n
<1>1. PICK u \in Nat : u = FloatUnit /\ u >= 1
  BY FloatAssumption
<1>2. ASSUME NEW a \in Int, NEW b \in Int, a < b PROVE a * u < b * u
  <2>1. PICK d \in Nat : b = a + 1 + d
    <3>1. b - a - 1 \in Nat /\ b = a + 1 + (b - a - 1)
      BY <1>2
    <3> QED BY <3>1
  <2>2. d * u \in Nat
    OBVIOUS
  <2>3. b * u = a * u + u + d * u
    BY <2>1
  <2>4. a * u \in Int
    OBVIOUS
  <2> QED BY <2>2, <2>3, <2>4, <1>1
<1>3. m * u \in Int /\ n * u \in Int
  OBVIOUS
<1>4. m < n \/ m = n \/ n < m
  OBVIOUS
<1>5. m < n => m * u < n * u
  BY <1>2
<1>6. n < m => n * u < m * u
  BY <1>2
<1> QED BY <1>1, <1>3, <1>4, <1>5, <1>6

-----------------------------------------------------------------------------
(* Texts: the parser's constants and their spellings.                      *)

\* extractConstValue gives an int32 that is not -2^31, a text, a boolean or nil.
LEMMA ExtractedConst ==
  ASSUME NEW l \in Literals
  PROVE  extractConstValue(l) \in Consts
<1>1. CASE l \in [kind : {"num"}, num : Int, text : {<<>>}]
  <2>1. l.kind = "num" /\ l.num \in Int
    BY <1>1
  <2>2. PICK a \in Nat : a = (IF l.num < 0 THEN -l.num ELSE l.num)
    BY <2>1
  <2>3. CASE 2 * a < Power(4)
    <3>1. l.num \in SmallInt
      <4>1. PICK h \in Nat : Power(4) = 2 * h /\ SmallInt = (1 - h) .. (h - 1)
        BY Half
      <4>2. a < h
        BY <2>3, <4>1
      <4>3. l.num \in (1 - h) .. (h - 1)
        BY <2>1, <2>2, <4>2
      <4> QED BY <4>1, <4>3
    <3>2. extractConstValue(l) = IntVal(l.num)
      <4>1. ~(2 * (IF l.num < 0 THEN -l.num ELSE l.num) >= Radix^4)
        <5>1. ~(2 * a >= Power(4))
          BY <2>3, Half
        <5> QED BY <2>2, <5>1, Zenon DEF Power
      <4> QED BY <4>1, <2>1, Zenon DEF extractConstValue
    <3>3. IntVal(l.num) \in [kind : {"int"}, num : SmallInt, text : {<<>>}]
      BY <3>1 DEF IntVal
    <3> QED BY <3>2, <3>3 DEF Consts
  <2>4. CASE ~(2 * a < Power(4))
    <3>1. extractConstValue(l) = TextVal(Digits(l.num))
      <4>1. 2 * (IF l.num < 0 THEN -l.num ELSE l.num) >= Radix^4
        <5>1. 2 * a >= Power(4)
          BY <2>4, Half
        <5> QED BY <2>2, <5>1, Zenon DEF Power
      <4> QED BY <4>1, <2>1, Zenon DEF extractConstValue
    <3>2. Digits(l.num) \in Texts
      BY <2>1, DigitsTexts
    <3>3. TextVal(Digits(l.num)) \in [kind : {"text"}, num : {0}, text : Texts]
      BY <3>2 DEF TextVal
    <3> QED BY <3>1, <3>3 DEF Consts
  <2> QED BY <2>3, <2>4
<1>2. CASE l \in [kind : {"text"}, num : {0}, text : Texts]
  <2>1. extractConstValue(l) = l
    BY <1>2 DEF extractConstValue
  <2> QED BY <1>2, <2>1 DEF Consts
<1>3. CASE l \in [kind : {"float"}, num : {0}, text : Texts]
  <2>1. extractConstValue(l) = TextVal(l.text) /\ l.text \in Texts
    BY <1>3 DEF extractConstValue
  <2>2. TextVal(l.text) \in [kind : {"text"}, num : {0}, text : Texts]
    BY <2>1 DEF TextVal
  <2> QED BY <2>1, <2>2 DEF Consts
<1>4. CASE l \in {BoolLit(TRUE), BoolLit(FALSE)}
  <2>1. l.kind = "bool"
    BY <1>4 DEF BoolLit, BoolVal
  <2>2. extractConstValue(l) = l
    BY <2>1 DEF extractConstValue
  <2> QED BY <1>4, <2>2 DEF Consts, BoolLit
<1>5. CASE l \in {NullLit, ExprLit}
  <2>1. l.kind \in {"null", "expr"}
    BY <1>5 DEF NullLit, ExprLit
  <2>2. extractConstValue(l) = Nil
    BY <2>1 DEF extractConstValue
  <2> QED BY <2>2 DEF Consts
<1> QED BY <1>1, <1>2, <1>3, <1>4, <1>5 DEF Literals

\* The spellings of true, false and nil are texts.
LEMMA SpelledTexts ==
  TrueText \in Texts /\ FalseText \in Texts /\ NilText \in Texts /\ <<>> \in Texts
<1>1. TrueText \in Texts
  BY DEF TrueText, Texts
<1>2. FalseText \in Texts
  BY DEF FalseText, Texts
<1>3. NilText \in Texts
  BY DEF NilText, Texts
<1> QED BY <1>1, <1>2, <1>3 DEF Texts

\* fmt and toString give a text for every constant.
LEMMA FormattedConst ==
  ASSUME NEW v \in Consts
  PROVE  Formatted(v) \in Texts /\ toString(v) \in Texts
<1>1. v.num \in Int
  BY ConstKinds, SmallIntRange
<1>2. CASE v.kind = "int"
  BY <1>1, <1>2, DigitsTexts DEF Formatted, toString
<1>3. CASE v.kind = "text"
  BY <1>3, ConstKinds DEF Formatted, toString
<1>4. CASE v.kind = "bool"
  BY <1>4, SpelledTexts DEF Formatted, toString
<1>5. CASE v.kind = "nil"
  BY <1>5, SpelledTexts DEF Formatted, toString
<1> QED BY <1>2, <1>3, <1>4, <1>5, ConstKinds

-----------------------------------------------------------------------------
(* Signs.                                                                  *)

\* What a sign gives back.
SignBlocks == {b \in Seq(0 .. 239) : WellFormed(b)}

\* A byte of b that is a character or belongs to a complete one.
Whole(b, i) ==
  \/ b[i] < 128
  \/ IsLead(b[i]) /\ i < Len(b) /\ IsFollow(b[i + 1])
  \/ IsFollow(b[i]) /\ i > 1 /\ IsLead(b[i - 1])

\* The plugin byte by byte.
PluginParts(b) == [i \in DOMAIN b |-> IF Whole(b, i) THEN <<b[i]>> ELSE <<239, 191, 189>>]

\* The bytes of U+FFFD.
LEMMA Replacement ==
  /\ <<239, 191, 189>> \in Seq(0 .. 239) /\ Len(<<239, 191, 189>>) = 3
  /\ <<239, 191, 189>>[1] = 239 /\ <<239, 191, 189>>[2] = 191 /\ <<239, 191, 189>>[3] = 189
OBVIOUS

\* An element of a sequence is in its range.
LEMMA Element ==
  ASSUME NEW S, NEW s \in Seq(S), NEW i \in 1 .. Len(s)
  PROVE  s[i] \in S
OBVIOUS

\* The plugin replaces every byte that is no part of a character by U+FFFD.
LEMMA PartsOfPlugin ==
  ASSUME NEW b \in Seq(0 .. 223)
  PROVE  /\ PluginText(b) = FlattenSeq(PluginParts(b))
         /\ PluginParts(b) \in Seq(Seq(0 .. 239)) /\ Len(PluginParts(b)) = Len(b)
         /\ \A i \in 1 .. Len(b) :
              /\ Whole(b, i) => PluginParts(b)[i] = <<b[i]>>
              /\ ~Whole(b, i) => PluginParts(b)[i] = <<239, 191, 189>>
<1>1. PluginText(b) = FlattenSeq(PluginParts(b))
  BY DEF PluginText, PluginParts, Whole
<1>2. \A i \in 1 .. Len(b) : <<b[i]>> \in Seq(0 .. 239)
  <2> SUFFICES ASSUME NEW i \in 1 .. Len(b) PROVE <<b[i]>> \in Seq(0 .. 239)
    OBVIOUS
  <2>1. b[i] \in 0 .. 223
    BY Element, Zenon
  <2>2. PICK x \in 0 .. 239 : x = b[i]
    BY <2>1
  <2> QED BY <2>2
<1>3. PICK n \in Nat : n = Len(b)
  OBVIOUS
<1>4. DOMAIN b = 1 .. n
  BY <1>3
<1>5. PluginParts(b) = [i \in 1 .. n |-> IF Whole(b, i) THEN <<b[i]>> ELSE <<239, 191, 189>>]
  BY <1>4 DEF PluginParts
<1>6. \A i \in 1 .. n : (IF Whole(b, i) THEN <<b[i]>> ELSE <<239, 191, 189>>) \in Seq(0 .. 239)
  BY <1>2, <1>3, Replacement
<1>7. PluginParts(b) \in Seq(Seq(0 .. 239)) /\ Len(PluginParts(b)) = n
  BY <1>5, <1>6
<1> QED BY <1>1, <1>3, <1>5, <1>7

-----------------------------------------------------------------------------
(* The plugin and well-formed texts.                                       *)

\* No byte is of two kinds.
LEMMA ByteFacts ==
  ASSUME NEW x \in 0 .. 223
  PROVE  /\ x # 239
         /\ IsLead(x) => ~(x < 128) /\ ~IsFollow(x)
         /\ IsFollow(x) => ~(x < 128) /\ ~IsLead(x)
BY DEF IsLead, IsFollow

\* 192 and 193 belong to no character.
LEMMA NoCharacter ==
  ASSUME NEW x \in 0 .. 223, x < 128 \/ IsLead(x) \/ IsFollow(x)
  PROVE  x \notin 192 .. 193
BY DEF IsLead, IsFollow

\* Byte i of s, of length n, stands where UTF-8 has such a byte.
Placed(s, n, i) ==
  /\ s[i] \notin 192 .. 193
  /\ IsLead(s[i]) => i < n /\ IsFollow(s[i + 1])
  /\ s[i] = 239 => i + 1 < n /\ IsFollow(s[i + 2])
  /\ IsFollow(s[i]) => /\ i > 1
                       /\ \/ IsLead(s[i - 1])
                          \/ i > 2 /\ IsFollow(s[i - 1]) /\ s[i - 2] = 239

\* Well-formedness, byte by byte.
LEMMA AllPlaced ==
  ASSUME NEW s
  PROVE  WellFormed(s) <=> \A i \in DOMAIN s : Placed(s, Len(s), i)
BY DEF WellFormed, Placed

\* Whatever bytes a sign is sent, the text that the plugin keeps is well-formed.
LEMMA PluginWellFormed ==
  ASSUME NEW b \in Seq(0 .. 223)
  PROVE  PluginText(b) \in SignBlocks
<1>1. PICK ss \in Seq(Seq(0 .. 239)) :
        /\ PluginText(b) = FlattenSeq(ss) /\ Len(ss) = Len(b)
        /\ \A i \in 1 .. Len(b) : /\ Whole(b, i) => ss[i] = <<b[i]>>
                                  /\ ~Whole(b, i) => ss[i] = <<239, 191, 189>>
  BY PartsOfPlugin
<1>2. PICK off : Offsets(ss, off)
  BY OffsetsExist
<1>3. PICK q \in Seq(0 .. 239) : q = PluginText(b) /\ Laid(ss, off, Len(ss), q)
  BY <1>1, <1>2, Flattened
<1>4. PICK n \in Nat : n = Len(b)
  OBVIOUS
<1>5. /\ Len(ss) = n /\ Len(q) = off[n] /\ off \in [0 .. n -> Nat] /\ off[0] = 0
      /\ \A i \in 1 .. n : off[i] = off[i - 1] + Len(ss[i])
      /\ \A i \in 1 .. n : \A k \in 1 .. Len(ss[i]) : q[off[i - 1] + k] = ss[i][k]
  BY <1>1, <1>2, <1>3, <1>4 DEF Offsets, Laid
<1>6. ASSUME NEW i \in 0 .. n PROVE off[i] \in Nat /\ off[i] <= Len(q)
  <2>1. \A j \in 0 .. Len(ss) : \A k \in 0 .. j : off[k] <= off[j]
    BY <1>2, OffsetsGrow
  <2> QED BY <2>1, <1>5
<1>7. ASSUME NEW i \in 1 .. n, Whole(b, i)
      PROVE  q[off[i - 1] + 1] = b[i] /\ off[i] = off[i - 1] + 1
  <2>1. ss[i] = <<b[i]>>
    BY <1>7, <1>1, <1>4
  <2>2. Len(ss[i]) = 1 /\ ss[i][1] = b[i]
    BY <2>1
  <2>3. 1 \in 1 .. Len(ss[i])
    BY <2>2
  <2> QED BY <2>2, <2>3, <1>5
<1>8. ASSUME NEW i \in 1 .. n, ~Whole(b, i)
      PROVE  /\ q[off[i - 1] + 1] = 239 /\ q[off[i - 1] + 2] = 191 /\ q[off[i - 1] + 3] = 189
             /\ off[i] = off[i - 1] + 3
  <2>1. ss[i] = <<239, 191, 189>>
    BY <1>8, <1>1, <1>4
  <2>2. Len(ss[i]) = 3 /\ ss[i][1] = 239 /\ ss[i][2] = 191 /\ ss[i][3] = 189
    BY <2>1, Replacement
  <2>3. 1 \in 1 .. Len(ss[i]) /\ 2 \in 1 .. Len(ss[i]) /\ 3 \in 1 .. Len(ss[i])
    BY <2>2
  <2>4. q[off[i - 1] + 1] = ss[i][1] /\ q[off[i - 1] + 2] = ss[i][2] /\ q[off[i - 1] + 3] = ss[i][3]
    BY <2>3, <1>5, Zenon
  <2>5. off[i] = off[i - 1] + Len(ss[i])
    BY <1>5
  <2> QED BY <2>2, <2>4, <2>5
<1>9. ASSUME NEW i \in 1 .. n PROVE b[i] \in 0 .. 223
  BY <1>4, Element, Zenon
<1>10. ASSUME NEW p \in 1 .. Len(q)
       PROVE  /\ q[p] \notin 192 .. 193
              /\ IsLead(q[p]) => p < Len(q) /\ IsFollow(q[p + 1])
              /\ q[p] = 239 => p + 1 < Len(q) /\ IsFollow(q[p + 2])
              /\ IsFollow(q[p]) => /\ p > 1
                                   /\ \/ IsLead(q[p - 1])
                                      \/ p > 2 /\ IsFollow(q[p - 1]) /\ q[p - 2] = 239
  <2>1. PICK i \in 1 .. n : \E k \in 1 .. Len(ss[i]) : p = off[i - 1] + k
    <3>1. p \in 1 .. off[Len(ss)]
      BY <1>5
    <3>2. \E j \in 1 .. Len(ss) : \E k \in 1 .. Len(ss[j]) : p = off[j - 1] + k
      <4>1. InPart(ss, off, p)
        BY <3>1, <1>2, PartOf
      <4> QED BY <4>1 DEF InPart
    <3> QED BY <3>2, <1>5
  <2>a. i - 1 \in 0 .. n /\ i \in 0 .. n
    BY <1>4
  <2>2. PICK o \in Nat : o = off[i - 1]
    BY <2>a, <1>6
  <2>3. CASE Whole(b, i)
    <3>1. off[i] = o + 1 /\ q[o + 1] = b[i] /\ o + 1 <= Len(q)
      BY <2>a, <2>2, <2>3, <1>6, <1>7
    <3>2. p = o + 1
      <4>1. Len(ss[i]) = 1
        <5>1. ss[i] = <<b[i]>>
          BY <2>3, <1>1, <1>4
        <5> QED BY <5>1
      <4> QED BY <4>1, <2>1, <2>2
    <3>3. b[i] \in 0 .. 223
      BY <1>9
    <3>4. ASSUME IsLead(b[i]) PROVE p < Len(q) /\ IsFollow(q[p + 1])
      <4>1. i < n /\ IsFollow(b[i + 1])
        <5>1. ~(b[i] < 128) /\ ~IsFollow(b[i])
          BY <3>3, <3>4, ByteFacts, Zenon
        <5> QED BY <5>1, <2>3, <1>4 DEF Whole
      <4>2. i + 1 \in 1 .. n /\ (i + 1) - 1 = i /\ i + 1 > 1 /\ i + 1 \in 0 .. n
        BY <4>1
      <4>3. Whole(b, i + 1)
        BY <4>1, <4>2, <3>4 DEF Whole
      <4>4. q[off[i] + 1] = b[i + 1] /\ off[i + 1] = off[i] + 1 /\ off[i + 1] <= Len(q)
        BY <4>2, <4>3, <1>6, <1>7
      <4> QED BY <4>1, <4>4, <3>1, <3>2
    <3>5. ASSUME IsFollow(b[i]) PROVE p > 1 /\ IsLead(q[p - 1])
      <4>1. i > 1 /\ IsLead(b[i - 1])
        <5>1. ~(b[i] < 128) /\ ~IsLead(b[i])
          BY <3>3, <3>5, ByteFacts, Zenon
        <5> QED BY <5>1, <2>3 DEF Whole
      <4>2. i - 1 \in 1 .. n /\ (i - 1) + 1 = i /\ i - 1 < Len(b) /\ (i - 1) - 1 \in 0 .. n
        BY <4>1, <1>4
      <4>3. Whole(b, i - 1)
        BY <4>1, <4>2, <3>5 DEF Whole
      <4>4. q[off[(i - 1) - 1] + 1] = b[i - 1] /\ o = off[(i - 1) - 1] + 1
            /\ off[(i - 1) - 1] \in Nat
        BY <4>2, <4>3, <1>6, <1>7, <2>2
      <4>6. PICK z \in Nat : z = off[(i - 1) - 1]
        BY <4>4
      <4>7. q[z + 1] = b[i - 1] /\ o = z + 1
        BY <4>4, <4>6
      <4>8. p > 1 /\ p - 1 = z + 1
        BY <4>7, <3>2
      <4>5. p > 1 /\ q[p - 1] = b[i - 1]
        BY <4>7, <4>8
      <4> QED BY <4>1, <4>5
    <3>6. q[p] = b[i] /\ q[p] # 239
      <4>1. q[p] = b[i]
        BY <3>1, <3>2
      <4>2. b[i] # 239
        BY <3>3, ByteFacts, Zenon
      <4> QED BY <4>1, <4>2
    <3>7. q[p] \notin 192 .. 193
      <4>1. b[i] < 128 \/ IsLead(b[i]) \/ IsFollow(b[i])
        BY <2>3 DEF Whole
      <4>2. b[i] \notin 192 .. 193
        BY <3>3, <4>1, NoCharacter
      <4> QED BY <4>2, <3>6
    <3> QED BY <3>4, <3>5, <3>6, <3>7
  <2>4. CASE ~Whole(b, i)
    <3>1. /\ q[o + 1] = 239 /\ q[o + 2] = 191 /\ q[o + 3] = 189 /\ off[i] = o + 3
          /\ o + 3 <= Len(q)
      <4>1. /\ q[o + 1] = 239 /\ q[o + 2] = 191 /\ q[o + 3] = 189 /\ off[i] = o + 3
        BY <2>2, <2>4, <1>8
      <4>2. off[i] <= Len(q)
        BY <2>a, <1>6
      <4> QED BY <4>1, <4>2
    <3>2. p = o + 1 \/ p = o + 2 \/ p = o + 3
      <4>1. Len(ss[i]) = 3
        <5>1. ss[i] = <<239, 191, 189>>
          BY <2>4, <1>1, <1>4
        <5> QED BY <5>1, Replacement
      <4>2. PICK k \in 1 .. Len(ss[i]) : p = off[i - 1] + k
        BY <2>1
      <4>3. k = 1 \/ k = 2 \/ k = 3
        BY <4>1
      <4> QED BY <4>2, <4>3, <2>2
    <3>3. /\ IsLead(239) /\ IsFollow(191) /\ IsFollow(189) /\ ~IsFollow(239)
          /\ ~IsLead(191) /\ ~IsLead(189)
          /\ 239 \notin 192 .. 193 /\ 191 \notin 192 .. 193 /\ 189 \notin 192 .. 193
      BY DEF IsLead, IsFollow
    <3>4. Len(q) \in Nat
      OBVIOUS
    <3>5. CASE p = o + 1
      <4>1. p + 1 = o + 2 /\ p + 2 = o + 3 /\ p < Len(q) /\ p + 1 < Len(q)
        BY <3>1, <3>4, <3>5
      <4> QED BY <4>1, <3>1, <3>3, <3>5
    <3>6. CASE p = o + 2
      <4>1. p - 1 = o + 1 /\ p > 1
        BY <3>6
      <4> QED BY <4>1, <3>1, <3>3, <3>6
    <3>7. CASE p = o + 3
      <4>1. p - 1 = o + 2 /\ p - 2 = o + 1 /\ p > 2 /\ p > 1
        BY <3>7
      <4> QED BY <4>1, <3>1, <3>3, <3>7
    <3> QED BY <3>2, <3>5, <3>6, <3>7
  <2> QED BY <2>3, <2>4
<1>11. WellFormed(q)
  <2>1. DOMAIN q = 1 .. Len(q)
    OBVIOUS
  <2>2. \A p \in 1 .. Len(q) : Placed(q, Len(q), p)
    BY <1>10 DEF Placed
  <2> QED BY <2>1, <2>2, AllPlaced
<1> QED BY <1>3, <1>11 DEF SignBlocks

\* Flattening one-element parts gives back the sequence of the elements.
LEMMA Singles ==
  ASSUME NEW S, NEW b \in Seq(S), NEW ss \in Seq(Seq(S)), Len(ss) = Len(b),
         \A i \in 1 .. Len(b) : ss[i] = <<b[i]>>
  PROVE  FlattenSeq(ss) = b
<1>1. PICK n \in Nat : n = Len(b)
  OBVIOUS
<1> DEFINE off == [i \in 0 .. n |-> i]
<1>2. ASSUME NEW i \in 1 .. n PROVE Len(ss[i]) = 1 /\ ss[i][1] = b[i]
  <2>1. ss[i] = <<b[i]>>
    BY <1>1
  <2> QED BY <2>1
<1>3. off \in [0 .. n -> Nat] /\ off[0] = 0 /\ \A i \in 1 .. n : off[i] = off[i - 1] + 1
  OBVIOUS
<1>4. \A i \in 1 .. n : off[i - 1] + 1 = i
  OBVIOUS
<1>5. off[n] = n
  OBVIOUS
<1> HIDE DEF off
<1>6. Offsets(ss, off)
  BY <1>1, <1>2, <1>3 DEF Offsets
<1>7. PICK q \in Seq(S) : q = FlattenSeq(ss) /\ Laid(ss, off, Len(ss), q)
  BY <1>6, Flattened
<1>8. Len(q) = Len(b) /\ \A i \in 1 .. n : q[i] = b[i]
  <2>1. Len(q) = n
    BY <1>1, <1>5, <1>7 DEF Laid
  <2>2. ASSUME NEW i \in 1 .. n PROVE q[i] = b[i]
    <3>1. 1 \in 1 .. Len(ss[i])
      BY <1>2
    <3>2. q[off[i - 1] + 1] = ss[i][1]
      BY <3>1, <1>1, <1>7 DEF Laid
    <3> QED BY <3>2, <1>2, <1>4
  <2> QED BY <2>1, <2>2, <1>1
<1> QED BY <1>1, <1>7, <1>8, SameSeq

\* A sequence over a set is one over every larger set.
LEMMA Wider ==
  ASSUME NEW S, NEW T, S \subseteq T, NEW s \in Seq(S)
  PROVE  s \in Seq(T)
OBVIOUS

\* The plugin keeps a text of whole characters as it is.
LEMMA PluginIdentity ==
  ASSUME NEW b \in Seq(0 .. 223), \A i \in 1 .. Len(b) : Whole(b, i)
  PROVE  PluginText(b) = b
<1>1. PICK ss \in Seq(Seq(0 .. 239)) :
        /\ PluginText(b) = FlattenSeq(ss) /\ Len(ss) = Len(b)
        /\ \A i \in 1 .. Len(b) : /\ Whole(b, i) => ss[i] = <<b[i]>>
                                  /\ ~Whole(b, i) => ss[i] = <<239, 191, 189>>
  BY PartsOfPlugin
<1>2. b \in Seq(0 .. 239)
  <2>1. 0 .. 223 \subseteq 0 .. 239
    OBVIOUS
  <2> QED BY <2>1, Wider
<1> QED BY <1>1, <1>2, Singles

\* A finite set of numbers has a c-th element: the c-th NUL of a sign.
LEMMA NthExists ==
  ASSUME NEW n \in Nat, NEW N \in SUBSET (1 .. n), NEW c \in 1 .. Cardinality(N)
  PROVE  \E i \in N : Cardinality({j \in N : j < i}) = c - 1
<1> DEFINE P(U) == \A k \in 1 .. Cardinality(U) : \E i \in U : Cardinality({j \in U : j < i}) = k - 1
           T == {m \in Nat : \A U \in SUBSET (1 .. m) : P(U)}
<1>1. 0 \in T
  <2>1. 1 .. 0 = {}
    OBVIOUS
  <2>2. Cardinality({}) = 0
    BY FS_EmptySet
  <2>3. \A U \in SUBSET (1 .. 0) : U = {}
    BY <2>1
  <2> QED BY <2>1, <2>2, <2>3
<1>2. ASSUME NEW m \in Nat, m \in T PROVE m + 1 \in T
  <2> SUFFICES ASSUME NEW U \in SUBSET (1 .. m + 1), NEW k \in 1 .. Cardinality(U)
               PROVE  \E i \in U : Cardinality({j \in U : j < i}) = k - 1
    OBVIOUS
  <2>1. CASE m + 1 \notin U
    <3>1. U \in SUBSET (1 .. m)
      BY <2>1
    <3> QED BY <3>1, <1>2
  <2>2. CASE m + 1 \in U
    <3> DEFINE V == U \ {m + 1}
    <3>1. V \in SUBSET (1 .. m)
      OBVIOUS
    <3>2. IsFiniteSet(U)
      <4>1. IsFiniteSet(1 .. m + 1)
        BY FS_Interval
      <4> QED BY <4>1, FS_Subset
    <3>3. Cardinality(V) = Cardinality(U) - 1 /\ Cardinality(U) \in Nat
      BY <3>2, <2>2, FS_RemoveElement, FS_CardinalityType
    <3>4. CASE k = Cardinality(U)
      <4>1. {j \in U : j < m + 1} = V
        <5>1. \A j \in U : j < m + 1 <=> j # m + 1
          OBVIOUS
        <5> QED BY <5>1, Zenon
      <4> QED BY <4>1, <3>3, <3>4, <2>2
    <3>5. CASE k # Cardinality(U)
      <4>1. k \in 1 .. Cardinality(V)
        BY <3>3, <3>5
      <4>2. PICK i \in V : Cardinality({j \in V : j < i}) = k - 1
        BY <4>1, <3>1, <1>2
      <4>3. {j \in U : j < i} = {j \in V : j < i}
        BY <3>1
      <4> QED BY <4>2, <4>3
    <3> QED BY <3>4, <3>5
  <2> QED BY <2>1, <2>2
<1> HIDE DEF T
<1>3. \A m \in Nat : m \in T
  BY <1>1, <1>2, SetInduction
<1>4. n \in T
  BY <1>3
<1> QED BY <1>4 DEF T

\* What lies between two NULs of a well-formed sign is well-formed.
LEMMA PieceWellFormed ==
  ASSUME NEW data \in SignBlocks, NEW f \in 1 .. Len(data) + 1, NEW t \in 0 .. Len(data),
         f = 1 \/ data[f - 1] = 0, t = Len(data) \/ data[t + 1] = 0
  PROVE  SubSeq(data, f, t) \in SignBlocks
<1>0. data \in Seq(0 .. 239) /\ Len(data) \in Nat /\ WellFormed(data)
  BY DEF SignBlocks
<1>1. CASE t < f
  <2>1. SubSeq(data, f, t) = <<>>
    BY <1>0, <1>1
  <2>2. <<>> \in Seq(0 .. 239) /\ WellFormed(<<>>)
    BY DEF WellFormed
  <2> QED BY <2>1, <2>2 DEF SignBlocks
<1>2. CASE f <= t
  <2>1. PICK o \in Nat : o = f - 1
    OBVIOUS
  <2>2. PICK k \in Nat : k = t - o
    BY <1>0, <1>2, <2>1
  <2>3. f = o + 1 /\ t = o + k /\ o + k <= Len(data) /\ k > 0
    BY <1>0, <1>2, <2>1, <2>2
  <2>4. PICK p : p = SubSeq(data, o + 1, o + k)
    OBVIOUS
  <2>5. p \in Seq(0 .. 239) /\ Len(p) = k /\ \A i \in 1 .. k : p[i] = data[o + i]
    <3>1. p \in Seq(0 .. 239)
      BY <1>0, <2>3, <2>4, Part, Zenon
    <3>2. Len(p) = k /\ \A i \in 1 .. k : p[i] = data[o + i]
      BY <1>0, <2>3, <2>4
    <3> QED BY <3>1, <3>2
  <2>6. ~IsLead(0) /\ ~IsFollow(0) /\ 0 # 239
    BY DEF IsLead, IsFollow
  <2>7. /\ o = 0 \/ data[o] = 0
        /\ o + k = Len(data) \/ data[o + k + 1] = 0
    BY <2>1, <2>2, <2>3
  <2>8. ASSUME NEW i \in 1 .. k
        PROVE  /\ p[i] \notin 192 .. 193
               /\ IsLead(p[i]) => i < k /\ IsFollow(p[i + 1])
               /\ p[i] = 239 => i + 1 < k /\ IsFollow(p[i + 2])
               /\ IsFollow(p[i]) => /\ i > 1
                                    /\ \/ IsLead(p[i - 1])
                                       \/ i > 2 /\ IsFollow(p[i - 1]) /\ p[i - 2] = 239
    <3>1. o + i \in 1 .. Len(data) /\ p[i] = data[o + i]
      BY <1>0, <2>3, <2>5
    <3>2. /\ data[o + i] \notin 192 .. 193
          /\ IsLead(data[o + i]) => o + i < Len(data) /\ IsFollow(data[o + i + 1])
          /\ data[o + i] = 239 => o + i + 1 < Len(data) /\ IsFollow(data[o + i + 2])
          /\ IsFollow(data[o + i]) =>
               /\ o + i > 1
               /\ \/ IsLead(data[o + i - 1])
                  \/ o + i > 2 /\ IsFollow(data[o + i - 1]) /\ data[o + i - 2] = 239
      <4>1. o + i \in DOMAIN data
        BY <3>1, <1>0
      <4>2. Placed(data, Len(data), o + i)
        BY <4>1, <1>0, AllPlaced, Zenon
      <4>3. PICK e, n : e = o + i /\ n = Len(data)
        OBVIOUS
      <4>4. /\ data[e] \notin 192 .. 193
            /\ IsLead(data[e]) => e < n /\ IsFollow(data[e + 1])
            /\ data[e] = 239 => e + 1 < n /\ IsFollow(data[e + 2])
            /\ IsFollow(data[e]) =>
                 /\ e > 1
                 /\ \/ IsLead(data[e - 1])
                    \/ e > 2 /\ IsFollow(data[e - 1]) /\ data[e - 2] = 239
        <5>1. Placed(data, n, e)
          BY <4>2, <4>3
        <5> QED BY <5>1, Zenon DEF Placed
      <4> QED BY <4>3, <4>4
    <3>3. ASSUME IsLead(data[o + i]) PROVE i < k /\ IsFollow(p[i + 1])
      <4>1. o + i < Len(data) /\ IsFollow(data[o + i + 1])
        BY <3>2, <3>3
      <4>2. i # k
        <5> SUFFICES ASSUME i = k PROVE FALSE
          OBVIOUS
        <5>1. data[o + i + 1] = 0
          BY <4>1, <2>7
        <5> QED BY <5>1, <4>1, <2>6
      <4>3. i + 1 \in 1 .. k
        BY <4>2
      <4>4. p[i + 1] = data[o + (i + 1)]
        BY <4>3, <2>5
      <4>5. o + (i + 1) = o + i + 1 /\ i < k
        BY <4>3
      <4> QED BY <4>1, <4>4, <4>5
    <3>4. ASSUME data[o + i] = 239 PROVE i + 1 < k /\ IsFollow(p[i + 2])
      <4>1. o + i + 1 < Len(data) /\ IsFollow(data[o + i + 2]) /\ IsLead(data[o + i])
        BY <3>2, <3>4 DEF IsLead
      <4>2. i < k
        BY <4>1, <3>3
      <4>3. i + 1 # k
        <5> SUFFICES ASSUME i + 1 = k PROVE FALSE
          OBVIOUS
        <5>1. o + k + 1 = o + i + 2 /\ o + k # Len(data)
          BY <4>1
        <5>2. data[o + i + 2] = 0
          BY <5>1, <2>7
        <5> QED BY <5>2, <4>1, <2>6
      <4>4. i + 2 \in 1 .. k /\ o + (i + 2) = o + i + 2
        BY <4>2, <4>3
      <4>5. p[i + 2] = data[o + (i + 2)]
        BY <4>4, <2>5
      <4> QED BY <4>1, <4>2, <4>3, <4>4, <4>5
    <3>5. ASSUME IsFollow(data[o + i])
          PROVE  /\ i > 1
                 /\ \/ IsLead(p[i - 1])
                    \/ i > 2 /\ IsFollow(p[i - 1]) /\ p[i - 2] = 239
      <4>1. /\ o + i > 1
            /\ \/ IsLead(data[o + i - 1])
               \/ o + i > 2 /\ IsFollow(data[o + i - 1]) /\ data[o + i - 2] = 239
        BY <3>2, <3>5
      <4>2. i > 1
        <5> SUFFICES ASSUME i = 1 PROVE FALSE
          OBVIOUS
        <5>1. o + i - 1 = o /\ o # 0
          BY <4>1
        <5>2. data[o + i - 1] = 0
          BY <5>1, <2>7
        <5> QED BY <5>2, <4>1, <2>6
      <4>3. i - 1 \in 1 .. k /\ o + (i - 1) = o + i - 1
        BY <4>2
      <4>4. p[i - 1] = data[o + i - 1]
        BY <4>3, <2>5
      <4>5. CASE IsLead(data[o + i - 1])
        BY <4>2, <4>4, <4>5
      <4>6. CASE o + i > 2 /\ IsFollow(data[o + i - 1]) /\ data[o + i - 2] = 239
        <5>1. i > 2
          <6> SUFFICES ASSUME i = 2 PROVE FALSE
            BY <4>2
          <6>1. o + i - 2 = o /\ o # 0
            BY <4>6
          <6>2. data[o + i - 2] = 0
            BY <6>1, <2>7
          <6> QED BY <6>2, <4>6
        <5>2. i - 2 \in 1 .. k /\ o + (i - 2) = o + i - 2
          BY <5>1
        <5>3. p[i - 2] = data[o + i - 2]
          BY <5>2, <2>5
        <5> QED BY <5>1, <5>3, <4>2, <4>4, <4>6
      <4> QED BY <4>1, <4>5, <4>6
    <3> QED BY <3>1, <3>2, <3>3, <3>4, <3>5
  <2>9. WellFormed(p)
    <3>1. DOMAIN p = 1 .. k
      BY <2>5
    <3>2. \A i \in 1 .. k : Placed(p, k, i)
      BY <2>8 DEF Placed
    <3> QED BY <2>5, <3>1, <3>2, AllPlaced
  <2> QED BY <2>3, <2>4, <2>5, <2>9 DEF SignBlocks
<1> QED BY <1>1, <1>2, <1>0

\* Two well-formed texts in a row are well-formed.
LEMMA JoinedWellFormed ==
  ASSUME NEW s \in SignBlocks, NEW t \in SignBlocks
  PROVE  s \o t \in SignBlocks
<1>0. /\ s \in Seq(0 .. 239) /\ t \in Seq(0 .. 239) /\ WellFormed(s) /\ WellFormed(t)
  BY DEF SignBlocks
<1>1. PICK a \in Nat, b \in Nat : a = Len(s) /\ b = Len(t)
  BY <1>0
<1>2. PICK q : q = s \o t
  OBVIOUS
<1>3. /\ q \in Seq(0 .. 239) /\ Len(q) = a + b
      /\ \A i \in 1 .. a : q[i] = s[i]
      /\ \A i \in 1 .. b : q[a + i] = t[i]
  BY <1>0, <1>1, <1>2, Joined
<1>4. ASSUME NEW p \in 1 .. a + b
      PROVE  /\ q[p] \notin 192 .. 193
             /\ IsLead(q[p]) => p < a + b /\ IsFollow(q[p + 1])
             /\ q[p] = 239 => p + 1 < a + b /\ IsFollow(q[p + 2])
             /\ IsFollow(q[p]) => /\ p > 1
                                  /\ \/ IsLead(q[p - 1])
                                     \/ p > 2 /\ IsFollow(q[p - 1]) /\ q[p - 2] = 239
  <2>1. CASE p <= a
    <3>1. p \in 1 .. a /\ q[p] = s[p]
      BY <2>1, <1>3
    <3>2. /\ s[p] \notin 192 .. 193
          /\ IsLead(s[p]) => p < a /\ IsFollow(s[p + 1])
          /\ s[p] = 239 => p + 1 < a /\ IsFollow(s[p + 2])
          /\ IsFollow(s[p]) => /\ p > 1
                               /\ \/ IsLead(s[p - 1])
                                  \/ p > 2 /\ IsFollow(s[p - 1]) /\ s[p - 2] = 239
      <4>1. p \in DOMAIN s
        BY <3>1, <1>0, <1>1
      <4>2. Placed(s, Len(s), p)
        BY <4>1, <1>0, AllPlaced, Zenon
      <4>3. Placed(s, a, p)
        BY <4>2, <1>1
      <4> QED BY <4>3, Zenon DEF Placed
    <3>3. /\ p < a => q[p + 1] = s[p + 1]
          /\ p + 1 < a => q[p + 2] = s[p + 2]
          /\ p > 1 => q[p - 1] = s[p - 1]
          /\ p > 2 => q[p - 2] = s[p - 2]
      BY <3>1, <1>3
    <3> QED BY <3>1, <3>2, <3>3
  <2>2. CASE p > a
    <3>1. PICK i \in 1 .. b : p = a + i
      BY <2>2
    <3>2. q[p] = t[i]
      BY <3>1, <1>3
    <3>3. /\ t[i] \notin 192 .. 193
          /\ IsLead(t[i]) => i < b /\ IsFollow(t[i + 1])
          /\ t[i] = 239 => i + 1 < b /\ IsFollow(t[i + 2])
          /\ IsFollow(t[i]) => /\ i > 1
                               /\ \/ IsLead(t[i - 1])
                                  \/ i > 2 /\ IsFollow(t[i - 1]) /\ t[i - 2] = 239
      <4>1. i \in DOMAIN t
        BY <1>0, <1>1
      <4>2. Placed(t, Len(t), i)
        BY <4>1, <1>0, AllPlaced, Zenon
      <4>3. Placed(t, b, i)
        BY <4>2, <1>1
      <4> QED BY <4>3, Zenon DEF Placed
    <3>4. /\ i < b => i + 1 \in 1 .. b /\ p + 1 = a + (i + 1)
          /\ i + 1 < b => i + 2 \in 1 .. b /\ p + 2 = a + (i + 2)
          /\ i > 1 => i - 1 \in 1 .. b /\ p - 1 = a + (i - 1)
          /\ i > 2 => i - 2 \in 1 .. b /\ p - 2 = a + (i - 2)
      BY <3>1
    <3>5. /\ i < b => q[p + 1] = t[i + 1]
          /\ i + 1 < b => q[p + 2] = t[i + 2]
          /\ i > 1 => q[p - 1] = t[i - 1]
          /\ i > 2 => q[p - 2] = t[i - 2]
      <4>1. ASSUME i < b PROVE q[p + 1] = t[i + 1]
        <5>1. PICK j \in 1 .. b : j = i + 1 /\ p + 1 = a + j
          BY <4>1, <3>4
        <5>2. q[a + j] = t[j]
          BY <1>3
        <5> QED BY <5>1, <5>2
      <4>2. ASSUME i + 1 < b PROVE q[p + 2] = t[i + 2]
        <5>1. PICK j \in 1 .. b : j = i + 2 /\ p + 2 = a + j
          BY <4>2, <3>4
        <5>2. q[a + j] = t[j]
          BY <1>3
        <5> QED BY <5>1, <5>2
      <4>3. ASSUME i > 1 PROVE q[p - 1] = t[i - 1]
        <5>1. PICK j \in 1 .. b : j = i - 1 /\ p - 1 = a + j
          BY <4>3, <3>4
        <5>2. q[a + j] = t[j]
          BY <1>3
        <5> QED BY <5>1, <5>2
      <4>4. ASSUME i > 2 PROVE q[p - 2] = t[i - 2]
        <5>1. PICK j \in 1 .. b : j = i - 2 /\ p - 2 = a + j
          BY <4>4, <3>4
        <5>2. q[a + j] = t[j]
          BY <1>3
        <5> QED BY <5>1, <5>2
      <4> QED BY <4>1, <4>2, <4>3, <4>4
    <3>6. (i < b => p < a + b) /\ (i + 1 < b => p + 1 < a + b)
          /\ (i > 1 => p > 1) /\ (i > 2 => p > 2)
      BY <3>1
    <3> QED BY <3>2, <3>3, <3>5, <3>6
  <2> QED BY <2>1, <2>2
<1>5. WellFormed(q)
  <2>1. DOMAIN q = 1 .. a + b
    BY <1>3
  <2>2. \A p \in 1 .. a + b : Placed(q, a + b, p)
    BY <1>4 DEF Placed
  <2> QED BY <2>1, <2>2, <1>3, AllPlaced
<1> QED BY <1>2, <1>3, <1>5 DEF SignBlocks

\* DecodeText of a well-formed sign is well-formed: its four lines are pieces
\* between NULs.
LEMMA DecodedWellFormed ==
  ASSUME NEW data \in SignBlocks
  PROVE  DecodeText(decodeSignData(data)) \in SignBlocks
<1> DEFINE nuls == {i \in DOMAIN data : data[i] = 0}
           nth(k) == CHOOSE i \in nuls : Cardinality({j \in nuls : j < i}) = k - 1
           from(k) == IF k = 1 THEN 1 ELSE nth(k - 1) + 1
           to(k) == IF k = signLines \/ k > Cardinality(nuls) THEN Len(data) ELSE nth(k) - 1
           piece(k) == IF k > Cardinality(nuls) + 1 THEN <<>> ELSE SubSeq(data, from(k), to(k))
<1>1. decodeSignData(data) = [k \in 1 .. 4 |-> piece(k)]
  BY DEF decodeSignData, signLines
<1>2. data \in Seq(0 .. 239) /\ Len(data) \in Nat /\ DOMAIN data = 1 .. Len(data)
  BY DEF SignBlocks
<1>3. PICK n \in Nat : n = Len(data)
  BY <1>2
<1>4. nuls \in SUBSET (1 .. n) /\ \A i \in nuls : data[i] = 0
  BY <1>2, <1>3
<1>5. Cardinality(nuls) \in Nat
  <2>1. IsFiniteSet(1 .. n)
    BY FS_Interval
  <2>2. IsFiniteSet(nuls)
    BY <2>1, <1>4, FS_Subset
  <2> QED BY <2>2, FS_CardinalityType
<1> HIDE DEF nuls
<1>6. ASSUME NEW k \in 1 .. Cardinality(nuls) PROVE nth(k) \in 1 .. n /\ data[nth(k)] = 0
  <2>1. \E i \in nuls : Cardinality({j \in nuls : j < i}) = k - 1
    BY <1>4, NthExists
  <2>2. nth(k) \in nuls
    BY <2>1
  <2> HIDE DEF nth
  <2> QED BY <2>2, <1>4
<1>7. <<>> \in SignBlocks
  BY DEF SignBlocks, WellFormed
<1> HIDE DEF nth
<1>8. ASSUME NEW k \in 1 .. 4 PROVE piece(k) \in SignBlocks
  <2>1. CASE k > Cardinality(nuls) + 1
    BY <2>1, <1>7
  <2>2. CASE k <= Cardinality(nuls) + 1
    <3>1. from(k) \in 1 .. n + 1 /\ (from(k) = 1 \/ data[from(k) - 1] = 0)
      <4>1. CASE k = 1
        BY <4>1, <1>3
      <4>2. CASE k # 1
        <5>1. k - 1 \in 1 .. Cardinality(nuls)
          BY <2>2, <4>2, <1>5
        <5>2. nth(k - 1) \in 1 .. n /\ data[nth(k - 1)] = 0
          BY <5>1, <1>6
        <5>3. PICK i \in 1 .. n : i = nth(k - 1)
          BY <5>2
        <5>4. from(k) = i + 1 /\ data[i] = 0 /\ (i + 1) - 1 = i /\ i + 1 \in 1 .. n + 1
          BY <5>2, <5>3, <4>2
        <5> QED BY <5>4
      <4> QED BY <4>1, <4>2
    <3>2. to(k) \in 0 .. n /\ (to(k) = n \/ data[to(k) + 1] = 0)
      <4>1. CASE k = 4 \/ k > Cardinality(nuls)
        BY <4>1, <1>3 DEF signLines
      <4>2. CASE ~(k = 4 \/ k > Cardinality(nuls))
        <5>1. k \in 1 .. Cardinality(nuls)
          BY <4>2, <1>5
        <5>2. nth(k) \in 1 .. n /\ data[nth(k)] = 0
          BY <5>1, <1>6
        <5>3. PICK i \in 1 .. n : i = nth(k)
          BY <5>2
        <5>4. to(k) = i - 1 /\ data[i] = 0 /\ (i - 1) + 1 = i /\ i - 1 \in 0 .. n
          BY <5>2, <5>3, <4>2 DEF signLines
        <5> QED BY <5>4
      <4> QED BY <4>1, <4>2
    <3>3. ~(k > Cardinality(nuls) + 1)
      BY <2>2, <1>5
    <3>4. piece(k) = SubSeq(data, from(k), to(k))
      BY <3>3
    <3> HIDE DEF from, to, piece
    <3>5. SubSeq(data, from(k), to(k)) \in SignBlocks
      BY <3>1, <3>2, <1>3, PieceWellFormed
    <3> QED BY <3>4, <3>5
  <2> QED BY <2>1, <2>2, <1>5
<1> HIDE DEF piece
<1>9. DecodeText(decodeSignData(data)) = ((piece(1) \o piece(2)) \o piece(3)) \o piece(4)
  BY <1>1 DEF DecodeText
<1>10. piece(1) \in SignBlocks /\ piece(2) \in SignBlocks /\ piece(3) \in SignBlocks
       /\ piece(4) \in SignBlocks
  BY <1>8
<1>11. piece(1) \o piece(2) \in SignBlocks
  BY <1>10, JoinedWellFormed
<1>12. (piece(1) \o piece(2)) \o piece(3) \in SignBlocks
  BY <1>10, <1>11, JoinedWellFormed
<1>13. ((piece(1) \o piece(2)) \o piece(3)) \o piece(4) \in SignBlocks
  BY <1>10, <1>12, JoinedWellFormed
<1> QED BY <1>9, <1>13

-----------------------------------------------------------------------------
(* A row and what its blocks hold.                                         *)

\* The columns of a table: declared ones, with their types normalised.
TypeNames == STRING \cup {"INT", "BIGINT", "TEXT", "BOOLEAN", "FLOAT"}
Tables == Seq([name : STRING, type : TypeNames])

\* off[i] banners (signs) belong to the first i columns.
BannersBefore(off) ==
  /\ off \in [0 .. Len(columns) -> Nat] /\ off[0] = 0
  /\ \A i \in 1 .. Len(columns) : off[i] = off[i - 1] + Banners(columns[i])
  /\ \A i \in 1 .. Len(columns) : SumOf(Banners, SubSeq(columns, 1, i - 1)) = off[i - 1]
  /\ \A i \in 0 .. Len(columns) : off[i] <= off[Len(columns)]
  /\ SumOf(Banners, columns) = off[Len(columns)]
SignsBefore(off) ==
  /\ off \in [0 .. Len(columns) -> Nat] /\ off[0] = 0
  /\ \A i \in 1 .. Len(columns) : off[i] = off[i - 1] + Signs(columns[i])
  /\ \A i \in 1 .. Len(columns) : SumOf(Signs, SubSeq(columns, 1, i - 1)) = off[i - 1]
  /\ \A i \in 0 .. Len(columns) : off[i] <= off[Len(columns)]
  /\ SumOf(Signs, columns) = off[Len(columns)]

\* Where the banners of a column start, given parts of the reserved lengths.
LEMMA BannerOffsets ==
  ASSUME columns \in Tables, NEW S, NEW ss \in Seq(Seq(S)), Len(ss) = Len(columns),
         \A i \in 1 .. Len(columns) : Len(ss[i]) = Banners(columns[i]),
         NEW off, Offsets(ss, off)
  PROVE  BannersBefore(off)
<1>0. PICK n \in Nat : n = Len(columns)
  BY DEF Tables
<1>1. /\ off \in [0 .. n -> Nat] /\ off[0] = 0
      /\ \A i \in 1 .. n : off[i] = off[i - 1] + Banners(columns[i])
  BY <1>0 DEF Offsets
<1> DEFINE h == [i \in 1 .. n |-> Banners(columns[i])]
<1>2. \A i \in 1 .. Len(columns) : h[i] = Banners(columns[i])
  BY <1>0
<1> HIDE DEF h
<1>3. PrefixSums(h, Len(columns), off)
  BY <1>0, <1>1, <1>2 DEF PrefixSums
<1>4. columns \in Seq([name : STRING, type : TypeNames])
  BY DEF Tables
<1>5. ASSUME NEW m \in 0 .. n PROVE SumOf(Banners, SubSeq(columns, 1, m)) = off[m]
  <2>1. PICK X : X = [name : STRING, type : TypeNames]
    OBVIOUS
  <2>2. columns \in Seq(X) /\ m \in 0 .. Len(columns)
    BY <2>1, <1>0, <1>4
  <2>3. BannersOf(h, columns)
    BY <1>2 DEF BannersOf
  <2> QED BY <2>2, <2>3, <1>3, BannerPrefix
<1>6. SumOf(Banners, columns) = off[n]
  BY <1>0, <1>2, <1>3, BannerSum
<1>7. \A i \in 0 .. n : off[i] <= off[n]
  <2>1. \A i \in 0 .. Len(ss) : \A j \in 0 .. i : off[j] <= off[i]
    BY OffsetsGrow
  <2> QED BY <2>1, <1>0
<1>8. \A i \in 1 .. n : SumOf(Banners, SubSeq(columns, 1, i - 1)) = off[i - 1]
  <2> SUFFICES ASSUME NEW i \in 1 .. n PROVE SumOf(Banners, SubSeq(columns, 1, i - 1)) = off[i - 1]
    OBVIOUS
  <2>1. i - 1 \in 0 .. n
    OBVIOUS
  <2> QED BY <2>1, <1>5
<1> QED BY <1>0, <1>1, <1>6, <1>7, <1>8 DEF BannersBefore

\* Where the signs of a column start, given parts of the reserved lengths.
LEMMA SignOffsets ==
  ASSUME columns \in Tables, NEW S, NEW ss \in Seq(Seq(S)), Len(ss) = Len(columns),
         \A i \in 1 .. Len(columns) : Len(ss[i]) = Signs(columns[i]),
         NEW off, Offsets(ss, off)
  PROVE  SignsBefore(off)
<1>0. PICK n \in Nat : n = Len(columns)
  BY DEF Tables
<1>1. /\ off \in [0 .. n -> Nat] /\ off[0] = 0
      /\ \A i \in 1 .. n : off[i] = off[i - 1] + Signs(columns[i])
  BY <1>0 DEF Offsets
<1> DEFINE h == [i \in 1 .. n |-> Signs(columns[i])]
<1>2. \A i \in 1 .. Len(columns) : h[i] = Signs(columns[i])
  BY <1>0
<1> HIDE DEF h
<1>3. PrefixSums(h, Len(columns), off)
  BY <1>0, <1>1, <1>2 DEF PrefixSums
<1>4. columns \in Seq([name : STRING, type : TypeNames])
  BY DEF Tables
<1>5. ASSUME NEW m \in 0 .. n PROVE SumOf(Signs, SubSeq(columns, 1, m)) = off[m]
  <2>1. PICK X : X = [name : STRING, type : TypeNames]
    OBVIOUS
  <2>2. columns \in Seq(X) /\ m \in 0 .. Len(columns)
    BY <2>1, <1>0, <1>4
  <2>3. SignsOf(h, columns)
    BY <1>2 DEF SignsOf
  <2> QED BY <2>2, <2>3, <1>3, SignPrefix
<1>6. SumOf(Signs, columns) = off[n]
  BY <1>0, <1>2, <1>3, SignSum
<1>7. \A i \in 0 .. n : off[i] <= off[n]
  <2>1. \A i \in 0 .. Len(ss) : \A j \in 0 .. i : off[j] <= off[i]
    BY OffsetsGrow
  <2> QED BY <2>1, <1>0
<1>8. \A i \in 1 .. n : SumOf(Signs, SubSeq(columns, 1, i - 1)) = off[i - 1]
  <2> SUFFICES ASSUME NEW i \in 1 .. n PROVE SumOf(Signs, SubSeq(columns, 1, i - 1)) = off[i - 1]
    OBVIOUS
  <2>1. i - 1 \in 0 .. n
    OBVIOUS
  <2> QED BY <2>1, <1>5
<1> QED BY <1>0, <1>1, <1>6, <1>7, <1>8 DEF SignsBefore

\* The positions of all columns exist.
LEMMA PositionsExist ==
  ASSUME columns \in Tables
  PROVE  (\E off : BannersBefore(off)) /\ (\E off : SignsBefore(off))
<1>0. PICK n \in Nat : n = Len(columns)
  BY DEF Tables
<1>1. \A i \in 1 .. n : Banners(columns[i]) \in Nat /\ Signs(columns[i]) \in Nat
  BY DEF Banners, Signs
<1>2. \E off : BannersBefore(off)
  <2> DEFINE ss == [i \in 1 .. n |-> Zeros(Banners(columns[i]))]
  <2>1. \A i \in 1 .. n : /\ Zeros(Banners(columns[i])) \in Seq(Byte)
                          /\ Len(Zeros(Banners(columns[i]))) = Banners(columns[i])
    BY <1>1, ZeroBytes
  <2>2. ss \in Seq(Seq(Byte)) /\ Len(ss) = n /\ \A i \in 1 .. n : Len(ss[i]) = Banners(columns[i])
    BY <2>1
  <2> HIDE DEF ss
  <2>3. PICK off : Offsets(ss, off)
    BY <2>2, OffsetsExist
  <2> QED BY <1>0, <2>2, <2>3, BannerOffsets
<1>3. \E off : SignsBefore(off)
  <2> DEFINE ss == [i \in 1 .. n |-> Zeros(Signs(columns[i]))]
  <2>1. \A i \in 1 .. n : /\ Zeros(Signs(columns[i])) \in Seq(Byte)
                          /\ Len(Zeros(Signs(columns[i]))) = Signs(columns[i])
    BY <1>1, ZeroBytes
  <2>2. ss \in Seq(Seq(Byte)) /\ Len(ss) = n /\ \A i \in 1 .. n : Len(ss[i]) = Signs(columns[i])
    BY <2>1
  <2> HIDE DEF ss
  <2>3. PICK off : Offsets(ss, off)
    BY <2>2, OffsetsExist
  <2> QED BY <1>0, <2>2, <2>3, SignOffsets
<1> QED BY <1>2, <1>3

\* The four lines of a text on a sign.
Signed4(a, b, c, d) == (((((a \o <<0>>) \o b) \o <<0>>) \o c) \o <<0>>) \o d
Joined4(a, b, c, d) == ((a \o b) \o c) \o d
Quartered(s, a, b, c, d) ==
  /\ encodeSignData(EncodeText(s)) = Signed4(a, b, c, d)
  /\ Len(s) <= signMaxLen =>
       /\ a = Line(s, 1) /\ b = Line(s, 2) /\ c = Line(s, 3) /\ d = Line(s, 4)
       /\ Joined4(a, b, c, d) = s

\* A line of a text has the bytes of the text.
LEMMA LineTyped ==
  ASSUME NEW S, NEW s \in Seq(S), NEW i \in 1 .. 4
  PROVE  Line(s, i) \in Seq(S)
<1>1. PICK n \in Nat : n = Len(s)
  OBVIOUS
<1>2. PICK o \in Nat, e \in Nat : o = (i - 1) * SignLineLen /\ e = i * SignLineLen
  BY CodecAssumption
<1>3. PICK z \in 0 .. n : z = IF e < n THEN e ELSE n
  OBVIOUS
<1>4. Line(s, i) = SubSeq(s, o + 1, z)
  BY <1>1, <1>2, <1>3 DEF Line
<1>5. SubSeq(s, o + 1, z) \in Seq(S)
  BY <1>1
<1> QED BY <1>4, <1>5

\* EncodeText sends four lines, which are the whole text if it fits.
LEMMA LinesOfText ==
  ASSUME NEW s \in Texts
  PROVE  \E a, b, c, d \in Texts : Quartered(s, a, b, c, d)
<1>1. PICK x : x = IF Len(s) <= signMaxLen THEN s ELSE SubSeq(s, 1, signMaxLen - 3) \o Dots
  OBVIOUS
<1>2. x \in Texts
  <2>1. CASE Len(s) <= signMaxLen
    BY <1>1, <2>1
  <2>2. CASE ~(Len(s) <= signMaxLen)
    <3>1. PICK m \in Nat : m = signMaxLen - 3 /\ m <= Len(s)
      <4>1. SignLineLen \in Nat /\ SignLineLen > 3 /\ Len(s) \in Nat
        BY CodecAssumption DEF Texts
      <4>2. SignLineLen * 4 - 3 \in Nat
        BY <4>1
      <4> QED BY <4>1, <4>2, <2>2 DEF signMaxLen, signLines
    <3>2. SubSeq(s, 1, m) \in Seq(1 .. 223)
      <4>1. s \in Seq(1 .. 223)
        BY DEF Texts
      <4>2. 0 \in Nat /\ 0 + m <= Len(s) /\ 0 + 1 = 1 /\ 0 + m = m
        BY <3>1
      <4>3. SubSeq(s, 0 + 1, 0 + m) \in Seq(1 .. 223)
        BY <4>1, <4>2, Part, Zenon
      <4> QED BY <4>2, <4>3, Zenon
    <3>3. Dots \in Seq(1 .. 223)
      BY DEF Dots
    <3>4. x = SubSeq(s, 1, m) \o Dots
      BY <1>1, <2>2, <3>1
    <3>5. PICK p \in Seq(1 .. 223), q \in Seq(1 .. 223) : x = p \o q
      BY <3>2, <3>3, <3>4
    <3>6. p \o q \in Seq(1 .. 223)
      BY Joined
    <3> QED BY <3>5, <3>6 DEF Texts
  <2> QED BY <2>1, <2>2
<1>3. EncodeText(s) = [i \in 1 .. 4 |-> Line(x, i)]
  BY <1>1 DEF EncodeText, signLines
<1>4. \A i \in 1 .. 4 : Line(x, i) \in Texts
  BY <1>2, LineTyped DEF Texts
<1>5. PICK a \in Texts, b \in Texts, c \in Texts, d \in Texts :
        a = Line(x, 1) /\ b = Line(x, 2) /\ c = Line(x, 3) /\ d = Line(x, 4)
  BY <1>4
<1>6. encodeSignData(EncodeText(s)) = Signed4(a, b, c, d)
  <2>1. PICK e : e = EncodeText(s)
    OBVIOUS
  <2>2. e[1] = a /\ e[2] = b /\ e[3] = c /\ e[4] = d
    BY <2>1, <1>3, <1>5
  <2> QED BY <2>1, <2>2, Zenon DEF encodeSignData, Signed4
<1>7. Len(s) <= signMaxLen => Joined4(a, b, c, d) = s /\ x = s
  <2>1. s \in Seq(1 .. 223)
    BY DEF Texts
  <2> QED BY <2>1, <1>1, <1>5, FourLines DEF Joined4
<1>8. Len(s) <= signMaxLen =>
        /\ a = Line(s, 1) /\ b = Line(s, 2) /\ c = Line(s, 3) /\ d = Line(s, 4)
        /\ Joined4(a, b, c, d) = s
  BY <1>5, <1>7, Zenon
<1>9. Quartered(s, a, b, c, d)
  BY <1>6, <1>8, Zenon DEF Quartered
<1> QED BY <1>9

\* What is sent for a sign are bytes of texts and NULs.
LEMMA SignedTyped ==
  ASSUME NEW a \in Texts, NEW b \in Texts, NEW c \in Texts, NEW d \in Texts
  PROVE  Signed4(a, b, c, d) \in Seq(0 .. 223)
<1>1. 1 .. 223 \subseteq 0 .. 223
  OBVIOUS
<1>2. /\ a \in Seq(0 .. 223) /\ b \in Seq(0 .. 223) /\ c \in Seq(0 .. 223)
      /\ d \in Seq(0 .. 223) /\ <<0>> \in Seq(0 .. 223)
  <2>1. <<0>> \in Seq(0 .. 223)
    OBVIOUS
  <2>2. PICK B, S : B = 1 .. 223 /\ S = 0 .. 223
    OBVIOUS
  <2>3. B \subseteq S
    BY <2>2, <1>1
  <2>4. a \in Seq(B) /\ b \in Seq(B) /\ c \in Seq(B) /\ d \in Seq(B)
    BY <2>2 DEF Texts
  <2>5. a \in Seq(S) /\ b \in Seq(S) /\ c \in Seq(S) /\ d \in Seq(S)
    BY <2>3, <2>4, Wider
  <2> QED BY <2>1, <2>2, <2>5
<1>3. PICK z \in Seq(0 .. 223) : z = <<0>>
  BY <1>2
<1>4. a \o z \in Seq(0 .. 223)
  BY <1>2, Joined
<1>5. (a \o z) \o b \in Seq(0 .. 223)
  BY <1>2, <1>4, Joined
<1>6. ((a \o z) \o b) \o z \in Seq(0 .. 223)
  BY <1>5, Joined
<1>7. (((a \o z) \o b) \o z) \o c \in Seq(0 .. 223)
  BY <1>2, <1>6, Joined
<1>8. ((((a \o z) \o b) \o z) \o c) \o z \in Seq(0 .. 223)
  BY <1>7, Joined
<1>9. (((((a \o z) \o b) \o z) \o c) \o z) \o d \in Seq(0 .. 223)
  BY <1>2, <1>8, Joined
<1> QED BY <1>3, <1>9, Zenon DEF Signed4

\* A TEXT column is one well-formed sign, any other column none.
LEMMA SignOfColumn ==
  ASSUME NEW c, NEW v \in Consts
  PROVE  EncodedSign(c, v) \in Seq(SignBlocks) /\ Len(EncodedSign(c, v)) = Signs(c)
<1>1. CASE c.type = "TEXT"
  <2>1. PICK b \in Seq(0 .. 223) : b = encodeSignData(EncodeText(toString(v)))
    <3>1. PICK x \in Texts, y \in Texts, z \in Texts, u \in Texts :
                 Quartered(toString(v), x, y, z, u)
      BY FormattedConst, LinesOfText
    <3> QED BY <3>1, SignedTyped DEF Quartered
  <2>2. PICK q \in SignBlocks : q = PluginText(b)
    BY PluginWellFormed
  <2>3. EncodedSign(c, v) = <<q>> /\ Signs(c) = 1
    BY <1>1, <2>1, <2>2 DEF EncodedSign, Signs
  <2> QED BY <2>3
<1>2. CASE c.type # "TEXT"
  <2>1. EncodedSign(c, v) = <<>> /\ Signs(c) = 0
    BY <1>2 DEF EncodedSign, Signs
  <2> QED BY <2>1
<1> QED BY <1>1, <1>2

\* What a strip consists of.
AnyBlock == BannerBlocks \cup SignBlocks

\* A strip as decodeStrip expects it: banners first, then signs.
RowOK(data) ==
  /\ data \in Seq(AnyBlock) /\ Len(data) = stripWidth
  /\ \A k \in 1 .. stripWidthBanners : data[k] \in BannerBlocks
  /\ \A k \in (stripWidthBanners + 1) .. stripWidth : data[k] \in SignBlocks

\* The transaction id is an int64.
LEMMA TxidRange == Txid \in Int64 /\ Txid \in Int /\ Txid = 1
<1>1. 1 \in Int64
  BY ZeroRange, SmallIntRange
<1> QED BY <1>1 DEF Txid

\* The four banners of xmin and xmax.
RowHead == EncodeInt64(Txid) \o EncodeNull

\* The four banners before the columns: xmin and the null xmax.
LEMMA HeadBanners ==
  /\ RowHead \in Seq(BannerBlocks) /\ Len(RowHead) = 4
  /\ RowHead[1] = EncodeInt64(Txid)[1] /\ RowHead[2] = EncodeInt64(Txid)[2]
  /\ RowHead[3] = nullHex /\ RowHead[4] = nullHex
<1>1. PICK e : e = EncodeInt64(Txid)
  OBVIOUS
<1>2. e[1] \in BannerBlocks /\ e[2] \in BannerBlocks
  BY <1>1, TxidRange, Int64RoundTrip DEF Banner, BannerBlocks
<1>3. e = <<e[1], e[2]>>
  BY <1>1 DEF EncodeInt64
<1>4. PICK x \in BannerBlocks, y \in BannerBlocks : e = <<x, y>> /\ x = e[1] /\ y = e[2]
  BY <1>2, <1>3
<1>5. nullHex \in BannerBlocks
  <2> DEFINE b == [i \in 1 .. bytesPerBanner |-> Radix - 1]
  <2>1. b \in Seq(Byte) /\ Len(b) = bytesPerBanner
    BY CodecAssumption DEF Byte, bytesPerBanner
  <2>2. nullHex = Masked(b)
    BY DEF nullHex
  <2> HIDE DEF b
  <2> QED BY <2>1, <2>2, MaskSeq DEF BannerBlocks
<1>6. PICK z \in BannerBlocks : z = nullHex
  BY <1>5
<1>7. RowHead = <<x, y>> \o <<z, z>>
  BY <1>1, <1>4, <1>6 DEF RowHead, EncodeNull
<1>a. PICK p : p = <<x, y>>
  OBVIOUS
<1>8. p \in Seq(BannerBlocks) /\ Len(p) = 2 /\ p[1] = x /\ p[2] = y
  BY <1>a
<1>b. PICK r : r = <<z, z>>
  OBVIOUS
<1>9. r \in Seq(BannerBlocks) /\ Len(r) = 2 /\ r[1] = z /\ r[2] = z
  BY <1>b
<1>10. PICK q : q = p \o r
  OBVIOUS
<1>11. /\ q \in Seq(BannerBlocks) /\ Len(q) = Len(p) + Len(r)
       /\ \A i \in 1 .. Len(p) : q[i] = p[i]
       /\ \A i \in 1 .. Len(r) : q[Len(p) + i] = r[i]
  BY <1>8, <1>9, <1>10, Joined
<1>12. Len(q) = 4 /\ q[1] = x /\ q[2] = y /\ q[3] = z /\ q[4] = z
  <2>1. 1 \in 1 .. Len(p) /\ 2 \in 1 .. Len(p) /\ 1 \in 1 .. Len(r) /\ 2 \in 1 .. Len(r)
        /\ Len(p) + 1 = 3 /\ Len(p) + 2 = 4
    BY <1>8, <1>9
  <2>2. q[1] = p[1] /\ q[2] = p[2] /\ q[Len(p) + 1] = r[1] /\ q[Len(p) + 2] = r[2]
    BY <2>1, <1>11, Zenon
  <2> QED BY <2>1, <2>2, <1>8, <1>9, <1>11
<1> QED BY <1>1, <1>4, <1>6, <1>7, <1>a, <1>b, <1>10, <1>11, <1>12

\* The blocks q of all columns begin, column by column, after off.
BannersAt(q, off, vs) ==
  /\ q \in Seq(BannerBlocks) /\ Len(q) = SumOf(Banners, columns)
  /\ \A i \in 1 .. Len(columns) : \A k \in 1 .. Banners(columns[i]) :
       q[off[i - 1] + k] = EncodedBanners(columns[i], vs[i])[k]

\* The banners of all columns lie where decodeStrip looks for them.
LEMMA BannerPart ==
  ASSUME columns \in Tables, NEW vs, \A i \in 1 .. Len(columns) : vs[i] \in Consts,
         NEW off, BannersBefore(off),
         NEW q, q = FlattenSeq([i \in DOMAIN columns |-> EncodedBanners(columns[i], vs[i])])
  PROVE  BannersAt(q, off, vs)
<1>0. PICK n \in Nat : n = Len(columns) /\ DOMAIN columns = 1 .. n
  BY DEF Tables
<1> DEFINE ss == [i \in DOMAIN columns |-> EncodedBanners(columns[i], vs[i])]
<1>1. \A i \in 1 .. n : /\ EncodedBanners(columns[i], vs[i]) \in Seq(BannerBlocks)
                        /\ Len(EncodedBanners(columns[i], vs[i])) = Banners(columns[i])
  BY <1>0, BannersOfColumn
<1>2. /\ ss \in Seq(Seq(BannerBlocks)) /\ Len(ss) = n
      /\ \A i \in 1 .. n : ss[i] = EncodedBanners(columns[i], vs[i])
  BY <1>0, <1>1
<1> HIDE DEF ss
<1>3. PICK o : Offsets(ss, o)
  BY <1>2, OffsetsExist
<1>4. BannersBefore(o)
  BY <1>0, <1>1, <1>2, <1>3, BannerOffsets
<1>5. q \in Seq(BannerBlocks) /\ Laid(ss, o, n, q)
  <2>1. q = FlattenSeq(ss)
    BY DEF ss
  <2> QED BY <2>1, <1>2, <1>3, Flattened
<1>6. \A i \in 1 .. n : o[i - 1] = off[i - 1]
  BY <1>0, <1>4 DEF BannersBefore
<1>7. Len(q) = SumOf(Banners, columns)
  BY <1>0, <1>4, <1>5 DEF BannersBefore, Laid
<1>8. \A i \in 1 .. n : \A k \in 1 .. Banners(columns[i]) :
        q[off[i - 1] + k] = EncodedBanners(columns[i], vs[i])[k]
  <2> SUFFICES ASSUME NEW i \in 1 .. n, NEW k \in 1 .. Banners(columns[i])
               PROVE  q[off[i - 1] + k] = EncodedBanners(columns[i], vs[i])[k]
    OBVIOUS
  <2>1. k \in 1 .. Len(ss[i]) /\ ss[i][k] = EncodedBanners(columns[i], vs[i])[k]
    BY <1>1, <1>2
  <2>2. q[o[i - 1] + k] = ss[i][k]
    BY <2>1, <1>5, Zenon DEF Laid
  <2> QED BY <2>1, <2>2, <1>6
<1> QED BY <1>0, <1>5, <1>7, <1>8, Zenon DEF BannersAt

\* The blocks q of all columns begin, column by column, after off.
SignsAt(q, off, vs) ==
  /\ q \in Seq(SignBlocks) /\ Len(q) = SumOf(Signs, columns)
  /\ \A i \in 1 .. Len(columns) : \A k \in 1 .. Signs(columns[i]) :
       q[off[i - 1] + k] = EncodedSign(columns[i], vs[i])[k]

\* InsertRow's signs lie where SignStart finds them.
LEMMA SignPart ==
  ASSUME columns \in Tables, NEW vs, \A i \in 1 .. Len(columns) : vs[i] \in Consts,
         NEW off, SignsBefore(off),
         NEW q, q = FlattenSeq([i \in DOMAIN columns |-> EncodedSign(columns[i], vs[i])])
  PROVE  SignsAt(q, off, vs)
<1>0. PICK n \in Nat : n = Len(columns) /\ DOMAIN columns = 1 .. n
  BY DEF Tables
<1> DEFINE ss == [i \in DOMAIN columns |-> EncodedSign(columns[i], vs[i])]
<1>1. \A i \in 1 .. n : /\ EncodedSign(columns[i], vs[i]) \in Seq(SignBlocks)
                        /\ Len(EncodedSign(columns[i], vs[i])) = Signs(columns[i])
  BY <1>0, SignOfColumn
<1>2. /\ ss \in Seq(Seq(SignBlocks)) /\ Len(ss) = n
      /\ \A i \in 1 .. n : ss[i] = EncodedSign(columns[i], vs[i])
  BY <1>0, <1>1
<1> HIDE DEF ss
<1>3. PICK o : Offsets(ss, o)
  BY <1>2, OffsetsExist
<1>4. SignsBefore(o)
  BY <1>0, <1>1, <1>2, <1>3, SignOffsets
<1>5. q \in Seq(SignBlocks) /\ Laid(ss, o, n, q)
  <2>1. q = FlattenSeq(ss)
    BY DEF ss
  <2> QED BY <2>1, <1>2, <1>3, Flattened
<1>6. \A i \in 1 .. n : o[i - 1] = off[i - 1]
  BY <1>0, <1>4 DEF SignsBefore
<1>7. Len(q) = SumOf(Signs, columns)
  BY <1>0, <1>4, <1>5 DEF SignsBefore, Laid
<1>8. \A i \in 1 .. n : \A k \in 1 .. Signs(columns[i]) :
        q[off[i - 1] + k] = EncodedSign(columns[i], vs[i])[k]
  <2> SUFFICES ASSUME NEW i \in 1 .. n, NEW k \in 1 .. Signs(columns[i])
               PROVE  q[off[i - 1] + k] = EncodedSign(columns[i], vs[i])[k]
    OBVIOUS
  <2>1. k \in 1 .. Len(ss[i]) /\ ss[i][k] = EncodedSign(columns[i], vs[i])[k]
    BY <1>1, <1>2
  <2>2. q[o[i - 1] + k] = ss[i][k]
    BY <2>1, <1>5, Zenon DEF Laid
  <2> QED BY <2>1, <2>2, <1>6
<1> QED BY <1>0, <1>5, <1>7, <1>8, Zenon DEF SignsAt

\* t is h, p and q in a row.
InThree(t, h, p, q, A, B) ==
  /\ t \in Seq(A \cup B) /\ Len(t) = Len(h) + Len(p) + Len(q)
  /\ \A k \in 1 .. Len(h) : t[k] = h[k]
  /\ \A k \in 1 .. Len(p) : t[Len(h) + k] = p[k]
  /\ \A k \in 1 .. Len(q) : t[Len(h) + Len(p) + k] = q[k]
  /\ \A k \in 1 .. (Len(h) + Len(p)) : t[k] \in A

\* Three parts in a row, of two kinds of blocks.
LEMMA ThreeParts ==
  ASSUME NEW A, NEW B, NEW h \in Seq(A), NEW p \in Seq(A), NEW q \in Seq(B),
         NEW t, t = (h \o p) \o q
  PROVE  InThree(t, h, p, q, A, B)
<1>1. A \subseteq A \cup B /\ B \subseteq A \cup B
  OBVIOUS
<1>2. h \in Seq(A \cup B) /\ p \in Seq(A \cup B) /\ q \in Seq(A \cup B)
  BY <1>1, Wider
<1>3. PICK r : r = h \o p
  OBVIOUS
<1>4. /\ r \in Seq(A) /\ Len(r) = Len(h) + Len(p)
      /\ \A k \in 1 .. Len(h) : r[k] = h[k]
      /\ \A k \in 1 .. Len(p) : r[Len(h) + k] = p[k]
  BY <1>3, Joined
<1>5. r \in Seq(A \cup B)
  BY <1>1, <1>4, Wider
<1>6. t = r \o q
  BY <1>3
<1>7. /\ t \in Seq(A \cup B) /\ Len(t) = Len(r) + Len(q)
      /\ \A k \in 1 .. Len(r) : t[k] = r[k]
      /\ \A k \in 1 .. Len(q) : t[Len(r) + k] = q[k]
  BY <1>2, <1>5, <1>6, Joined
<1>8. Len(h) \in Nat /\ Len(p) \in Nat /\ Len(q) \in Nat
  OBVIOUS
<1>9. \A k \in 1 .. Len(r) : r[k] \in A
  BY <1>4, Element
<1>10. \A k \in 1 .. Len(h) : k \in 1 .. Len(r)
  BY <1>4, <1>8
<1>11. \A k \in 1 .. Len(p) : Len(h) + k \in 1 .. Len(r)
  BY <1>4, <1>8
<1>12. \A k \in 1 .. Len(h) : t[k] = h[k]
  BY <1>4, <1>7, <1>10
<1>13. \A k \in 1 .. Len(p) : t[Len(h) + k] = p[k]
  BY <1>4, <1>7, <1>11
<1>14. \A k \in 1 .. Len(r) : t[k] \in A
  BY <1>7, <1>9
<1> QED BY <1>4, <1>7, <1>12, <1>13, <1>14 DEF InThree

\* The columns of the row written from values lie where decodeStrip reads them.
RowHolds(data, values) ==
  /\ data[1] = EncodeInt64(Txid)[1] /\ data[2] = EncodeInt64(Txid)[2]
  /\ data[3] = nullHex /\ data[4] = nullHex
  /\ \A i \in 1 .. Len(columns) :
       /\ \A k \in 1 .. Banners(columns[i]) :
            data[BannerStart(i) + k] = EncodedBanners(columns[i], getColumnValue(values, i))[k]
       /\ \A k \in 1 .. Signs(columns[i]) :
            data[SignStart(i) + k] = EncodedSign(columns[i], getColumnValue(values, i))[k]

\* InsertRow writes a row as decodeStrip expects it, every block at the place
\* where decodeStrip looks for it.
LEMMA RowLayout ==
  ASSUME columns \in Tables, NEW values,
         \A i \in 1 .. Len(columns) : getColumnValue(values, i) \in Consts
  PROVE  RowOK(RowBlocks(values)) /\ RowHolds(RowBlocks(values), values)
<1>0. PICK n \in Nat : n = Len(columns) /\ DOMAIN columns = 1 .. n
  BY DEF Tables
<1> DEFINE vs == [i \in 1 .. n |-> getColumnValue(values, i)]
<1>1. \A i \in 1 .. n : vs[i] = getColumnValue(values, i) /\ vs[i] \in Consts
  BY <1>0
<1>2. PICK ob : BannersBefore(ob)
  BY PositionsExist
<1>3. PICK os : SignsBefore(os)
  BY PositionsExist
<1>a. PICK bs : bs = FlattenSeq([i \in DOMAIN columns |-> EncodedBanners(columns[i], vs[i])])
  OBVIOUS
<1>b. PICK ss : ss = FlattenSeq([i \in DOMAIN columns |-> EncodedSign(columns[i], vs[i])])
  OBVIOUS
<1>4. RowBlocks(values) = (RowHead \o bs) \o ss
  <2>1. [i \in DOMAIN columns |-> EncodedBanners(columns[i], vs[i])]
          = [i \in DOMAIN columns |-> EncodedBanners(columns[i], getColumnValue(values, i))]
    BY <1>0
  <2>2. [i \in DOMAIN columns |-> EncodedSign(columns[i], vs[i])]
          = [i \in DOMAIN columns |-> EncodedSign(columns[i], getColumnValue(values, i))]
    BY <1>0
  <2> QED BY <2>1, <2>2, <1>a, <1>b, Zenon DEF RowBlocks, RowHead
<1> HIDE DEF vs
<1>5. /\ bs \in Seq(BannerBlocks) /\ Len(bs) = SumOf(Banners, columns)
      /\ \A i \in 1 .. n : \A k \in 1 .. Banners(columns[i]) :
           bs[ob[i - 1] + k] = EncodedBanners(columns[i], vs[i])[k]
  <2>1. \A i \in 1 .. Len(columns) : vs[i] \in Consts
    BY <1>0, <1>1
  <2>2. /\ bs \in Seq(BannerBlocks) /\ Len(bs) = SumOf(Banners, columns)
        /\ \A i \in 1 .. Len(columns) : \A k \in 1 .. Banners(columns[i]) :
             bs[ob[i - 1] + k] = EncodedBanners(columns[i], vs[i])[k]
    <3>1. BannersAt(bs, ob, vs)
      BY <2>1, <1>2, <1>a, BannerPart
    <3> QED BY <3>1 DEF BannersAt
  <2> QED BY <2>2, <1>0, Zenon
<1>6. /\ ss \in Seq(SignBlocks) /\ Len(ss) = SumOf(Signs, columns)
      /\ \A i \in 1 .. n : \A k \in 1 .. Signs(columns[i]) :
           ss[os[i - 1] + k] = EncodedSign(columns[i], vs[i])[k]
  <2>1. \A i \in 1 .. Len(columns) : vs[i] \in Consts
    BY <1>0, <1>1
  <2>2. /\ ss \in Seq(SignBlocks) /\ Len(ss) = SumOf(Signs, columns)
        /\ \A i \in 1 .. Len(columns) : \A k \in 1 .. Signs(columns[i]) :
             ss[os[i - 1] + k] = EncodedSign(columns[i], vs[i])[k]
    <3>1. SignsAt(ss, os, vs)
      BY <2>1, <1>3, <1>b, SignPart
    <3> QED BY <3>1 DEF SignsAt
  <2> QED BY <2>2, <1>0, Zenon
<1>7. PICK u \in Nat, w \in Nat : u = Len(bs) /\ w = Len(ss)
  BY <1>5, <1>6
<1>8. PICK data : data = (RowHead \o bs) \o ss
  OBVIOUS
<1>9. /\ data \in Seq(AnyBlock) /\ Len(data) = 4 + u + w
      /\ \A k \in 1 .. 4 : data[k] = RowHead[k]
      /\ \A k \in 1 .. u : data[4 + k] = bs[k]
      /\ \A k \in 1 .. w : data[4 + u + k] = ss[k]
      /\ \A k \in 1 .. (4 + u) : data[k] \in BannerBlocks
  <2>1. RowHead \in Seq(BannerBlocks) /\ Len(RowHead) = 4
    BY HeadBanners
  <2>2. PICK h \in Seq(BannerBlocks) : h = RowHead
    BY <2>1
  <2>3. /\ data \in Seq(BannerBlocks \cup SignBlocks) /\ Len(data) = Len(h) + Len(bs) + Len(ss)
        /\ \A k \in 1 .. Len(h) : data[k] = h[k]
        /\ \A k \in 1 .. Len(bs) : data[Len(h) + k] = bs[k]
        /\ \A k \in 1 .. Len(ss) : data[Len(h) + Len(bs) + k] = ss[k]
        /\ \A k \in 1 .. (Len(h) + Len(bs)) : data[k] \in BannerBlocks
    <3>1. InThree(data, h, bs, ss, BannerBlocks, SignBlocks)
      BY <2>2, <1>5, <1>6, <1>8, ThreeParts
    <3> QED BY <3>1 DEF InThree
  <2> QED BY <2>1, <2>2, <2>3, <1>7 DEF AnyBlock
<1>10. stripWidthBanners = 4 + u /\ stripWidth = 4 + u + w
  BY <1>5, <1>6, <1>7 DEF stripWidthBanners, stripWidth
<1>11. RowOK(data)
  <2>1. ASSUME NEW k \in (4 + u + 1) .. (4 + u + w) PROVE data[k] \in SignBlocks
    <3>1. PICK j \in 1 .. w : k = 4 + u + j
      <4>1. k - (4 + u) \in 1 .. w /\ k = 4 + u + (k - (4 + u))
        OBVIOUS
      <4> QED BY <4>1
    <3>2. ss[j] \in SignBlocks
      BY <1>6, <1>7, Element
    <3> QED BY <3>1, <3>2, <1>9
  <2> QED BY <2>1, <1>9, <1>10 DEF RowOK
<1>12. /\ data[1] = EncodeInt64(Txid)[1] /\ data[2] = EncodeInt64(Txid)[2]
       /\ data[3] = nullHex /\ data[4] = nullHex
  BY <1>9, HeadBanners
<1>13. ASSUME NEW i \in 1 .. n, NEW k \in 1 .. Banners(columns[i])
       PROVE  data[BannerStart(i) + k] = EncodedBanners(columns[i], getColumnValue(values, i))[k]
  <2>1. i - 1 \in 0 .. n /\ i \in 0 .. n /\ Banners(columns[i]) \in Nat
    BY DEF Banners
  <2>2. PICK o \in Nat : o = ob[i - 1] /\ BannerStart(i) = 4 + o
    BY <2>1, <1>0, <1>2 DEF BannersBefore, BannerStart
  <2>3. o + Banners(columns[i]) <= u
    <3>1. ob[i] = o + Banners(columns[i]) /\ ob[i] <= ob[n] /\ ob[n] = u
      BY <2>1, <2>2, <1>0, <1>2, <1>5, <1>7 DEF BannersBefore
    <3> QED BY <3>1
  <2>4. o + k \in 1 .. u
    BY <2>1, <2>3
  <2>5. data[4 + (o + k)] = bs[o + k]
    BY <2>4, <1>9
  <2>6. bs[o + k] = EncodedBanners(columns[i], vs[i])[k]
    BY <1>5, <2>2
  <2>7. 4 + (o + k) = BannerStart(i) + k
    BY <2>2, <2>1
  <2> QED BY <2>5, <2>6, <2>7, <1>1
<1>14. ASSUME NEW i \in 1 .. n, NEW k \in 1 .. Signs(columns[i])
       PROVE  data[SignStart(i) + k] = EncodedSign(columns[i], getColumnValue(values, i))[k]
  <2>1. i - 1 \in 0 .. n /\ i \in 0 .. n /\ Signs(columns[i]) \in Nat
    BY DEF Signs
  <2>2. PICK o \in Nat : o = os[i - 1] /\ SignStart(i) = 4 + u + o
    BY <2>1, <1>0, <1>3, <1>5, <1>7 DEF SignsBefore, SignStart
  <2>3. o + Signs(columns[i]) <= w
    <3>1. os[i] = o + Signs(columns[i]) /\ os[i] <= os[n] /\ os[n] = w
      BY <2>1, <2>2, <1>0, <1>3, <1>6, <1>7 DEF SignsBefore
    <3> QED BY <3>1
  <2>4. o + k \in 1 .. w
    BY <2>1, <2>3
  <2>5. data[4 + u + (o + k)] = ss[o + k]
    BY <2>4, <1>9
  <2>6. ss[o + k] = EncodedSign(columns[i], vs[i])[k]
    BY <1>6, <2>2
  <2>7. 4 + u + (o + k) = SignStart(i) + k
    BY <2>2, <2>1
  <2> QED BY <2>5, <2>6, <2>7, <1>1
<1>15. RowHolds(data, values)
  BY <1>0, <1>12, <1>13, <1>14, Zenon DEF RowHolds
<1> QED BY <1>4, <1>8, <1>11, <1>15

-----------------------------------------------------------------------------
(* Kept: the selected elements in their order.                             *)

\* f counts the elements of U, in their order, from 1 to m.
Enumerates(f, m, U) ==
  /\ f \in [1 .. m -> U]
  /\ \A k, l \in 1 .. m : k < l => f[k] < f[l]
  /\ \A u \in U : \E k \in 1 .. m : f[k] = u

\* t is the part of s that f counts.
Selects(t, f, s) == \A k \in 1 .. Len(t) : t[k] = s[f[k]]

\* Kept selects the positions of K in increasing order.
LEMMA KeptSelects ==
  ASSUME NEW S, NEW s \in Seq(S), NEW K
  PROVE  /\ Kept(s, K) \in Seq(S)
         /\ \E f : /\ Enumerates(f, Len(Kept(s, K)), K \cap (1 .. Len(s)))
                   /\ Selects(Kept(s, K), f, s)
<1>0. PICK n \in Nat : n = Len(s) /\ DOMAIN s = 1 .. n
  OBVIOUS
<1> DEFINE ss == [i \in DOMAIN s |-> IF i \in K THEN <<s[i]>> ELSE <<>>]
<1>1. \A i \in 1 .. n : (IF i \in K THEN <<s[i]>> ELSE <<>>) \in Seq(S)
  <2> SUFFICES ASSUME NEW i \in 1 .. n PROVE <<s[i]>> \in Seq(S)
    OBVIOUS
  <2>1. PICK x \in S : x = s[i]
    BY <1>0
  <2> QED BY <2>1
<1>2. /\ ss \in Seq(Seq(S)) /\ Len(ss) = n
      /\ \A i \in 1 .. n : /\ i \in K => ss[i] = <<s[i]>>
                           /\ i \notin K => ss[i] = <<>>
  BY <1>0, <1>1
<1>3. Kept(s, K) = FlattenSeq(ss)
  BY DEF Kept
<1> HIDE DEF ss
<1>4. PICK off : Offsets(ss, off)
  BY <1>2, OffsetsExist
<1>5. PICK q \in Seq(S) : q = Kept(s, K) /\ Laid(ss, off, n, q)
  BY <1>2, <1>3, <1>4, Flattened
<1>6. /\ off \in [0 .. n -> Nat] /\ Len(q) = off[n]
      /\ \A i \in 1 .. n : off[i] = off[i - 1] + Len(ss[i])
      /\ \A i \in 1 .. n : \A k \in 1 .. Len(ss[i]) : q[off[i - 1] + k] = ss[i][k]
  BY <1>2, <1>4, <1>5 DEF Offsets, Laid
<1>7. \A i \in 0 .. n : \A j \in 0 .. i : off[j] <= off[i]
  BY <1>2, <1>4, OffsetsGrow
<1>8. ASSUME NEW i \in 1 .. n, i \in K
      PROVE  off[i] = off[i - 1] + 1 /\ q[off[i - 1] + 1] = s[i] /\ off[i - 1] + 1 \in 1 .. Len(q)
  <2>1. ss[i] = <<s[i]>>
    BY <1>2, <1>8
  <2>2. Len(ss[i]) = 1 /\ ss[i][1] = s[i]
    BY <2>1
  <2>3. 1 \in 1 .. Len(ss[i])
    BY <2>2
  <2>4. i - 1 \in 0 .. n /\ i \in 0 .. n /\ n \in 0 .. n /\ i \in 0 .. n
    OBVIOUS
  <2>5. off[i - 1] \in Nat /\ off[n] \in Nat /\ off[i] <= off[n]
    BY <2>4, <1>6, <1>7
  <2>6. off[i] = off[i - 1] + 1 /\ q[off[i - 1] + 1] = ss[i][1]
    BY <2>2, <2>3, <1>6
  <2> QED BY <2>2, <2>5, <2>6, <1>6
<1> DEFINE U == K \cap (1 .. n)
           m == Len(q)
           Has(k, i) == i \in U /\ off[i - 1] + 1 = k
           f == [k \in 1 .. m |-> CHOOSE i : Has(k, i)]
<1>9. ASSUME NEW k \in 1 .. m PROVE Has(k, f[k])
  <2>1. k \in 1 .. off[Len(ss)]
    BY <1>2, <1>6
  <2>2. InPart(ss, off, k)
    BY <2>1, <1>2, <1>4, PartOf
  <2>3. PICK i \in 1 .. n : \E j \in 1 .. Len(ss[i]) : k = off[i - 1] + j
    BY <2>2, <1>2 DEF InPart
  <2>4. PICK j \in 1 .. Len(ss[i]) : k = off[i - 1] + j
    BY <2>3
  <2>5. i \in K
    <3> SUFFICES ASSUME i \notin K PROVE FALSE
      OBVIOUS
    <3>1. ss[i] = <<>>
      BY <1>2
    <3>2. Len(ss[i]) = 0
      BY <3>1
    <3> QED BY <3>2, <2>4
  <2>6. Len(ss[i]) = 1
    <3>1. ss[i] = <<s[i]>>
      BY <2>5, <1>2
    <3> QED BY <3>1
  <2>7. Has(k, i)
    BY <2>4, <2>5, <2>6
  <2>8. Has(k, CHOOSE x : Has(k, x))
    BY <2>7
  <2> QED BY <2>8
<1> HIDE DEF f
<1>10. \A k \in 1 .. m : f[k] \in U /\ off[f[k] - 1] + 1 = k
  BY <1>9
<1>11. f \in [1 .. m -> U]
  <2>1. f = [k \in 1 .. m |-> f[k]]
    BY DEF f
  <2> QED BY <2>1, <1>10
<1>12. ASSUME NEW i \in 1 .. n, NEW j \in 1 .. n, j <= i PROVE off[j - 1] <= off[i - 1]
  <2>1. i - 1 \in 0 .. n /\ j - 1 \in 0 .. (i - 1)
    BY <1>12
  <2> QED BY <2>1, <1>7
<1>13. \A i \in 1 .. n : off[i - 1] \in Nat
  <2> SUFFICES ASSUME NEW i \in 1 .. n PROVE off[i - 1] \in Nat
    OBVIOUS
  <2>1. i - 1 \in 0 .. n
    OBVIOUS
  <2> QED BY <2>1, <1>6
<1>14. ASSUME NEW k \in 1 .. m, NEW l \in 1 .. m, k < l PROVE f[k] < f[l]
  <2>1. PICK i \in 1 .. n : i = f[k] /\ off[i - 1] + 1 = k
    BY <1>10
  <2>2. PICK j \in 1 .. n : j = f[l] /\ off[j - 1] + 1 = l
    BY <1>10
  <2>3. ~(j <= i)
    <3> SUFFICES ASSUME j <= i PROVE FALSE
      OBVIOUS
    <3>1. off[j - 1] <= off[i - 1]
      BY <1>12
    <3>2. PICK a \in Nat, b \in Nat : a = off[i - 1] /\ b = off[j - 1]
      BY <1>13
    <3>3. b <= a /\ a + 1 = k /\ b + 1 = l
      BY <3>1, <3>2, <2>1, <2>2
    <3> QED BY <3>3, <1>14
  <2> QED BY <2>1, <2>2, <2>3
<1>15. ASSUME NEW i \in U PROVE \E k \in 1 .. m : f[k] = i
  <2>0. i \in 1 .. n /\ i \in K
    OBVIOUS
  <2>1. PICK k \in 1 .. m : k = off[i - 1] + 1
    BY <2>0, <1>8
  <2>2. PICK j \in 1 .. n : j = f[k] /\ j \in K /\ off[j - 1] + 1 = k
    BY <1>10
  <2>3. off[i - 1] = off[j - 1] /\ off[i] = off[i - 1] + 1 /\ off[j] = off[j - 1] + 1
        /\ off[i - 1] \in Nat
    <3>1. PICK a \in Nat, b \in Nat : a = off[i - 1] /\ b = off[j - 1]
      BY <2>0, <1>13
    <3>2. a + 1 = k /\ b + 1 = k
      BY <3>1, <2>1, <2>2
    <3>3. a = b
      BY <3>2
    <3>4. off[i] = off[i - 1] + 1 /\ off[j] = off[j - 1] + 1
      BY <2>0, <2>2, <1>8
    <3> QED BY <3>1, <3>3, <3>4
  <2>4. ~(i < j)
    <3> SUFFICES ASSUME i < j PROVE FALSE
      OBVIOUS
    <3>1. j - 1 \in 0 .. n /\ i \in 0 .. (j - 1)
      BY <2>0
    <3>2. off[i] <= off[j - 1]
      BY <3>1, <1>7
    <3> QED BY <3>2, <2>3
  <2>5. ~(j < i)
    <3> SUFFICES ASSUME j < i PROVE FALSE
      OBVIOUS
    <3>1. i - 1 \in 0 .. n /\ j \in 0 .. (i - 1)
      BY <2>0
    <3>2. off[j] <= off[i - 1]
      BY <3>1, <1>7
    <3> QED BY <3>2, <2>3
  <2>6. i = j
    BY <2>0, <2>4, <2>5
  <2> QED BY <2>2, <2>6
<1>16. Enumerates(f, m, U)
  BY <1>11, <1>14, <1>15, Zenon DEF Enumerates
<1>17. Selects(q, f, s)
  <2> SUFFICES ASSUME NEW k \in 1 .. Len(q) PROVE q[k] = s[f[k]]
    BY DEF Selects
  <2>1. PICK i \in 1 .. n : i = f[k] /\ i \in K /\ off[i - 1] + 1 = k
    BY <1>10
  <2> QED BY <2>1, <1>8
<1> QED BY <1>0, <1>5, <1>16, <1>17

\* There is one increasing enumeration of a set of numbers.
LEMMA EnumerationUnique ==
  ASSUME NEW U, U \subseteq Int, NEW m \in Nat, NEW n \in Nat, NEW f, NEW g,
         Enumerates(f, m, U), Enumerates(g, n, U)
  PROVE  m = n /\ \A k \in 1 .. m : f[k] = g[k]
<1>0. /\ f \in [1 .. m -> U] /\ g \in [1 .. n -> U]
      /\ \A k, l \in 1 .. m : k < l => f[k] < f[l]
      /\ \A k, l \in 1 .. n : k < l => g[k] < g[l]
      /\ \A u \in U : \E k \in 1 .. m : f[k] = u
      /\ \A u \in U : \E k \in 1 .. n : g[k] = u
  BY DEF Enumerates
<1>1. (\A k \in 1 .. m : f[k] \in U /\ f[k] \in Int) /\ (\A k \in 1 .. n : g[k] \in U /\ g[k] \in Int)
  BY <1>0
<1> DEFINE T == {k \in Nat : \A j \in 1 .. k : j <= m /\ j <= n => f[j] = g[j]}
<1>2. 0 \in T
  OBVIOUS
<1>3. ASSUME NEW k \in Nat, k \in T PROVE k + 1 \in T
  <2> SUFFICES ASSUME NEW j \in 1 .. k + 1, j <= m, j <= n PROVE f[j] = g[j]
    OBVIOUS
  <2>1. CASE j <= k
    BY <1>3, <2>1
  <2>2. CASE j = k + 1
    <3>0. j \in 1 .. m /\ j \in 1 .. n /\ f[j] \in Int /\ g[j] \in Int
      BY <1>1
    <3>a. \A i \in 1 .. m : i \in 1 .. n /\ i < j => f[i] = g[i]
      BY <1>3, <2>2
    <3>b. \A i \in 1 .. n : i < j => f[i] = g[i] /\ i \in 1 .. m
      BY <1>3, <2>2, <3>0
    <3>1. ~(f[j] < g[j])
      <4> SUFFICES ASSUME f[j] < g[j] PROVE FALSE
        OBVIOUS
      <4>1. PICK i \in 1 .. n : g[i] = f[j]
        BY <3>0, <1>0, <1>1
      <4>2. i < j
        <5> SUFFICES ASSUME ~(i < j) PROVE FALSE
          OBVIOUS
        <5>1. i = j \/ j < i
          OBVIOUS
        <5>2. i = j \/ g[j] < g[i]
          BY <5>1, <3>0, <1>0
        <5> QED BY <5>2, <4>1, <3>0, <1>1
      <4>3. f[i] = f[j] /\ i \in 1 .. m
        BY <4>1, <4>2, <3>b
      <4>4. f[i] < f[j]
        BY <4>2, <4>3, <3>0, <1>0
      <4> QED BY <4>3, <4>4, <3>0
    <3>2. ~(g[j] < f[j])
      <4> SUFFICES ASSUME g[j] < f[j] PROVE FALSE
        OBVIOUS
      <4>1. PICK i \in 1 .. m : f[i] = g[j]
        BY <3>0, <1>0, <1>1
      <4>2. i < j
        <5> SUFFICES ASSUME ~(i < j) PROVE FALSE
          OBVIOUS
        <5>1. i = j \/ j < i
          OBVIOUS
        <5>2. i = j \/ f[j] < f[i]
          BY <5>1, <3>0, <1>0
        <5> QED BY <5>2, <4>1, <3>0, <1>1
      <4>3. g[i] = g[j] /\ i \in 1 .. n
        <5>1. i \in 1 .. n
          BY <4>2, <3>0
        <5> QED BY <5>1, <4>1, <4>2, <3>a
      <4>4. g[i] < g[j]
        BY <4>2, <4>3, <3>0, <1>0
      <4> QED BY <4>3, <4>4, <3>0
    <3> QED BY <3>0, <3>1, <3>2
  <2> QED BY <2>1, <2>2
<1> HIDE DEF T
<1>4. \A k \in Nat : k \in T
  BY <1>2, <1>3, SetInduction
<1>5. \A j \in 1 .. m : j \in 1 .. n => f[j] = g[j]
  <2> SUFFICES ASSUME NEW j \in 1 .. m, j \in 1 .. n PROVE f[j] = g[j]
    OBVIOUS
  <2>1. j \in T /\ j \in 1 .. j /\ j <= m /\ j <= n
    BY <1>4
  <2> QED BY <2>1 DEF T
<1>6. ~(m < n)
  <2> SUFFICES ASSUME m < n PROVE FALSE
    OBVIOUS
  <2>1. m + 1 \in 1 .. n
    OBVIOUS
  <2>2. PICK j \in 1 .. m : f[j] = g[m + 1]
    BY <2>1, <1>0, <1>1
  <2>3. j \in 1 .. n /\ j < m + 1
    OBVIOUS
  <2>4. g[j] = f[j] /\ g[j] < g[m + 1] /\ g[m + 1] \in Int
    BY <2>1, <2>3, <1>0, <1>1, <1>5
  <2> QED BY <2>2, <2>4
<1>7. ~(n < m)
  <2> SUFFICES ASSUME n < m PROVE FALSE
    OBVIOUS
  <2>1. n + 1 \in 1 .. m
    OBVIOUS
  <2>2. PICK j \in 1 .. n : g[j] = f[n + 1]
    BY <2>1, <1>0, <1>1
  <2>3. j \in 1 .. m /\ j < n + 1
    OBVIOUS
  <2>4. g[j] = f[j] /\ f[j] < f[n + 1] /\ f[n + 1] \in Int
    BY <2>1, <2>3, <1>0, <1>1, <1>5
  <2> QED BY <2>2, <2>4
<1>8. m = n
  BY <1>6, <1>7
<1> QED BY <1>5, <1>8

\* A selection of the positions of K in increasing order is Kept.
LEMMA KeptUnique ==
  ASSUME NEW S, NEW s \in Seq(S), NEW K, NEW t \in Seq(S), NEW f,
         Enumerates(f, Len(t), K \cap (1 .. Len(s))), Selects(t, f, s)
  PROVE  t = Kept(s, K)
<1>1. PICK q : q = Kept(s, K)
  OBVIOUS
<1>2. q \in Seq(S) /\ \E g : Enumerates(g, Len(q), K \cap (1 .. Len(s))) /\ Selects(q, g, s)
  BY <1>1, KeptSelects
<1>3. PICK g : Enumerates(g, Len(q), K \cap (1 .. Len(s))) /\ Selects(q, g, s)
  BY <1>2
<1>4. Len(t) \in Nat /\ Len(q) \in Nat /\ K \cap (1 .. Len(s)) \subseteq Int
  BY <1>2
<1>5. Len(t) = Len(q) /\ \A k \in 1 .. Len(t) : f[k] = g[k]
  BY <1>3, <1>4, EnumerationUnique
<1>6. \A k \in 1 .. Len(t) : t[k] = q[k]
  BY <1>3, <1>5 DEF Selects
<1> QED BY <1>1, <1>2, <1>5, <1>6, SameSeq

-----------------------------------------------------------------------------
(* The constants that an INSERT gives to the columns.                      *)

\* A non-empty set of positions has a greatest one.
LEMMA Greatest ==
  ASSUME NEW n \in Nat, NEW U \in SUBSET (1 .. n), U # {}
  PROVE  \E i \in U : \A j \in U : j <= i
<1> DEFINE T == {m \in Nat : \A V \in SUBSET (1 .. m) : V # {} => \E i \in V : \A j \in V : j <= i}
<1>1. 0 \in T
  <2>1. 1 .. 0 = {}
    OBVIOUS
  <2>2. \A V \in SUBSET (1 .. 0) : V = {}
    BY <2>1
  <2> QED BY <2>2
<1>2. ASSUME NEW m \in Nat, m \in T PROVE m + 1 \in T
  <2> SUFFICES ASSUME NEW V \in SUBSET (1 .. m + 1), V # {}
               PROVE  \E i \in V : \A j \in V : j <= i
    OBVIOUS
  <2>1. CASE m + 1 \in V
    BY <2>1
  <2>2. CASE m + 1 \notin V
    <3>1. V \in SUBSET (1 .. m)
      BY <2>2
    <3> QED BY <3>1, <1>2
  <2> QED BY <2>1, <2>2
<1> HIDE DEF T
<1>3. \A m \in Nat : m \in T
  BY <1>1, <1>2, SetInduction
<1>4. n \in T
  BY <1>3
<1> QED BY <1>4 DEF T

\* A missing value is a constant.
LEMMA NilConst == Nil \in Consts
BY DEF Consts

\* The rows of one VALUES list, the parser's way.
LEMMA ParsedInsert ==
  ASSUME NEW s \in SqlStatements, s.kind = "insert"
  PROVE  /\ parseInsert(s).kind = "insert" /\ parseInsert(s).table = s.table
         /\ parseInsert(s).cols = s.cols /\ s.cols \in Seq(STRING)
         /\ parseInsert(s).lists \in Seq(Consts)
         /\ s.lists = <<>> => parseInsert(s).lists = <<>>
         /\ s.lists # <<>> =>
              /\ s.lists[1] \in Seq(Literals) /\ Len(parseInsert(s).lists) = Len(s.lists[1])
              /\ \A i \in 1 .. Len(s.lists[1]) :
                   parseInsert(s).lists[i] = extractConstValue(s.lists[1][i])
<1>1. s \in [kind : {"insert"}, table : STRING, cols : Seq(STRING), lists : Seq(Seq(Literals))]
  BY DEF SqlStatements
<1>2. PICK p : p = parseInsert(s)
  OBVIOUS
<1>3. PICK ls : ls = IF s.lists = <<>> THEN <<>>
                     ELSE [i \in DOMAIN s.lists[1] |-> extractConstValue(s.lists[1][i])]
  OBVIOUS
<1>4. p = [s EXCEPT !.lists = ls]
  BY <1>2, <1>3, Zenon DEF parseInsert
<1>5. p.kind = "insert" /\ p.table = s.table /\ p.cols = s.cols /\ p.lists = ls
      /\ s.cols \in Seq(STRING)
  BY <1>1, <1>4
<1>6. CASE s.lists = <<>>
  <2>1. ls = <<>> /\ <<>> \in Seq(Consts)
    BY <1>3, <1>6
  <2> QED BY <1>2, <1>5, <1>6, <2>1
<1>7. CASE s.lists # <<>>
  <2>1. PICK l \in Seq(Literals) : l = s.lists[1]
    <3>1. PICK x \in Seq(Seq(Literals)) : x = s.lists
      BY <1>1
    <3>2. x # <<>>
      BY <3>1, <1>7
    <3>3. x[1] \in Seq(Literals)
      BY <3>2
    <3> QED BY <3>1, <3>3
  <2>2. PICK n \in Nat : n = Len(l) /\ DOMAIN l = 1 .. n
    OBVIOUS
  <2>3. ls = [i \in 1 .. n |-> extractConstValue(l[i])]
    BY <1>3, <1>7, <2>1, <2>2
  <2>4. \A i \in 1 .. n : extractConstValue(l[i]) \in Consts
    BY <2>2, ExtractedConst
  <2>5. ls \in Seq(Consts) /\ Len(ls) = n /\ \A i \in 1 .. n : ls[i] = extractConstValue(l[i])
    BY <2>3, <2>4
  <2> QED BY <1>2, <1>5, <1>7, <2>1, <2>2, <2>5
<1> QED BY <1>6, <1>7

\* The names that the values of an INSERT are paired with.
InsertNames(s) ==
  IF s.cols = <<>> THEN [i \in DOMAIN columns |-> columns[i].name] ELSE s.cols

\* The names under which executeInsert files the values.
LEMMA InsertNamesTyped ==
  ASSUME columns \in Tables, NEW s, s.cols \in Seq(STRING)
  PROVE  InsertNames(s) \in Seq(STRING)
<1>1. PICK n \in Nat : n = Len(columns) /\ DOMAIN columns = 1 .. n
  BY DEF Tables
<1>2. \A i \in 1 .. n : columns[i].name \in STRING
  <2> SUFFICES ASSUME NEW i \in 1 .. n PROVE columns[i].name \in STRING
    OBVIOUS
  <2>1. columns[i] \in [name : STRING, type : TypeNames]
    BY <1>1, Element DEF Tables
  <2> QED BY <2>1
<1>3. [i \in DOMAIN columns |-> columns[i].name] \in Seq(STRING)
  BY <1>1, <1>2
<1> QED BY <1>3 DEF InsertNames

\* Among the places in used, the value of a name is that of its last use.
LastOfEach(s, used) ==
  /\ DOMAIN InsertValues(s) = {InsertNames(s)[i] : i \in used}
  /\ \A n \in DOMAIN InsertValues(s) :
       \E i \in used : /\ InsertNames(s)[i] = n /\ InsertValues(s)[n] = s.lists[i]
                       /\ \A j \in used : InsertNames(s)[j] = n => j <= i

\* The value filed under a name is the last one given for it.
LEMMA LastUse ==
  ASSUME columns \in Tables, NEW s, s.cols \in Seq(STRING), s.lists \in Seq(Consts),
         NEW used, used = DOMAIN InsertNames(s) \cap DOMAIN s.lists
  PROVE  LastOfEach(s, used)
<1>1. PICK names : names = InsertNames(s)
  OBVIOUS
<1> DEFINE last(n) == CHOOSE i \in used : names[i] = n /\ \A j \in used : names[j] = n => j <= i
<1>2. InsertValues(s) = [n \in {names[i] : i \in used} |-> s.lists[last(n)]]
  BY <1>1 DEF InsertValues, InsertNames
<1>3. used \in SUBSET (1 .. Len(s.lists)) /\ Len(s.lists) \in Nat
  OBVIOUS
<1>4. ASSUME NEW n \in {names[i] : i \in used}
      PROVE  \E i \in used : names[i] = n /\ \A j \in used : names[j] = n => j <= i
  <2> DEFINE V == {i \in used : names[i] = n}
  <2>1. V \in SUBSET (1 .. Len(s.lists)) /\ V # {}
    BY <1>3
  <2>2. \E i \in V : \A j \in V : j <= i
    BY <1>3, <2>1, Greatest
  <2> QED BY <2>2
<1>5. ASSUME NEW n \in {names[i] : i \in used}
      PROVE  /\ last(n) \in used /\ names[last(n)] = n
             /\ \A j \in used : names[j] = n => j <= last(n)
  BY <1>4
<1> HIDE DEF last
<1>6. DOMAIN InsertValues(s) = {names[i] : i \in used}
  BY <1>2
<1>7. ASSUME NEW n \in DOMAIN InsertValues(s)
      PROVE  \E i \in used : /\ names[i] = n /\ InsertValues(s)[n] = s.lists[i]
                             /\ \A j \in used : names[j] = n => j <= i
  <2>1. n \in {names[i] : i \in used}
    BY <1>6
  <2>2. InsertValues(s)[n] = s.lists[last(n)]
    BY <2>1, <1>2
  <2> QED BY <2>1, <2>2, <1>5
<1> QED BY <1>1, <1>6, <1>7 DEF LastOfEach

\* The value of every column of a new row is a constant.
LEMMA ColumnValueTyped ==
  ASSUME columns \in Tables, NEW s, s.cols \in Seq(STRING), s.lists \in Seq(Consts),
         NEW i \in 1 .. Len(columns)
  PROVE  getColumnValue(InsertValues(s), i) \in Consts
<1>1. PICK used : used = DOMAIN InsertNames(s) \cap DOMAIN s.lists
  OBVIOUS
<1>2. ASSUME NEW n \in DOMAIN InsertValues(s) PROVE InsertValues(s)[n] \in Consts
  <2>1. PICK k \in used : InsertValues(s)[n] = s.lists[k]
    <3>1. \E j \in used : /\ InsertNames(s)[j] = n /\ InsertValues(s)[n] = s.lists[j]
                          /\ \A l \in used : InsertNames(s)[l] = n => l <= j
      <4>1. LastOfEach(s, used)
        BY <1>1, LastUse
      <4> QED BY <4>1 DEF LastOfEach
    <3> QED BY <3>1
  <2>2. k \in 1 .. Len(s.lists)
    BY <1>1
  <2> QED BY <2>1, <2>2
<1> QED BY <1>2, NilConst DEF getColumnValue

-----------------------------------------------------------------------------
(* A row as SeqScan decodes it.                                            *)

\* What decodeStrip can make of a strip.
Stored ==
  [kind : {"int"}, num : Int, text : {<<>>}] \cup
  [kind : {"text"}, num : {0}, text : SignBlocks] \cup
  {BoolVal(TRUE), BoolVal(FALSE), Nil}

\* Four bytes are an integer.
LEMMA WordTyped ==
  ASSUME NEW b \in Seq(Byte), Len(b) = 4
  PROVE  Uint32(b) \in Int /\ Signed(Uint32(b)) \in Int
<1>1. PICK r \in Nat : r = Radix
  BY CodecAssumption
<1>2. b[1] \in Int /\ b[2] \in Int /\ b[3] \in Int /\ b[4] \in Int
  <2>1. 1 \in 1 .. Len(b) /\ 2 \in 1 .. Len(b) /\ 3 \in 1 .. Len(b) /\ 4 \in 1 .. Len(b)
    OBVIOUS
  <2>2. b[1] \in Byte /\ b[2] \in Byte /\ b[3] \in Byte /\ b[4] \in Byte
    BY <2>1, Element, Zenon
  <2>3. Byte \subseteq Int
    BY <1>1 DEF Byte
  <2> QED BY <2>2, <2>3
<1>3. PICK w, x, y, z \in Int : w = b[1] /\ x = b[2] /\ y = b[3] /\ z = b[4]
  BY <1>2
<1>4. Uint32(b) = ((w * r + x) * r + y) * r + z
  BY <1>1, <1>3, Zenon DEF Uint32
<1>5. w * r + x \in Int
  OBVIOUS
<1>6. (w * r + x) * r + y \in Int
  BY <1>5
<1>7. ((w * r + x) * r + y) * r + z \in Int
  BY <1>6
<1>8. PICK u \in Int : u = Uint32(b)
  BY <1>4, <1>7
<1>9. PICK p \in Int : p = Power(4)
  BY Powers
<1>10. Signed(u) = IF 2 * u >= p THEN u - p ELSE u
  BY <1>9, Zenon DEF Signed, Power
<1> QED BY <1>8, <1>10

\* Banners decode to integers.
LEMMA DecodedInts ==
  ASSUME NEW b \in BannerBlocks, NEW c \in BannerBlocks
  PROVE  DecodeInt32(b) \in Int /\ DecodeInt64(b, c) \in Int
<1>0. b \in Seq(Byte) /\ Len(b) = 6 /\ c \in Seq(Byte) /\ Len(c) = 6
  BY DEF BannerBlocks, bytesPerBanner
<1>1. DecodeInt32(b) \in Int
  <2>1. PICK d : d = SubSeq(b, 1, 4)
    OBVIOUS
  <2>2. d \in Seq(Byte) /\ Len(d) = 4
    <3>0. PICK o \in Nat, k \in Nat : o = 0 /\ k = 4
      OBVIOUS
    <3>1. o + k <= Len(b) /\ o + 1 = 1 /\ o + k = 4
      BY <3>0, <1>0
    <3>2. SubSeq(b, o + 1, o + k) \in Seq(Byte) /\ Len(SubSeq(b, o + 1, o + k)) = k
      BY <3>1, <1>0, Part, ZenonT(30)
    <3> QED BY <3>0, <3>1, <3>2, <2>1
  <2>3. Masked(d) \in Seq(Byte) /\ Len(Masked(d)) = 4
    BY <2>2, MaskSeq
  <2> QED BY <2>1, <2>3, WordTyped DEF DecodeInt32
<1>2. DecodeInt64(b, c) \in Int
  <2>1. PICK d : d = SubSeq(c, 1, 2)
    OBVIOUS
  <2>2. d \in Seq(Byte) /\ Len(d) = 2
    <3>0. PICK o \in Nat, k \in Nat : o = 0 /\ k = 2
      OBVIOUS
    <3>1. o + k <= Len(c) /\ o + 1 = 1 /\ o + k = 2
      BY <3>0, <1>0
    <3>2. SubSeq(c, o + 1, o + k) \in Seq(Byte) /\ Len(SubSeq(c, o + 1, o + k)) = k
      BY <3>1, <1>0, Part, ZenonT(30)
    <3> QED BY <3>0, <3>1, <3>2, <2>1
  <2>3. PICK e : e = b \o d
    OBVIOUS
  <2>4. e \in Seq(Byte) /\ Len(e) = 8
    <3>1. e \in Seq(Byte) /\ Len(e) = Len(b) + Len(d)
      BY <1>0, <2>2, <2>3, Joined, Zenon
    <3> QED BY <3>1, <1>0, <2>2
  <2>5. PICK m \in Seq(Byte) : m = Masked(e) /\ Len(m) = 8
    BY <2>4, MaskSeq
  <2>6. PICK x : x = SubSeq(m, 1, 4)
    OBVIOUS
  <2>7. PICK y : y = SubSeq(m, 5, 8)
    OBVIOUS
  <2>8. x \in Seq(Byte) /\ Len(x) = 4
    <3>0. PICK o \in Nat, k \in Nat : o = 0 /\ k = 4
      OBVIOUS
    <3>1. o + k <= Len(m) /\ o + 1 = 1 /\ o + k = 4
      BY <3>0, <2>5
    <3>2. SubSeq(m, o + 1, o + k) \in Seq(Byte) /\ Len(SubSeq(m, o + 1, o + k)) = k
      BY <3>1, <2>5, Part, ZenonT(30)
    <3> QED BY <3>0, <3>1, <3>2, <2>6
  <2>9. y \in Seq(Byte) /\ Len(y) = 4
    <3>0. PICK o \in Nat, k \in Nat : o = 4 /\ k = 4
      OBVIOUS
    <3>1. o + k <= Len(m) /\ o + 1 = 5 /\ o + k = 8
      BY <3>0, <2>5
    <3>2. SubSeq(m, o + 1, o + k) \in Seq(Byte) /\ Len(SubSeq(m, o + 1, o + k)) = k
      BY <3>1, <2>5, Part, ZenonT(30)
    <3> QED BY <3>0, <3>1, <3>2, <2>7
  <2>10. Signed(Uint32(x)) \in Int /\ Uint32(y) \in Int
    BY <2>8, <2>9, WordTyped
  <2>11. PICK p \in Int : p = Power(4)
    BY Powers
  <2>12. DecodeInt64(b, c) = Signed(Uint32(x)) * p + Uint32(y)
    BY <2>1, <2>3, <2>5, <2>6, <2>7, <2>11, Zenon DEF DecodeInt64, Int64Of, Power
  <2> QED BY <2>10, <2>12
<1> QED BY <1>1, <1>2

\* Where column i has its blocks.
LEMMA ColumnPlace ==
  ASSUME columns \in Tables, NEW i \in 1 .. Len(columns)
  PROVE  /\ stripWidthBanners \in Nat /\ stripWidth \in Nat
         /\ 4 <= stripWidthBanners /\ stripWidthBanners <= stripWidth
         /\ BannerStart(i) \in Nat /\ BannerStart(i) >= 4
         /\ BannerStart(i) + Banners(columns[i]) <= stripWidthBanners
         /\ SignStart(i) \in Nat /\ SignStart(i) >= stripWidthBanners
         /\ SignStart(i) + Signs(columns[i]) <= stripWidth
<1>0. PICK n \in Nat : n = Len(columns)
  BY DEF Tables
<1>1. PICK ob : BannersBefore(ob)
  BY PositionsExist
<1>2. PICK os : SignsBefore(os)
  BY PositionsExist
<1>3. i - 1 \in 0 .. n /\ i \in 0 .. n /\ n \in 0 .. n
  BY <1>0
<1>4. PICK o \in Nat, u \in Nat : o = ob[i - 1] /\ u = ob[n] /\ ob[i] <= u /\ u = SumOf(Banners, columns)
                                  /\ SumOf(Banners, SubSeq(columns, 1, i - 1)) = o
                                  /\ ob[i] = o + Banners(columns[i])
  BY <1>0, <1>1, <1>3 DEF BannersBefore
<1>5. PICK g \in Nat, w \in Nat : g = os[i - 1] /\ w = os[n] /\ os[i] <= w /\ w = SumOf(Signs, columns)
                                  /\ SumOf(Signs, SubSeq(columns, 1, i - 1)) = g
                                  /\ os[i] = g + Signs(columns[i])
  BY <1>0, <1>2, <1>3 DEF SignsBefore
<1>6. Banners(columns[i]) \in Nat /\ Signs(columns[i]) \in Nat
  BY DEF Banners, Signs
<1>7. /\ stripWidthBanners = 4 + u /\ stripWidth = 4 + u + w
      /\ BannerStart(i) = 4 + o /\ SignStart(i) = 4 + u + g
  BY <1>4, <1>5 DEF stripWidthBanners, stripWidth, BannerStart, SignStart
<1>8. PICK p \in Nat, q \in Nat : p = Banners(columns[i]) /\ q = Signs(columns[i])
  BY <1>6
<1>9. o + p <= u /\ g + q <= w
  BY <1>4, <1>5, <1>8
<1>10. /\ 4 + u \in Nat /\ 4 + u + w \in Nat /\ 4 <= 4 + u /\ 4 + u <= 4 + u + w
       /\ 4 + o \in Nat /\ 4 + o >= 4 /\ 4 + o + p <= 4 + u
       /\ 4 + u + g \in Nat /\ 4 + u + g >= 4 + u /\ 4 + u + g + q <= 4 + u + w
  BY <1>9
<1>11. /\ stripWidthBanners \in Nat /\ stripWidth \in Nat
       /\ 4 <= stripWidthBanners /\ stripWidthBanners <= stripWidth
  BY <1>7, <1>10
<1>12. /\ BannerStart(i) \in Nat /\ BannerStart(i) >= 4
       /\ BannerStart(i) + Banners(columns[i]) <= stripWidthBanners
  BY <1>7, <1>8, <1>10
<1>13. /\ SignStart(i) \in Nat /\ SignStart(i) >= stripWidthBanners
       /\ SignStart(i) + Signs(columns[i]) <= stripWidth
  BY <1>7, <1>8, <1>10
<1> QED BY <1>11, <1>12, <1>13

\* The widths that SeqScan reads.
LEMMA WidthTyped ==
  ASSUME columns \in Tables
  PROVE  /\ stripWidthBanners \in Nat /\ stripWidth \in Nat
         /\ 4 <= stripWidthBanners /\ stripWidthBanners <= stripWidth
<1>0. PICK n \in Nat : n = Len(columns)
  BY DEF Tables
<1>1. PICK ob : BannersBefore(ob)
  BY PositionsExist
<1>2. PICK os : SignsBefore(os)
  BY PositionsExist
<1>3. n \in 0 .. n
  BY <1>0
<1>4. SumOf(Banners, columns) \in Nat /\ SumOf(Signs, columns) \in Nat
  BY <1>0, <1>1, <1>2, <1>3 DEF BannersBefore, SignsBefore
<1> QED BY <1>4 DEF stripWidthBanners, stripWidth

\* decodeStrip gives an integer for an integer column and a well-formed text for a
\* TEXT column.
LEMMA DecodedTyped ==
  ASSUME columns \in Tables, NEW data, RowOK(data), NEW i \in 1 .. Len(columns)
  PROVE  /\ DecodedColumn(data, i) \in Stored
         /\ columns[i].type \in {"INT", "BIGINT"} =>
              DecodedColumn(data, i) \in [kind : {"int"}, num : Int, text : {<<>>}]
         /\ columns[i].type = "TEXT" =>
              DecodedColumn(data, i) \in [kind : {"text"}, num : {0}, text : SignBlocks]
<1>1. PICK b \in Nat, g \in Nat, x \in Nat, y \in Nat :
        /\ b = BannerStart(i) /\ g = SignStart(i) /\ x = stripWidthBanners /\ y = stripWidth
        /\ b + Banners(columns[i]) <= x /\ g + Signs(columns[i]) <= y /\ x <= g
  BY ColumnPlace
<1>2. /\ \A k \in 1 .. x : data[k] \in BannerBlocks
      /\ \A k \in (x + 1) .. y : data[k] \in SignBlocks
  BY <1>1 DEF RowOK
<1>3. CASE columns[i].type = "INT"
  <2>1. Banners(columns[i]) = 1
    BY <1>3 DEF Banners
  <2>2. b + 1 \in 1 .. x
    BY <2>1, <1>1
  <2>3. DecodeInt32(data[b + 1]) \in Int
    BY <2>2, <1>2, DecodedInts
  <2>4. DecodedColumn(data, i) = IntVal(DecodeInt32(data[b + 1]))
    BY <1>1, <1>3 DEF DecodedColumn
  <2>5. DecodedColumn(data, i) \in [kind : {"int"}, num : Int, text : {<<>>}]
    BY <2>3, <2>4 DEF IntVal
  <2> QED BY <1>3, <2>5 DEF Stored
<1>4. CASE columns[i].type = "BIGINT"
  <2>1. Banners(columns[i]) = 2
    BY <1>4 DEF Banners
  <2>2. b + 1 \in 1 .. x /\ b + 2 \in 1 .. x
    BY <2>1, <1>1
  <2>3. DecodeInt64(data[b + 1], data[b + 2]) \in Int
    BY <2>2, <1>2, DecodedInts
  <2>4. DecodedColumn(data, i) = IntVal(DecodeInt64(data[b + 1], data[b + 2]))
    BY <1>1, <1>4 DEF DecodedColumn
  <2>5. DecodedColumn(data, i) \in [kind : {"int"}, num : Int, text : {<<>>}]
    BY <2>3, <2>4 DEF IntVal
  <2> QED BY <1>4, <2>5 DEF Stored
<1>5. CASE columns[i].type = "BOOLEAN"
  <2>1. DecodedColumn(data, i) = BoolVal(DecodeBool(data[b + 1]))
    BY <1>1, <1>5 DEF DecodedColumn
  <2>2. DecodeBool(data[b + 1]) \in BOOLEAN
    BY DEF DecodeBool
  <2> QED BY <1>5, <2>1, <2>2 DEF Stored
<1>6. CASE columns[i].type = "TEXT"
  <2>1. Signs(columns[i]) = 1
    BY <1>6 DEF Signs
  <2>2. g + 1 \in (x + 1) .. y
    BY <2>1, <1>1
  <2>3. PICK t \in SignBlocks : t = DecodeText(decodeSignData(data[g + 1]))
    BY <2>2, <1>2, DecodedWellFormed
  <2>4. DecodedColumn(data, i) = TextVal(t)
    BY <1>1, <1>6, <2>3 DEF DecodedColumn
  <2>5. DecodedColumn(data, i) \in [kind : {"text"}, num : {0}, text : SignBlocks]
    BY <2>4 DEF TextVal
  <2> QED BY <1>6, <2>5 DEF Stored
<1>7. CASE columns[i].type \notin {"INT", "BIGINT", "BOOLEAN", "TEXT"}
  <2>1. DecodedColumn(data, i) = Nil
    BY <1>7 DEF DecodedColumn
  <2> QED BY <1>7, <2>1 DEF Stored
<1> QED BY <1>3, <1>4, <1>5, <1>6, <1>7

\* The rows that a scan returns.
ScanRows == [id : Nat, vals : [1 .. Len(columns) -> Stored]]

\* Every strip decoded, and the visible ones.
AllRows(n, st) == [i \in 1 .. n |-> [id |-> i, vals |-> decodeStrip(st[i])]]
Visible(n, st) == {i \in 1 .. n : isVisible(SubSeq(st[i], 1, stripWidth), Txid)}

\* SeqScan keeps the visible ones of the decoded rows.
LEMMA ScanDef ==
  ASSUME NEW n, NEW st
  PROVE  SeqScan(n, st) = Kept(AllRows(n, st), Visible(n, st))
BY DEF SeqScan, AllRows, Visible

\* The rows in the order of their slots.
LEMMA AllRowsTyped ==
  ASSUME columns \in Tables, NEW n \in Nat, NEW st, \A i \in 1 .. n : RowOK(st[i])
  PROVE  /\ AllRows(n, st) \in Seq(ScanRows) /\ Len(AllRows(n, st)) = n
         /\ \A i \in 1 .. n : /\ AllRows(n, st)[i].id = i
                              /\ AllRows(n, st)[i].vals = decodeStrip(st[i])
                              /\ \A j \in 1 .. Len(columns) :
                                   AllRows(n, st)[i].vals[j] = DecodedColumn(st[i], j)
<1>0. DOMAIN columns = 1 .. Len(columns)
  BY DEF Tables
<1>1. ASSUME NEW i \in 1 .. n
      PROVE  /\ [id |-> i, vals |-> decodeStrip(st[i])] \in ScanRows
             /\ \A j \in 1 .. Len(columns) : decodeStrip(st[i])[j] = DecodedColumn(st[i], j)
  <2>1. \A j \in 1 .. Len(columns) : DecodedColumn(st[i], j) \in Stored
    BY DecodedTyped
  <2>2. decodeStrip(st[i]) = [j \in 1 .. Len(columns) |-> DecodedColumn(st[i], j)]
    BY <1>0 DEF decodeStrip
  <2>3. decodeStrip(st[i]) \in [1 .. Len(columns) -> Stored]
    BY <2>1, <2>2
  <2> QED BY <2>2, <2>3 DEF ScanRows
<1> QED BY <1>1 DEF AllRows

\* A scan returns decoded rows.
LEMMA ScanTyped ==
  ASSUME columns \in Tables, NEW n \in Nat, NEW st, \A i \in 1 .. n : RowOK(st[i])
  PROVE  SeqScan(n, st) \in Seq(ScanRows)
BY AllRowsTyped, ScanDef, KeptSelects

-----------------------------------------------------------------------------
(* The inductive invariant.                                                *)

\* The columns are the declared ones under their normalized types.
SchemaInv ==
  /\ columns \in Tables /\ declared \in Schemas /\ Len(columns) = Len(declared)
  /\ \A i \in 1 .. Len(columns) : /\ columns[i].name = declared[i].name
                                  /\ columns[i].type = normalizeType(declared[i].type)

\* Every inserted row has its strip, of the layout that SeqScan reads.
StripInv ==
  /\ strip \in Seq(Seq(AnyBlock)) /\ rowCount = Len(strip)
  /\ \A i \in 1 .. rowCount : RowOK(strip[i])
  /\ columns = <<>> => rowCount = 0

\* What the table shows is what a scan returns.
ShownInv == shown = SeqScan(rowCount, strip)

\* There is room for the row of an INSERT that is not answered yet.
RequestInv ==
  /\ request \in Requests \cup {Idle}
  /\ request = Idle => answer = NoAnswer
  /\ rowCount <= MaxRows
  /\ answer = NoAnswer /\ request # Idle /\ request # <<>> =>
       (request[1].kind = "insert" => rowCount < MaxRows)

\* An answer is of one of the kinds, its texts well-formed.
AnswerInv == answer.kind \in {"none", "error", "done", "rows"} /\ TextsWellFormed

\* The inductive invariant.
IInv == SchemaInv /\ StripInv /\ ShownInv /\ RequestInv /\ AnswerInv

\* A step that keeps the columns keeps the widths.
LEMMA SameWidth ==
  ASSUME columns' = columns
  PROVE  stripWidth' = stripWidth /\ stripWidthBanners' = stripWidthBanners
BY DEF stripWidth, stripWidthBanners

\* A step that keeps the columns keeps the meaning of a scan.
LEMMA SameScan ==
  ASSUME columns' = columns
  PROVE  (SeqScan(rowCount, strip))' = SeqScan(rowCount', strip')
BY SMT DEF SeqScan, decodeStrip, DecodedColumn, BannerStart, SignStart, stripWidth

\* A step that keeps the columns keeps what a row must look like.
LEMMA SameRows ==
  ASSUME columns' = columns, \A i \in 1 .. rowCount' : RowOK(strip'[i])
  PROVE  (\A i \in 1 .. rowCount : RowOK(strip[i]))'
BY SameWidth DEF RowOK

\* Nothing is written to the table.
LEMMA SameTable ==
  ASSUME IInv, UNCHANGED table
  PROVE  SchemaInv' /\ StripInv' /\ ShownInv' /\ rowCount' = rowCount
<1>1. /\ columns' = columns /\ declared' = declared /\ rowCount' = rowCount
      /\ strip' = strip /\ shown' = shown
  BY DEF table
<1>2. SchemaInv'
  BY <1>1 DEF IInv, SchemaInv
<1>3. (\A i \in 1 .. rowCount : RowOK(strip[i]))'
  BY <1>1, SameRows DEF IInv, StripInv
<1>4. StripInv'
  BY <1>1, <1>3 DEF IInv, StripInv
<1>5. ShownInv'
  BY <1>1, SameScan DEF IInv, ShownInv
<1> QED BY <1>1, <1>2, <1>4, <1>5

\* The answers without rows.
LEMMA AnswerTexts ==
  /\ NoAnswer.kind = "none" /\ NoAnswer.rows = <<>>
  /\ ErrorAnswer.kind = "error" /\ ErrorAnswer.rows = <<>>
  /\ \A n : /\ DoneAnswer(n).kind = "done" /\ DoneAnswer(n).rows = <<>>
            /\ DoneAnswer(n).count = n /\ DoneAnswer(n).cols = <<>>
BY DEF NoAnswer, ErrorAnswer, DoneAnswer

\* An answer without rows has no ill-formed text.
LEMMA PlainAnswer ==
  ASSUME answer.kind \in {"none", "error", "done"}, answer.rows = <<>>
  PROVE  AnswerInv
BY DEF AnswerInv, TextsWellFormed

\* The inductive invariant holds initially.
LEMMA InitInv == Init => IInv
<1> SUFFICES ASSUME Init PROVE IInv
  OBVIOUS
<1> USE DEF Init
<1>1. SchemaInv
  <2>1. <<>> \in Schemas /\ <<>> \in Tables /\ Len(<<>>) = 0
    BY DEF Schemas, Tables
  <2> QED BY <2>1 DEF SchemaInv
<1>2. StripInv
  <2>1. <<>> \in Seq(Seq(AnyBlock)) /\ Len(<<>>) = 0
    OBVIOUS
  <2> QED BY <2>1 DEF StripInv
<1>3. ShownInv
  <2>1. AllRows(0, <<>>) = <<>>
    BY DEF AllRows
  <2>2. <<>> \in Seq(ScanRows) /\ Len(<<>>) = 0
    OBVIOUS
  <2>3. PICK q : q = Kept(<<>>, Visible(0, <<>>))
    OBVIOUS
  <2>4. q \in Seq(ScanRows) /\ \E f : Enumerates(f, Len(q), Visible(0, <<>>) \cap (1 .. 0))
    BY <2>2, <2>3, KeptSelects
  <2>5. PICK f : Enumerates(f, Len(q), Visible(0, <<>>) \cap (1 .. 0))
    BY <2>4
  <2>6. 1 .. Len(q) = {}
    BY <2>5 DEF Enumerates
  <2>7. q = <<>>
    <3>1. PICK n \in Nat : n = Len(q)
      BY <2>4
    <3>2. n = 0
      BY <2>6, <3>1
    <3>3. Len(q) = Len(<<>>) /\ \A i \in 1 .. Len(q) : q[i] = <<>>[i]
      BY <3>1, <3>2, <2>2
    <3> QED BY <2>2, <2>4, <3>3, SameSeq
  <2> QED BY <2>1, <2>3, <2>7, ScanDef DEF ShownInv
<1>4. RequestInv
  BY StatementsAssumption DEF RequestInv
<1>5. AnswerInv
  BY AnswerTexts, PlainAnswer
<1> QED BY <1>1, <1>2, <1>3, <1>4, <1>5 DEF IInv

\* What the parser hands to the executor.
LEMMA ParsedRequest ==
  ASSUME NEW req \in Requests, NEW s, s = Parse(req)
  PROVE  /\ s.kind \in {"create", "insert", "select", "delete", "other"}
         /\ s.kind = "create" => s.cols \in Schemas
         /\ s.kind = "insert" =>
              /\ s.cols \in Seq(STRING) /\ s.lists \in Seq(Consts)
              /\ s = parseInsert(req[1])
         /\ req = <<>> => s.kind = "other"
         /\ req # <<>> => /\ req[1] \in SqlStatements /\ s.kind = req[1].kind /\ s.table = req[1].table
                          /\ s.kind # "insert" => s = req[1]
<1>1. req \in Seq(SqlStatements)
  BY StatementsAssumption
<1>2. CASE req = <<>>
  <2>1. s = OtherStmt
    BY <1>2 DEF Parse
  <2> QED BY <1>2, <2>1 DEF OtherStmt
<1>3. CASE req # <<>>
  <2>1. PICK r \in SqlStatements : r = req[1]
    <3>1. 1 \in 1 .. Len(req)
      BY <1>1, <1>3
    <3> QED BY <3>1, <1>1, Element
  <2>2. CASE r.kind = "insert"
    <3>1. s = parseInsert(r)
      BY <1>3, <2>1, <2>2 DEF Parse
    <3> QED BY <1>3, <2>1, <2>2, <3>1, ParsedInsert
  <2>3. CASE r.kind # "insert"
    <3>1. s = r
      BY <1>3, <2>1, <2>3 DEF Parse
    <3>2. /\ r.kind \in {"create", "insert", "select", "delete", "other"}
          /\ r.kind = "create" => r.cols \in Schemas
      BY DEF SqlStatements
    <3> QED BY <1>3, <2>1, <2>3, <3>1, <3>2
  <2> QED BY <2>2, <2>3
<1> QED BY <1>2, <1>3

\* A function on 1 .. n is a sequence.
LEMMA IndexedSeq ==
  ASSUME NEW S, NEW n \in Nat, NEW f, f = [i \in 1 .. n |-> f[i]],
         \A i \in 1 .. n : f[i] \in S
  PROVE  f \in Seq(S) /\ Len(f) = n
OBVIOUS

\* normalizeType gives a type name.
LEMMA NormalTypes ==
  ASSUME NEW t \in STRING
  PROVE  normalizeType(t) \in TypeNames
<1>1. normalizeType(t) \in {"INT", "BIGINT", "TEXT", "BOOLEAN", "FLOAT"} \/ normalizeType(t) = t
  BY Zenon DEF normalizeType
<1> QED BY <1>1, Zenon DEF TypeNames

\* MarkDeleted leaves the layout of the strip alone, and every column.
LEMMA MarkedRow ==
  ASSUME columns \in Tables, NEW data, RowOK(data)
  PROVE  /\ RowOK(MarkDeleted(data)) /\ Len(MarkDeleted(data)) = Len(data)
         /\ MarkDeleted(data)[1] = data[1] /\ MarkDeleted(data)[2] = data[2]
         /\ MarkDeleted(data)[3] = EncodeInt64(Txid)[1]
         /\ MarkDeleted(data)[4] = EncodeInt64(Txid)[2]
         /\ \A i \in 5 .. stripWidth : MarkDeleted(data)[i] = data[i]
<1>1. PICK x \in Nat, y \in Nat : x = stripWidthBanners /\ y = stripWidth /\ 4 <= x /\ x <= y
  BY WidthTyped
<1>2. PICK a \in BannerBlocks, b \in BannerBlocks :
        a = EncodeInt64(Txid)[1] /\ b = EncodeInt64(Txid)[2]
  BY TxidRange, Int64RoundTrip DEF Banner, BannerBlocks
<1>3. /\ data \in Seq(AnyBlock) /\ Len(data) = y
      /\ \A k \in 1 .. x : data[k] \in BannerBlocks
      /\ \A k \in (x + 1) .. y : data[k] \in SignBlocks
  BY <1>1 DEF RowOK
<1>4. a \in AnyBlock /\ b \in AnyBlock
  BY DEF AnyBlock
<1>5. PICK m : m = MarkDeleted(data)
  OBVIOUS
<1>6. m = [data EXCEPT ![3] = a, ![4] = b]
  BY <1>2, <1>5 DEF MarkDeleted
<1>7. DOMAIN data = 1 .. y
  BY <1>3
<1>8. /\ DOMAIN m = 1 .. y
      /\ \A i \in 1 .. y : m[i] = IF i = 4 THEN b ELSE IF i = 3 THEN a ELSE data[i]
  BY <1>6, <1>7
<1>9. m \in Seq(AnyBlock) /\ Len(m) = y
  <2>1. \A i \in 1 .. y : data[i] \in AnyBlock
    BY <1>3, Element
  <2>2. m = [i \in 1 .. y |-> m[i]]
    BY <1>6, <1>7
  <2>3. \A i \in 1 .. y : m[i] \in AnyBlock
    BY <2>1, <1>4, <1>8
  <2> QED BY <2>2, <2>3
<1>10. m[1] = data[1] /\ m[2] = data[2] /\ m[3] = a /\ m[4] = b
       /\ \A i \in 5 .. y : m[i] = data[i]
  <2>1. 1 \in 1 .. y /\ 2 \in 1 .. y /\ 3 \in 1 .. y /\ 4 \in 1 .. y
    BY <1>1
  <2>2. \A i \in 5 .. y : i \in 1 .. y /\ i # 3 /\ i # 4
    OBVIOUS
  <2> QED BY <2>1, <2>2, <1>8
<1>11. /\ \A k \in 1 .. x : m[k] \in BannerBlocks
       /\ \A k \in (x + 1) .. y : m[k] \in SignBlocks
  <2>1. ASSUME NEW k \in 1 .. x PROVE m[k] \in BannerBlocks
    <3>1. k \in 1 .. y
      BY <1>1
    <3> QED BY <3>1, <1>3, <1>8
  <2>2. ASSUME NEW k \in (x + 1) .. y PROVE m[k] \in SignBlocks
    <3>1. k \in 5 .. y
      BY <1>1
    <3> QED BY <3>1, <1>3, <1>10
  <2> QED BY <2>1, <2>2
<1>12. RowOK(m)
  BY <1>1, <1>9, <1>11 DEF RowOK
<1> QED BY <1>1, <1>2, <1>3, <1>5, <1>9, <1>10, <1>12

\* executeInsert keeps the table readable.
LEMMA InsertStep ==
  ASSUME IInv, NEW s, s.cols \in Seq(STRING), s.lists \in Seq(Consts), executeInsert(s),
         rowCount < MaxRows
  PROVE  SchemaInv' /\ StripInv' /\ ShownInv' /\ AnswerInv' /\ rowCount' <= MaxRows
<1> USE DEF IInv
<1>1. CASE ~GetTable(s) /\ Refuse
  <2>1. answer'.kind = "error" /\ answer'.rows = <<>> /\ UNCHANGED table
    BY <1>1, AnswerTexts DEF Refuse
  <2>2. AnswerInv'
    BY <2>1 DEF AnswerInv, TextsWellFormed
  <2> QED BY <2>1, <2>2, SameTable DEF RequestInv
<1>2. CASE /\ GetTable(s)
           /\ rowCount' = rowCount + 1
           /\ strip' = Append(strip, RowBlocks(InsertValues(s)))
           /\ shown' = SeqScan(rowCount', strip')
           /\ answer' = DoneAnswer(1)
           /\ UNCHANGED <<columns, declared>>
  <2>1. columns' = columns /\ declared' = declared /\ columns # <<>>
    BY <1>2 DEF GetTable
  <2>2. SchemaInv'
    BY <2>1 DEF SchemaInv
  <2>3. columns \in Tables
    BY DEF SchemaInv
  <2>4. PICK r : r = RowBlocks(InsertValues(s))
    OBVIOUS
  <2>5. RowOK(r)
    <3>1. \A i \in 1 .. Len(columns) : getColumnValue(InsertValues(s), i) \in Consts
      BY <2>3, ColumnValueTyped
    <3> QED BY <2>3, <2>4, <3>1, RowLayout
  <2>6. r \in Seq(AnyBlock)
    BY <2>5 DEF RowOK
  <2>7. /\ strip \in Seq(Seq(AnyBlock)) /\ rowCount = Len(strip) /\ rowCount \in Nat
        /\ \A i \in 1 .. rowCount : RowOK(strip[i])
    BY DEF StripInv
  <2>8. strip' = Append(strip, r)
    BY <1>2, <2>4
  <2>9. /\ strip' \in Seq(Seq(AnyBlock)) /\ Len(strip') = rowCount + 1
        /\ strip'[rowCount + 1] = r /\ \A i \in 1 .. rowCount : strip'[i] = strip[i]
    BY <2>6, <2>7, <2>8
  <2>10. \A i \in 1 .. rowCount' : RowOK(strip'[i])
    <3> SUFFICES ASSUME NEW i \in 1 .. rowCount + 1 PROVE RowOK(strip'[i])
      BY <1>2
    <3>1. CASE i = rowCount + 1
      BY <3>1, <2>5, <2>9
    <3>2. CASE i # rowCount + 1
      <4>1. i \in 1 .. rowCount
        BY <3>2, <2>7
      <4> QED BY <4>1, <2>7, <2>9
    <3> QED BY <3>1, <3>2
  <2>11. StripInv'
    <3>1. (\A i \in 1 .. rowCount : RowOK(strip[i]))'
      BY <2>1, <2>10, SameRows
    <3> QED BY <1>2, <2>1, <2>9, <3>1 DEF StripInv
  <2>12. ShownInv'
    BY <1>2, <2>1, SameScan DEF ShownInv
  <2>13. AnswerInv'
    <3>1. answer'.kind = "done" /\ answer'.rows = <<>>
      BY <1>2, AnswerTexts
    <3> QED BY <3>1 DEF AnswerInv, TextsWellFormed
  <2>14. rowCount' <= MaxRows
    BY <1>2, <2>7, StatementsAssumption
  <2> QED BY <2>2, <2>11, <2>12, <2>13, <2>14
<1> QED BY <1>1, <1>2 DEF executeInsert

\* executeDelete keeps the table readable.
LEMMA DeleteStep ==
  ASSUME IInv, NEW s, executeDelete(s)
  PROVE  SchemaInv' /\ StripInv' /\ ShownInv' /\ AnswerInv' /\ rowCount' <= MaxRows
<1> USE DEF IInv
<1>1. CASE ~GetTable(s) /\ Refuse
  <2>1. answer'.kind = "error" /\ answer'.rows = <<>> /\ UNCHANGED table
    BY <1>1, AnswerTexts DEF Refuse
  <2>2. AnswerInv'
    BY <2>1 DEF AnswerInv, TextsWellFormed
  <2> QED BY <2>1, <2>2, SameTable DEF RequestInv
<1>2. CASE ~(~GetTable(s) /\ Refuse)
  <2>0. PICK hit, c : /\ strip' = [i \in DOMAIN strip |->
                                     IF i \in hit THEN MarkDeleted(strip[i]) ELSE strip[i]]
                      /\ answer' = DoneAnswer(c)
                      /\ shown' = SeqScan(rowCount, strip')
                      /\ UNCHANGED <<columns, declared, rowCount>>
                      /\ GetTable(s)
    BY <1>2 DEF executeDelete
  <2>1. columns' = columns /\ declared' = declared /\ rowCount' = rowCount
    BY <2>0
  <2>2. SchemaInv'
    BY <2>1 DEF SchemaInv
  <2>3. columns \in Tables
    BY DEF SchemaInv
  <2>7. /\ strip \in Seq(Seq(AnyBlock)) /\ rowCount = Len(strip) /\ rowCount \in Nat
        /\ DOMAIN strip = 1 .. rowCount
        /\ \A i \in 1 .. rowCount : RowOK(strip[i])
    BY DEF StripInv
  <2>8. \A i \in 1 .. rowCount : RowOK(MarkDeleted(strip[i]))
    BY <2>3, <2>7, MarkedRow
  <2>9. \A i \in 1 .. rowCount : RowOK(strip'[i])
    BY <2>0, <2>7, <2>8
  <2>10. strip' \in Seq(Seq(AnyBlock)) /\ Len(strip') = rowCount
    <3>1. strip' = [i \in 1 .. rowCount |-> strip'[i]]
      BY <2>0, <2>7
    <3>2. \A i \in 1 .. rowCount : strip'[i] \in Seq(AnyBlock)
      BY <2>9 DEF RowOK
    <3> QED BY <3>1, <3>2, <2>7, IndexedSeq
  <2>11. StripInv'
    <3>1. (\A i \in 1 .. rowCount : RowOK(strip[i]))'
      BY <2>1, <2>9, SameRows
    <3> QED BY <2>1, <2>10, <3>1 DEF StripInv
  <2>12. ShownInv'
    BY <2>0, <2>1, SameScan DEF ShownInv
  <2>13. AnswerInv'
    <3>1. answer'.kind = "done" /\ answer'.rows = <<>>
      BY <2>0, AnswerTexts
    <3> QED BY <3>1 DEF AnswerInv, TextsWellFormed
  <2> QED BY <2>1, <2>2, <2>11, <2>12, <2>13 DEF RequestInv
<1> QED BY <1>1, <1>2

\* executeCreateTable meets an empty table.
LEMMA CreateStep ==
  ASSUME IInv, NEW s, s.cols \in Schemas, executeCreateTable(s)
  PROVE  SchemaInv' /\ StripInv' /\ ShownInv' /\ AnswerInv' /\ rowCount' <= MaxRows
<1> USE DEF IInv
<1>1. CASE columns # <<>> /\ Refuse
  <2>1. answer'.kind = "error" /\ answer'.rows = <<>> /\ UNCHANGED table
    BY <1>1, AnswerTexts DEF Refuse
  <2>2. AnswerInv'
    BY <2>1 DEF AnswerInv, TextsWellFormed
  <2> QED BY <2>1, <2>2, SameTable DEF RequestInv
<1>2. CASE ~(columns # <<>> /\ Refuse)
  <2>0. /\ columns = <<>>
        /\ columns' = [i \in DOMAIN s.cols |-> [s.cols[i] EXCEPT !.type = normalizeType(@)]]
        /\ declared' = s.cols /\ answer' = DoneAnswer(0)
        /\ rowCount' = rowCount /\ strip' = strip /\ shown' = shown
    BY <1>2 DEF executeCreateTable
  <2>1. SchemaInv'
    <3>1. PICK d \in Schemas : d = s.cols
      OBVIOUS
    <3>2. PICK n \in Nat : n = Len(d) /\ DOMAIN d = 1 .. n
      BY DEF Schemas
    <3>3. \A i \in 1 .. n : d[i] \in [name : STRING, type : STRING]
      BY <3>2, Element DEF Schemas
    <3>4. \A t \in STRING : normalizeType(t) \in TypeNames
      BY NormalTypes
    <3>5. ASSUME NEW i \in 1 .. n
          PROVE  /\ [d[i] EXCEPT !.type = normalizeType(@)] \in [name : STRING, type : TypeNames]
                 /\ [d[i] EXCEPT !.type = normalizeType(@)].name = d[i].name
                 /\ [d[i] EXCEPT !.type = normalizeType(@)].type = normalizeType(d[i].type)
      BY <3>3, <3>4
    <3>6. columns' = [i \in 1 .. n |-> [d[i] EXCEPT !.type = normalizeType(@)]]
      BY <2>0, <3>1, <3>2
    <3>7. columns' \in Tables /\ Len(columns') = n
      <4>0. PICK c : c = columns'
        OBVIOUS
      <4>1. c = [i \in 1 .. n |-> c[i]]
        BY <4>0, <3>6
      <4>2. \A i \in 1 .. n : c[i] \in [name : STRING, type : TypeNames]
        BY <4>0, <3>5, <3>6
      <4>3. PICK R : R = [name : STRING, type : TypeNames]
        OBVIOUS
      <4>4. \A i \in 1 .. n : c[i] \in R
        BY <4>2, <4>3
      <4>5. c \in Seq(R) /\ Len(c) = n
        BY <4>1, <4>4, IndexedSeq
      <4> QED BY <4>0, <4>3, <4>5, Zenon DEF Tables
    <3>8. \A i \in 1 .. n : /\ columns'[i].name = d[i].name
                            /\ columns'[i].type = normalizeType(d[i].type)
      BY <3>5, <3>6
    <3> QED BY <2>0, <3>1, <3>2, <3>7, <3>8 DEF SchemaInv
  <2>2. rowCount = 0 /\ strip \in Seq(Seq(AnyBlock)) /\ Len(strip) = 0
    BY <2>0 DEF StripInv
  <2>3. StripInv'
    BY <2>0, <2>2 DEF StripInv
  <2>4. ShownInv'
    <3>1. SeqScan(rowCount, strip) = SeqScan(rowCount', strip')
      BY <2>0
    <3>2. SeqScan(rowCount, strip) = Kept(<<>>, {})
      BY <2>2 DEF SeqScan
    <3>3. (SeqScan(rowCount, strip))' = Kept(<<>>, {})
      BY <2>0, <2>2 DEF SeqScan
    <3> QED BY <2>0, <3>2, <3>3 DEF ShownInv
  <2>5. AnswerInv'
    <3>1. answer'.kind = "done" /\ answer'.rows = <<>>
      BY <2>0, AnswerTexts
    <3> QED BY <3>1 DEF AnswerInv, TextsWellFormed
  <2> QED BY <2>0, <2>1, <2>3, <2>4, <2>5 DEF RequestInv
<1> QED BY <1>1, <1>2

\* Ascii is well-formed.
LEMMA AsciiWellFormed ==
  ASSUME NEW s \in Texts, \A i \in 1 .. Len(s) : s[i] < 128
  PROVE  WellFormed(s)
<1>2. PICK n \in Nat : n = Len(s) /\ DOMAIN s = 1 .. n
  BY DEF Texts
<1>3. ASSUME NEW i \in 1 .. n PROVE /\ ~IsLead(s[i]) /\ ~IsFollow(s[i]) /\ s[i] # 239
                               /\ s[i] \notin 192 .. 193
  <2>1. s[i] \in 1 .. 223
    BY <1>2, Element DEF Texts
  <2>2. PICK x \in 1 .. 223 : x = s[i] /\ x < 128
    BY <2>1, <1>2
  <2>3. ~IsLead(x) /\ ~IsFollow(x) /\ x # 239 /\ x \notin 192 .. 193
    <3>1. ~(x >= 194) /\ ~(x >= 128) /\ x # 239
      BY <2>2
    <3>2. x \notin 192 .. 193 /\ x \notin 128 .. 191
      BY <3>1
    <3> QED BY <3>1, <3>2 DEF IsLead, IsFollow
  <2> QED BY <2>2, <2>3
<1>4. \A i \in 1 .. n : Placed(s, n, i)
  BY <1>3 DEF Placed
<1> QED BY <1>2, <1>4, AllPlaced

\* The spellings of the booleans are well-formed.
LEMMA SpelledWellFormed ==
  WellFormed(TrueText) /\ WellFormed(FalseText) /\ WellFormed(<<>>)
<1>1. TrueText \in Texts /\ FalseText \in Texts /\ <<>> \in Texts
  BY SpelledTexts
<1>2. \A i \in 1 .. Len(TrueText) : TrueText[i] < 128
  <2>1. PICK n \in Nat : n = Len(TrueText)
    BY <1>1 DEF Texts
  <2>2. n = 4
    BY <2>1 DEF TrueText
  <2>3. TrueText[1] < 128 /\ TrueText[2] < 128 /\ TrueText[3] < 128 /\ TrueText[4] < 128
    BY DEF TrueText
  <2>4. \A i \in 1 .. n : i = 1 \/ i = 2 \/ i = 3 \/ i = 4
    BY <2>2
  <2> QED BY <2>1, <2>3, <2>4
<1>3. \A i \in 1 .. Len(FalseText) : FalseText[i] < 128
  <2>1. PICK n \in Nat : n = Len(FalseText)
    BY <1>1 DEF Texts
  <2>2. n = 5
    BY <2>1 DEF FalseText
  <2>3. FalseText[1] < 128 /\ FalseText[2] < 128 /\ FalseText[3] < 128 /\ FalseText[4] < 128
        /\ FalseText[5] < 128
    BY DEF FalseText
  <2>4. \A i \in 1 .. n : i = 1 \/ i = 2 \/ i = 3 \/ i = 4 \/ i = 5
    BY <2>2
  <2> QED BY <2>1, <2>3, <2>4
<1>4. WellFormed(<<>>)
  BY DEF WellFormed
<1> QED BY <1>1, <1>2, <1>3, <1>4, AsciiWellFormed

\* The spelling of a stored value is well-formed.
LEMMA SentWellFormed ==
  ASSUME NEW v \in Stored
  PROVE  WellFormed(encodeValue(v).text)
<1>1. CASE v \in [kind : {"int"}, num : Int, text : {<<>>}]
  <2>1. v # Nil
    BY <1>1 DEF Nil
  <2>2. Formatted(v) = Digits(v.num) /\ v.num \in Int
    BY <1>1 DEF Formatted
  <2>3. WellFormed(Digits(v.num))
    BY <2>2, DigitsTexts, AsciiWellFormed
  <2> QED BY <2>1, <2>2, <2>3 DEF encodeValue, TextVal
<1>2. CASE v \in [kind : {"text"}, num : {0}, text : SignBlocks]
  <2>1. v # Nil
    BY <1>2 DEF Nil
  <2>2. Formatted(v) = v.text /\ v.text \in SignBlocks
    BY <1>2 DEF Formatted
  <2> QED BY <2>1, <2>2 DEF encodeValue, TextVal, SignBlocks
<1>3. CASE v \in {BoolVal(TRUE), BoolVal(FALSE)}
  <2>1. v # Nil /\ v.kind = "bool"
    BY <1>3 DEF Nil, BoolVal
  <2>2. Formatted(v) \in {TrueText, FalseText}
    BY <2>1 DEF Formatted
  <2> QED BY <2>1, <2>2, SpelledWellFormed DEF encodeValue, TextVal
<1>4. CASE v = Nil
  BY <1>4, SpelledWellFormed DEF encodeValue, Nil
<1> QED BY <1>1, <1>2, <1>3, <1>4 DEF Stored

\* A non-empty set of positions has a least one.
LEMMA Least ==
  ASSUME NEW n \in Nat, NEW U \in SUBSET (1 .. n), U # {}
  PROVE  \E i \in U : \A j \in U : i <= j
<1> DEFINE V == {n + 1 - i : i \in U}
<1>1. V \in SUBSET (1 .. n) /\ V # {}
  <2>1. ASSUME NEW i \in U PROVE n + 1 - i \in 1 .. n
    <3>1. i \in 1 .. n
      OBVIOUS
    <3> HIDE DEF V
    <3> QED BY <3>1
  <2>2. V \subseteq 1 .. n
    BY <2>1, Zenon
  <2>3. PICK i \in U : TRUE
    OBVIOUS
  <2>4. n + 1 - i \in V
    BY Zenon
  <2> QED BY <2>2, <2>4, Zenon
<1>2. PICK k \in V : \A j \in V : j <= k
  BY <1>1, Greatest
<1>3. PICK i \in U : k = n + 1 - i
  OBVIOUS
<1>4. ASSUME NEW j \in U PROVE i <= j
  <2>1. n + 1 - j \in V
    OBVIOUS
  <2>2. n + 1 - j <= n + 1 - i
    BY <2>1, <1>2, <1>3
  <2>3. i \in Int /\ j \in Int
    OBVIOUS
  <2> HIDE DEF V
  <2> QED BY <2>2, <2>3
<1> QED BY <1>4

\* The names of a target list.
LEMMA TargetNames ==
  ASSUME NEW ts \in Seq([alias : STRING, ref : STRING])
  PROVE  parseTargetList(ts) \in Seq(STRING)
<1> DEFINE name(t) == IF t.alias # "" THEN <<t.alias>>
                      ELSE IF t.ref \in {"*", "expr"} THEN <<>> ELSE <<t.ref>>
           ss == [i \in DOMAIN ts |-> name(ts[i])]
<1>1. PICK n \in Nat : n = Len(ts) /\ DOMAIN ts = 1 .. n
  OBVIOUS
<1>2. ASSUME NEW i \in 1 .. n PROVE name(ts[i]) \in Seq(STRING)
  <2>1. ts[i] \in [alias : STRING, ref : STRING]
    BY <1>1, Element
  <2>2. PICK a \in STRING, r \in STRING : a = ts[i].alias /\ r = ts[i].ref
    BY <2>1
  <2>3. <<a>> \in Seq(STRING) /\ <<r>> \in Seq(STRING) /\ <<>> \in Seq(STRING)
    OBVIOUS
  <2> QED BY <2>2, <2>3
<1> HIDE DEF name
<1>3. ss \in Seq(Seq(STRING))
  BY <1>1, <1>2
<1>4. parseTargetList(ts) = FlattenSeq(ss)
  BY DEF parseTargetList, name
<1> HIDE DEF ss
<1>5. PICK off : Offsets(ss, off)
  BY <1>3, OffsetsExist
<1> QED BY <1>3, <1>4, <1>5, Flattened

\* resolveOutputColumns gives columns of the table.
LEMMA OutputTyped ==
  ASSUME columns \in Tables, NEW names \in Seq(STRING)
  PROVE  resolveOutputColumns(names) \in Seq(1 .. Len(columns))
<1>0. PICK n \in Nat : n = Len(columns) /\ DOMAIN columns = 1 .. n
  BY DEF Tables
<1> DEFINE at(x) == {i \in DOMAIN columns : columns[i].name = x}
           one(x) == IF at(x) = {} THEN <<>>
                     ELSE <<CHOOSE i \in at(x) : \A j \in at(x) : i <= j>>
           ss == [k \in DOMAIN names |-> one(names[k])]
<1>1. CASE names = <<>>
  <2>1. resolveOutputColumns(names) = [i \in 1 .. n |-> i]
    BY <1>0, <1>1 DEF resolveOutputColumns
  <2> QED BY <1>0, <2>1
<1>2. CASE names # <<>>
  <2>1. ASSUME NEW x PROVE one(x) \in Seq(1 .. n)
    <3>1. CASE at(x) = {}
      BY <3>1
    <3>2. CASE at(x) # {}
      <4>1. at(x) \in SUBSET (1 .. n)
        BY <1>0
      <4>2. \E i \in at(x) : \A j \in at(x) : i <= j
        BY <3>2, <4>1, Least
      <4>3. PICK i \in 1 .. n : i = CHOOSE k \in at(x) : \A j \in at(x) : k <= j
        BY <4>1, <4>2
      <4>4. one(x) = <<i>>
        BY <3>2, <4>3
      <4>5. <<i>> \in Seq(1 .. n)
        OBVIOUS
      <4> HIDE DEF one
      <4> QED BY <4>4, <4>5
    <3> QED BY <3>1, <3>2
  <2>2. resolveOutputColumns(names) = FlattenSeq(ss)
    BY <1>2 DEF resolveOutputColumns
  <2> HIDE DEF one
  <2>3. ss \in Seq(Seq(1 .. n))
    BY <2>1
  <2> HIDE DEF ss
  <2>4. PICK off : Offsets(ss, off)
    BY <2>3, OffsetsExist
  <2> QED BY <1>0, <2>2, <2>3, <2>4, Flattened
<1> QED BY <1>1, <1>2

\* The rows that the loops go on with are decoded rows.
LEMMA AcceptedTyped ==
  ASSUME SchemaInv, StripInv, NEW w
  PROVE  Accepted(w) \in Seq(ScanRows)
<1>1. SeqScan(rowCount, strip) \in Seq(ScanRows)
  <2>1. columns \in Tables /\ rowCount \in Nat /\ \A i \in 1 .. rowCount : RowOK(strip[i])
    BY DEF SchemaInv, StripInv
  <2> QED BY <2>1, ScanTyped
<1>2. PICK scan \in Seq(ScanRows) : scan = SeqScan(rowCount, strip)
  BY <1>1
<1>3. PICK K : Accepted(w) = Kept(scan, K)
  BY <1>2 DEF Accepted
<1> QED BY <1>3, KeptSelects

\* executeSelect keeps the table and answers with well-formed texts.
LEMMA SelectStep ==
  ASSUME IInv, NEW s, s.targets \in Seq([alias : STRING, ref : STRING]), executeSelect(s)
  PROVE  SchemaInv' /\ StripInv' /\ ShownInv' /\ AnswerInv' /\ rowCount' <= MaxRows
<1> USE DEF IInv
<1>0. UNCHANGED table
  BY DEF executeSelect, Refuse
<1>1. SchemaInv' /\ StripInv' /\ ShownInv' /\ rowCount' <= MaxRows
  BY <1>0, SameTable DEF RequestInv
<1>2. CASE answer' = ErrorAnswer
  BY <1>1, <1>2, AnswerTexts DEF AnswerInv, TextsWellFormed
<1>3. CASE answer' # ErrorAnswer
  <2>a. PICK out : out = resolveOutputColumns(parseTargetList(s.targets))
    OBVIOUS
  <2>b. PICK sel : sel = Accepted(s.where)
    OBVIOUS
  <2>c. answer' = [kind  |-> "rows",
                   count |-> Len(sel),
                   cols  |-> [j \in DOMAIN out |-> [name |-> columns[out[j]].name,
                                                   oid |-> typeToOID(columns[out[j]].type)]],
                   rows  |-> [k \in DOMAIN sel |->
                                [j \in DOMAIN out |-> encodeValue(sel[k].vals[out[j]])]]]
    BY <1>3, <2>a, <2>b, Zenon DEF executeSelect, Refuse
  <2>1. /\ answer'.kind = "rows"
        /\ answer'.rows = [k \in DOMAIN sel |->
                             [j \in DOMAIN out |-> encodeValue(sel[k].vals[out[j]])]]
    BY <2>c
  <2>2. out \in Seq(1 .. Len(columns))
    BY <2>a, TargetNames, OutputTyped DEF SchemaInv
  <2>3. sel \in Seq(ScanRows)
    BY <2>b, AcceptedTyped
  <2>4. ASSUME NEW k \in DOMAIN answer'.rows, NEW j \in DOMAIN answer'.rows[k]
        PROVE  WellFormed(answer'.rows[k][j].text)
    <3>1. k \in 1 .. Len(sel) /\ j \in DOMAIN out
      BY <2>1, <2>3
    <3>2. j \in 1 .. Len(out)
      BY <3>1, <2>2
    <3>3. sel[k] \in ScanRows /\ out[j] \in 1 .. Len(columns)
      BY <3>1, <3>2, <2>2, <2>3, Element, Zenon
    <3>4. sel[k].vals[out[j]] \in Stored
      BY <3>3 DEF ScanRows
    <3>5. answer'.rows[k][j] = encodeValue(sel[k].vals[out[j]])
      BY <2>1, <2>3, <3>1
    <3> QED BY <3>4, <3>5, SentWellFormed
  <2> QED BY <1>1, <2>1, <2>4, Zenon DEF AnswerInv, TextsWellFormed
<1> QED BY <1>2, <1>3

\* Every step preserves the invariant.
LEMMA NextInv == IInv /\ [Next]_vars => IInv'
<1> SUFFICES ASSUME IInv, [Next]_vars PROVE IInv'
  OBVIOUS
<1>1. CASE UNCHANGED vars
  <2>1. UNCHANGED table /\ request' = request /\ answer' = answer
    BY <1>1 DEF vars
  <2>2. SchemaInv' /\ StripInv' /\ ShownInv' /\ rowCount' = rowCount
    BY <2>1, SameTable
  <2>3. RequestInv' /\ AnswerInv'
    BY <2>1, <2>2 DEF IInv, RequestInv, AnswerInv, TextsWellFormed
  <2> QED BY <2>2, <2>3 DEF IInv
<1>2. ASSUME NEW req \in Requests, Receive(req) PROVE IInv'
  <2>1. /\ UNCHANGED table /\ answer' = answer /\ request = Idle /\ request' = req
        /\ req # <<>> /\ req[1].kind = "insert" => rowCount < MaxRows
    BY <1>2 DEF Receive
  <2>2. SchemaInv' /\ StripInv' /\ ShownInv' /\ rowCount' = rowCount
    BY <2>1, SameTable
  <2>3. RequestInv'
    BY <2>1, <2>2 DEF IInv, RequestInv
  <2>4. AnswerInv'
    BY <2>1 DEF IInv, AnswerInv, TextsWellFormed
  <2> QED BY <2>2, <2>3, <2>4 DEF IInv
<1>3. CASE Reply
  <2>1. UNCHANGED table /\ answer' = NoAnswer /\ request' = Idle
    BY <1>3 DEF Reply
  <2>2. SchemaInv' /\ StripInv' /\ ShownInv' /\ rowCount' = rowCount
    BY <2>1, SameTable
  <2>3. RequestInv'
    BY <2>1, <2>2 DEF IInv, RequestInv
  <2>4. AnswerInv'
    BY <2>1, AnswerTexts DEF AnswerInv, TextsWellFormed
  <2> QED BY <2>2, <2>3, <2>4 DEF IInv
<1>4. CASE Execute
  <2>1. PICK s : s = Parse(request)
    OBVIOUS
  <2>2. /\ request # Idle /\ answer = NoAnswer /\ request' = request
        /\ \/ s.kind = "other" /\ Refuse
           \/ s.kind = "create" /\ executeCreateTable(s)
           \/ s.kind = "insert" /\ executeInsert(s)
           \/ s.kind = "select" /\ executeSelect(s)
           \/ s.kind = "delete" /\ executeDelete(s)
    BY <1>4, <2>1 DEF Execute
  <2>3. request \in Requests
    BY <2>2 DEF IInv, RequestInv
  <2>4. /\ s.kind = "create" => s.cols \in Schemas
        /\ s.kind = "insert" => s.cols \in Seq(STRING) /\ s.lists \in Seq(Consts)
        /\ request = <<>> => s.kind = "other"
        /\ request # <<>> => /\ request[1] \in SqlStatements /\ s.kind = request[1].kind
                             /\ s.kind # "insert" => s = request[1]
    BY <2>1, <2>3, ParsedRequest
  <2>5. CASE s.kind = "other" /\ Refuse
    <3>1. UNCHANGED table /\ answer' = ErrorAnswer
      BY <2>5 DEF Refuse
    <3>2. SchemaInv' /\ StripInv' /\ ShownInv' /\ rowCount' = rowCount
      BY <3>1, SameTable
    <3>3. AnswerInv'
      BY <3>1, AnswerTexts DEF AnswerInv, TextsWellFormed
    <3>4. answer' # NoAnswer
      BY <3>1, AnswerTexts
    <3>5. RequestInv'
      BY <2>2, <2>3, <3>2, <3>4 DEF IInv, RequestInv
    <3> QED BY <3>2, <3>3, <3>5 DEF IInv
  <2>6. CASE ~(s.kind = "other" /\ Refuse)
    <3>1. SchemaInv' /\ StripInv' /\ ShownInv' /\ AnswerInv' /\ rowCount' <= MaxRows
      <4>1. CASE s.kind = "create" /\ executeCreateTable(s)
        BY <4>1, <2>4, CreateStep
      <4>2. CASE s.kind = "insert" /\ executeInsert(s)
        <5>1. rowCount < MaxRows
          BY <4>2, <2>2, <2>4 DEF IInv, RequestInv
        <5> QED BY <4>2, <5>1, <2>4, InsertStep
      <4>3. CASE s.kind = "select" /\ executeSelect(s)
        <5>1. s \in SqlStatements
          BY <4>3, <2>4
        <5>2. s.targets \in Seq([alias : STRING, ref : STRING])
          BY <4>3, <5>1 DEF SqlStatements
        <5> QED BY <4>3, <5>2, SelectStep
      <4>4. CASE s.kind = "delete" /\ executeDelete(s)
        BY <4>4, DeleteStep
      <4> QED BY <4>1, <4>2, <4>3, <4>4, <2>2, <2>6
    <3>2. answer' # NoAnswer
      <4>1. answer' = ErrorAnswer \/ answer'.kind = "done" \/ answer'.kind = "rows"
        BY <2>2, <2>6, AnswerTexts DEF executeCreateTable, executeInsert, executeSelect, executeDelete, Refuse
      <4> QED BY <4>1, AnswerTexts
    <3>3. RequestInv'
      BY <2>2, <2>3, <3>1, <3>2 DEF IInv, RequestInv
    <3> QED BY <3>1, <3>3 DEF IInv
  <2> QED BY <2>5, <2>6
<1> QED BY <1>1, <1>2, <1>3, <1>4 DEF Next

\* The inductive invariant implies the two invariants.
LEMMA InvImplies == IInv => TypeOK /\ TextsWellFormed
<1> SUFFICES ASSUME IInv PROVE TypeOK
  BY DEF IInv, AnswerInv
<1> USE DEF IInv
<1>1. rowCount \in 0 .. MaxRows /\ rowCount = Len(strip) /\ DOMAIN strip = 1 .. rowCount
  BY StatementsAssumption DEF StripInv, RequestInv
<1>2. ASSUME NEW i \in DOMAIN strip
      PROVE  /\ Len(strip[i]) = stripWidth
             /\ \A k \in 1 .. (4 + SumOf(Banners, columns)) :
                  /\ Len(strip[i][k]) = bytesPerBanner
                  /\ \A j \in DOMAIN strip[i][k] : strip[i][k][j] \in 0 .. (Radix - 1)
  <2>1. RowOK(strip[i])
    BY <1>1 DEF StripInv
  <2>2. ASSUME NEW k \in 1 .. stripWidthBanners
        PROVE  /\ Len(strip[i][k]) = bytesPerBanner
               /\ \A j \in DOMAIN strip[i][k] : strip[i][k][j] \in 0 .. (Radix - 1)
    <3>1. PICK b \in BannerBlocks : b = strip[i][k]
      BY <2>1 DEF RowOK
    <3>2. b \in Seq(Byte) /\ Len(b) = bytesPerBanner
      BY DEF BannerBlocks
    <3>3. \A j \in DOMAIN b : b[j] \in Byte
      BY <3>2
    <3> QED BY <3>1, <3>2, <3>3, Zenon DEF Byte
  <2> QED BY <2>1, <2>2 DEF RowOK, stripWidthBanners
<1>3. Len(columns) = Len(declared) /\ shown = SeqScan(rowCount, strip)
      /\ request \in Requests \cup {Idle} /\ answer.kind \in {"none", "error", "done", "rows"}
  BY DEF SchemaInv, ShownInv, RequestInv, AnswerInv
<1> QED BY <1>1, <1>2, <1>3 DEF TypeOK

\* The inductive invariant holds in every reachable state.
LEMMA SpecInv == Spec => []IInv
<1> QED BY InitInv, NextInv, PTL DEF Spec

\* For every bound on the rows and every set of requests: whatever constants an
\* INSERT gives whatever columns, every row is a strip of the width SeqScan reads,
\* its first blocks banners of six bytes, and a scan finds the rows it decodes.
THEOREM StatementsTypeOK == Spec => []TypeOK
<1> QED BY SpecInv, InvImplies, PTL

\* For every bound on the rows and every set of requests: every text that a SELECT
\* sends is well-formed UTF-8, although EncodeText cuts a text at byte positions,
\* since the plugin replaces what is no character.
THEOREM StatementsTextsWellFormed == Spec => []TextsWellFormed
<1> QED BY SpecInv, InvImplies, PTL

-----------------------------------------------------------------------------
(* More of Kept.                                                           *)

\* Kept depends on the positions within the sequence only.
LEMMA KeptDepends ==
  ASSUME NEW S, NEW s \in Seq(S), NEW K, NEW L, K \cap (1 .. Len(s)) = L \cap (1 .. Len(s))
  PROVE  Kept(s, K) = Kept(s, L)
<1>1. PICK q : q = Kept(s, K)
  OBVIOUS
<1>2. q \in Seq(S) /\ \E f : Enumerates(f, Len(q), K \cap (1 .. Len(s))) /\ Selects(q, f, s)
  BY <1>1, KeptSelects
<1>3. PICK f : Enumerates(f, Len(q), K \cap (1 .. Len(s))) /\ Selects(q, f, s)
  BY <1>2
<1>4. Enumerates(f, Len(q), L \cap (1 .. Len(s)))
  BY <1>3
<1> QED BY <1>1, <1>2, <1>3, <1>4, KeptUnique

\* A new last element that is kept comes last.
LEMMA KeptAppend ==
  ASSUME NEW S, NEW s \in Seq(S), NEW x \in S, NEW K, Len(s) + 1 \in K
  PROVE  Kept(Append(s, x), K) = Append(Kept(s, K), x)
<1>0. PICK n \in Nat : n = Len(s)
  OBVIOUS
<1>1. PICK q : q = Kept(s, K)
  OBVIOUS
<1>2. q \in Seq(S) /\ \E f : Enumerates(f, Len(q), K \cap (1 .. n)) /\ Selects(q, f, s)
  BY <1>0, <1>1, KeptSelects
<1>3. PICK f : Enumerates(f, Len(q), K \cap (1 .. n)) /\ Selects(q, f, s)
  BY <1>2
<1>4. PICK m \in Nat : m = Len(q)
  BY <1>2
<1>5. PICK a : a = Append(s, x)
  OBVIOUS
<1>6. a \in Seq(S) /\ Len(a) = n + 1 /\ a[n + 1] = x /\ \A i \in 1 .. n : a[i] = s[i]
  BY <1>0, <1>5
<1>7. PICK t : t = Append(q, x)
  OBVIOUS
<1>8. t \in Seq(S) /\ Len(t) = m + 1 /\ t[m + 1] = x /\ \A k \in 1 .. m : t[k] = q[k]
  BY <1>2, <1>4, <1>7
<1>9. /\ f \in [1 .. m -> K \cap (1 .. n)]
      /\ \A k, l \in 1 .. m : k < l => f[k] < f[l]
      /\ \A u \in K \cap (1 .. n) : \E k \in 1 .. m : f[k] = u
      /\ \A k \in 1 .. m : q[k] = s[f[k]]
  BY <1>3, <1>4 DEF Enumerates, Selects
<1> DEFINE g == [k \in 1 .. m + 1 |-> IF k <= m THEN f[k] ELSE n + 1]
<1>10. \A k \in 1 .. m : f[k] \in K /\ f[k] \in 1 .. n
  BY <1>9
<1>11. g \in [1 .. m + 1 -> K \cap (1 .. n + 1)]
  <2>1. \A k \in 1 .. m : f[k] \in K \cap (1 .. n + 1)
    BY <1>10
  <2>2. n + 1 \in K \cap (1 .. n + 1)
    BY <1>0
  <2>3. \A k \in 1 .. m + 1 : k <= m => k \in 1 .. m
    OBVIOUS
  <2> QED BY <2>1, <2>2, <2>3
<1>12. (\A k \in 1 .. m : g[k] = f[k]) /\ g[m + 1] = n + 1
  OBVIOUS
<1> HIDE DEF g
<1>13. ASSUME NEW k \in 1 .. m + 1, NEW l \in 1 .. m + 1, k < l PROVE g[k] < g[l]
  <2>1. k \in 1 .. m
    BY <1>13
  <2>2. CASE l \in 1 .. m
    BY <1>13, <2>1, <2>2, <1>9, <1>12
  <2>3. CASE l = m + 1
    BY <2>1, <2>3, <1>10, <1>12
  <2>4. l \in 1 .. m \/ l = m + 1
    OBVIOUS
  <2> QED BY <2>2, <2>3, <2>4
<1>14. ASSUME NEW u \in K \cap (1 .. n + 1) PROVE \E k \in 1 .. m + 1 : g[k] = u
  <2>1. CASE u = n + 1
    <3>1. m + 1 \in 1 .. m + 1
      OBVIOUS
    <3> QED BY <2>1, <3>1, <1>12
  <2>2. CASE u # n + 1
    <3>1. u \in K \cap (1 .. n)
      BY <2>2
    <3>2. PICK k \in 1 .. m : f[k] = u
      BY <3>1, <1>9
    <3>3. k \in 1 .. m + 1
      OBVIOUS
    <3> QED BY <3>2, <3>3, <1>12
  <2> QED BY <2>1, <2>2
<1>15. Enumerates(g, Len(t), K \cap (1 .. Len(a)))
  BY <1>6, <1>8, <1>11, <1>13, <1>14 DEF Enumerates
<1>16. Selects(t, g, a)
  <2> SUFFICES ASSUME NEW k \in 1 .. m + 1 PROVE t[k] = a[g[k]]
    BY <1>8 DEF Selects
  <2>1. CASE k \in 1 .. m
    <3>1. g[k] = f[k] /\ f[k] \in 1 .. n
      BY <2>1, <1>9, <1>12
    <3>2. t[k] = q[k] /\ q[k] = s[f[k]] /\ a[f[k]] = s[f[k]]
      BY <2>1, <3>1, <1>6, <1>8, <1>9
    <3> QED BY <3>1, <3>2
  <2>2. CASE k = m + 1
    BY <2>2, <1>6, <1>8, <1>12
  <2>3. k \in 1 .. m \/ k = m + 1
    OBVIOUS
  <2> QED BY <2>1, <2>2, <2>3
<1>17. t = Kept(a, K)
  BY <1>6, <1>8, <1>15, <1>16, KeptUnique
<1> QED BY <1>1, <1>5, <1>7, <1>17

\* A selection is no longer than what it is taken from.
LEMMA EnumerationShort ==
  ASSUME NEW m \in Nat, NEW n \in Nat, NEW U, U \subseteq 1 .. n, NEW f, Enumerates(f, m, U)
  PROVE  m <= n
<1>0. f \in [1 .. m -> U] /\ \A k, l \in 1 .. m : k < l => f[k] < f[l]
  BY DEF Enumerates
<1>1. \A k \in 1 .. m : f[k] \in 1 .. n
  BY <1>0
<1> DEFINE T == {k \in Nat : k \in 1 .. m => k <= f[k]}
<1>2. 0 \in T
  OBVIOUS
<1>3. ASSUME NEW k \in Nat, k \in T PROVE k + 1 \in T
  <2> SUFFICES ASSUME k + 1 \in 1 .. m PROVE k + 1 <= f[k + 1]
    OBVIOUS
  <2>1. f[k + 1] \in 1 .. n
    BY <1>1
  <2>2. CASE k = 0
    BY <2>1, <2>2
  <2>3. CASE k # 0
    <3>1. k \in 1 .. m /\ k < k + 1
      BY <2>3
    <3>2. f[k] < f[k + 1] /\ k <= f[k] /\ f[k] \in 1 .. n
      BY <3>1, <1>0, <1>1, <1>3
    <3> QED BY <3>2, <2>1
  <2> QED BY <2>2, <2>3
<1> HIDE DEF T
<1>4. \A k \in Nat : k \in T
  BY <1>2, <1>3, SetInduction
<1>5. m = 0 \/ m <= f[m]
  <2>1. m \in T
    BY <1>4
  <2> QED BY <2>1 DEF T
<1> QED BY <1>1, <1>5

\* The positions that f gives to those of L.
Images(f, L) == {f[k] : k \in L}

\* Selecting twice is selecting once.
LEMMA KeptTwice ==
  ASSUME NEW S, NEW s \in Seq(S), NEW K, NEW L, NEW M, NEW f,
         Enumerates(f, Len(Kept(s, K)), K \cap (1 .. Len(s))),
         M \cap (1 .. Len(s)) = Images(f, L \cap (1 .. Len(Kept(s, K))))
  PROVE  Kept(Kept(s, K), L) = Kept(s, M)
<1>0. PICK n \in Nat : n = Len(s)
  OBVIOUS
<1>1. PICK q : q = Kept(s, K)
  OBVIOUS
<1>2. q \in Seq(S) /\ \E h : Enumerates(h, Len(q), K \cap (1 .. n)) /\ Selects(q, h, s)
  BY <1>0, <1>1, KeptSelects
<1>3. PICK m \in Nat : m = Len(q)
  BY <1>2
<1>4. /\ f \in [1 .. m -> K \cap (1 .. n)]
      /\ \A k, l \in 1 .. m : k < l => f[k] < f[l]
  BY <1>0, <1>1, <1>3 DEF Enumerates
<1>5. \A k \in 1 .. m : q[k] = s[f[k]]
  <2>1. PICK h : Enumerates(h, m, K \cap (1 .. n)) /\ Selects(q, h, s)
    BY <1>2, <1>3
  <2>2. K \cap (1 .. n) \subseteq Int /\ Enumerates(f, m, K \cap (1 .. n))
    BY <1>0, <1>1, <1>3
  <2>3. \A k \in 1 .. m : f[k] = h[k]
    BY <2>1, <2>2, EnumerationUnique
  <2> QED BY <2>1, <2>3, <1>3 DEF Selects
<1>6. PICK t : t = Kept(q, L)
  OBVIOUS
<1>7. t \in Seq(S) /\ \E h : Enumerates(h, Len(t), L \cap (1 .. m)) /\ Selects(t, h, q)
  BY <1>2, <1>3, <1>6, KeptSelects
<1>8. PICK g : Enumerates(g, Len(t), L \cap (1 .. m)) /\ Selects(t, g, q)
  BY <1>7
<1>9. PICK p \in Nat : p = Len(t)
  BY <1>7
<1>10. /\ g \in [1 .. p -> L \cap (1 .. m)]
       /\ \A k, l \in 1 .. p : k < l => g[k] < g[l]
       /\ \A u \in L \cap (1 .. m) : \E k \in 1 .. p : g[k] = u
       /\ \A k \in 1 .. p : t[k] = q[g[k]]
  BY <1>8, <1>9 DEF Enumerates, Selects
<1>11. M \cap (1 .. n) = {f[k] : k \in L \cap (1 .. m)}
  BY <1>0, <1>1, <1>3 DEF Images
<1> DEFINE c == [k \in 1 .. p |-> f[g[k]]]
<1>12. \A k \in 1 .. p : g[k] \in 1 .. m /\ g[k] \in L
  BY <1>10
<1>13. c \in [1 .. p -> M \cap (1 .. n)]
  BY <1>11, <1>12
<1>14. \A k, l \in 1 .. p : k < l => c[k] < c[l]
  BY <1>4, <1>10, <1>12
<1>15. ASSUME NEW u \in M \cap (1 .. n) PROVE \E k \in 1 .. p : c[k] = u
  <2>1. PICK j \in L \cap (1 .. m) : u = f[j]
    BY <1>11
  <2>2. PICK k \in 1 .. p : g[k] = j
    BY <1>10
  <2> QED BY <2>1, <2>2
<1>16. \A k \in 1 .. p : t[k] = s[c[k]]
  BY <1>5, <1>10, <1>12
<1> HIDE DEF c
<1>17. Enumerates(c, Len(t), M \cap (1 .. Len(s))) /\ Selects(t, c, s)
  BY <1>0, <1>9, <1>13, <1>14, <1>15, <1>16 DEF Enumerates, Selects
<1> QED BY <1>1, <1>6, <1>7, <1>17, KeptUnique

\* The length of an enumeration is the cardinality of what it counts.
LEMMA EnumerationCount ==
  ASSUME NEW m \in Nat, NEW U, U \subseteq Int, NEW f, Enumerates(f, m, U)
  PROVE  IsFiniteSet(U) /\ Cardinality(U) = m
<1>0. /\ f \in [1 .. m -> U] /\ (\A k, l \in 1 .. m : k < l => f[k] < f[l])
      /\ \A u \in U : \E k \in 1 .. m : f[k] = u
  BY DEF Enumerates
<1>1. \A k \in 1 .. m : f[k] \in Int
  BY <1>0
<1>2. \A k, l \in 1 .. m : f[k] = f[l] => k = l
  <2> SUFFICES ASSUME NEW k \in 1 .. m, NEW l \in 1 .. m, f[k] = f[l] PROVE k = l
    OBVIOUS
  <2>1. ~(k < l) /\ ~(l < k)
    BY <1>0, <1>1
  <2> QED BY <2>1
<1>3. f \in Bijection(1 .. m, U)
  BY <1>0, <1>2 DEF Bijection, Injection, Surjection, IsInjective
<1>4. ExistsBijection(1 .. m, U)
  BY <1>3 DEF ExistsBijection
<1>5. IsFiniteSet(1 .. m) /\ Cardinality(1 .. m) = m
  BY FS_Interval
<1>6. IsFiniteSet(U) /\ Cardinality(U) = Cardinality(1 .. m)
  BY <1>4, <1>5, FS_Bijection
<1> QED BY <1>5, <1>6

-----------------------------------------------------------------------------
(* INSERT: the new row, and texts that fit.                                *)

\* A scan reads a row with the null xmax as visible.
LEMMA NewRowVisible ==
  ASSUME columns \in Tables, NEW data, RowOK(data), NEW values, RowHolds(data, values)
  PROVE  isVisible(SubSeq(data, 1, stripWidth), Txid)
<1>1. /\ data \in Seq(AnyBlock) /\ Len(data) = stripWidth /\ stripWidth \in Nat
      /\ 4 <= stripWidth
  BY WidthTyped DEF RowOK
<1>2. SubSeq(data, 1, stripWidth) = data
  BY <1>1
<1>3. DecodeInt64(data[1], data[2]) = Txid
  BY TxidRange, Int64RoundTrip DEF RowHolds
<1>4. IsNull(data[3], data[4])
  BY DEF RowHolds, IsNull
<1>5. DecodeInt64(data[1], data[2]) <= Txid
  BY <1>3, TxidRange
<1> QED BY <1>2, <1>4, <1>5, Zenon DEF isVisible

\* A new strip behind the others leaves what a scan reads of them, and adds its
\* own row.
LEMMA ScanAppend ==
  ASSUME columns \in Tables, NEW n \in Nat, NEW st, NEW ts,
         \A i \in 1 .. n : RowOK(st[i]), \A i \in 1 .. n : ts[i] = st[i],
         RowOK(ts[n + 1]), isVisible(SubSeq(ts[n + 1], 1, stripWidth), Txid)
  PROVE  SeqScan(n + 1, ts) =
           Append(SeqScan(n, st), [id |-> n + 1, vals |-> decodeStrip(ts[n + 1])])
<1>1. PICK a : a = AllRows(n, st)
  OBVIOUS
<1>2. PICK b : b = AllRows(n + 1, ts)
  OBVIOUS
<1>3. PICK x : x = [id |-> n + 1, vals |-> decodeStrip(ts[n + 1])]
  OBVIOUS
<1>4. PICK R : R = ScanRows
  OBVIOUS
<1>5. a \in Seq(R) /\ Len(a) = n
  BY <1>1, <1>4, AllRowsTyped
<1>6. \A i \in 1 .. n + 1 : RowOK(ts[i])
  <2> SUFFICES ASSUME NEW i \in 1 .. n + 1 PROVE RowOK(ts[i])
    OBVIOUS
  <2>1. i \in 1 .. n \/ i = n + 1
    OBVIOUS
  <2> QED BY <2>1
<1>7. n + 1 \in Nat
  OBVIOUS
<1>8. b \in Seq(R) /\ Len(b) = n + 1
  BY <1>2, <1>4, <1>6, <1>7, AllRowsTyped
<1>9. \A i \in 1 .. n : a[i] = [id |-> i, vals |-> decodeStrip(st[i])]
  BY <1>1 DEF AllRows
<1>10. \A i \in 1 .. n + 1 : b[i] = [id |-> i, vals |-> decodeStrip(ts[i])]
  BY <1>2 DEF AllRows
<1>11. b[n + 1] = x
  BY <1>3, <1>10
<1>12. \A i \in 1 .. n : b[i] = a[i]
  <2> SUFFICES ASSUME NEW i \in 1 .. n PROVE b[i] = a[i]
    OBVIOUS
  <2>1. i \in 1 .. n + 1 /\ ts[i] = st[i]
    OBVIOUS
  <2>2. b[i] = [id |-> i, vals |-> decodeStrip(ts[i])]
    BY <2>1, <1>10, Zenon
  <2>3. a[i] = [id |-> i, vals |-> decodeStrip(st[i])]
    BY <1>9, Zenon
  <2> QED BY <2>1, <2>2, <2>3, Zenon
<1>13. x \in R
  BY <1>8, <1>11, Element
<1>14. b = Append(a, x)
  <2>1. Append(a, x) \in Seq(R) /\ Len(Append(a, x)) = n + 1 /\ Append(a, x)[n + 1] = x
        /\ \A i \in 1 .. n : Append(a, x)[i] = a[i]
    BY <1>5, <1>13
  <2>2. \A i \in 1 .. n + 1 : b[i] = Append(a, x)[i]
    BY <2>1, <1>11, <1>12
  <2> QED BY <2>1, <2>2, <1>8, SameSeq
<1>15. PICK V : V = Visible(n + 1, ts)
  OBVIOUS
<1>16. n + 1 \in V
  BY <1>15 DEF Visible
<1>17. V \cap (1 .. Len(a)) = Visible(n, st) \cap (1 .. Len(a))
  BY <1>5, <1>15 DEF Visible
<1>18. Kept(a, V) = Kept(a, Visible(n, st))
  BY <1>5, <1>17, KeptDepends
<1>19. Len(a) + 1 \in V
  BY <1>5, <1>16
<1>20. Kept(Append(a, x), V) = Append(Kept(a, V), x)
  BY <1>5, <1>13, <1>19, KeptAppend
<1>21. SeqScan(n + 1, ts) = Kept(b, V) /\ SeqScan(n, st) = Kept(a, Visible(n, st))
  BY <1>1, <1>2, <1>15, ScanDef
<1> QED BY <1>3, <1>14, <1>18, <1>20, <1>21

\* The bytes at which EncodeText cuts a text are those before a multiple of the
\* line length.
LEMMA CutPlaces ==
  ASSUME NEW k \in 0 .. 3
  PROVE  (k * SignLineLen + 1) % SignLineLen = 1
<1>1. PICK n \in Nat : n = SignLineLen /\ n > 3
  BY CodecAssumption
<1>2. PICK p \in Nat : p = k * n + 1
  <2>1. k * n + 1 \in Nat
    OBVIOUS
  <2> QED BY <2>1
<1>3. p = (p \div n) * n + (p % n) /\ p % n \in 0 .. (n - 1) /\ p \div n \in Nat
  BY <1>1, DivMod
<1>4. PICK q \in Nat, r \in 0 .. (n - 1) : q = p \div n /\ r = p % n
  BY <1>3
<1>5. k * n + 1 = q * n + r
  BY <1>2, <1>3, <1>4
<1>6. q = k
  <2>1. CASE q > k
    <3>1. PICK e \in Nat : q = k + 1 + e
      BY <2>1
    <3>2. q * n = k * n + n + e * n /\ e * n >= 0
      BY <3>1
    <3> QED BY <3>2, <1>1, <1>5
  <2>2. CASE q < k
    <3>1. PICK e \in Nat : k = q + 1 + e
      BY <2>2
    <3>2. k * n = q * n + n + e * n /\ e * n >= 0
      BY <3>1
    <3> QED BY <3>2, <1>1, <1>5
  <2> QED BY <2>1, <2>2
<1>7. r = 1
  BY <1>5, <1>6
<1> QED BY <1>1, <1>2, <1>4, <1>7

\* A text cut in front of a byte that begins a character stays well-formed.
LEMMA CutWellFormed ==
  ASSUME NEW s \in Texts, WellFormed(s), NEW f \in Nat, f > 0, NEW t \in 0 .. Len(s),
         f <= Len(s) => ~IsFollow(s[f]), t < Len(s) => ~IsFollow(s[t + 1])
  PROVE  SubSeq(s, f, t) \in Texts /\ WellFormed(SubSeq(s, f, t))
<1>1. PICK n \in Nat : n = Len(s) /\ DOMAIN s = 1 .. n
  BY DEF Texts
<1>2. \A p \in 1 .. n : s[p] \in 1 .. 223
  BY <1>1, Element DEF Texts
<1>0. \A p \in 1 .. n : s[p] # 239
  <2> SUFFICES ASSUME NEW p \in 1 .. n PROVE s[p] # 239
    OBVIOUS
  <2>1. PICK x \in 1 .. 223 : x = s[p]
    BY <1>2
  <2>2. x # 239
    OBVIOUS
  <2> QED BY <2>1, <2>2
<1>3. PICK u : u = SubSeq(s, f, t)
  OBVIOUS
<1>4. PICK m \in Nat : (f <= t => m = t - f + 1) /\ (f > t => m = 0)
  <2>1. CASE f <= t
    <3>1. t - f + 1 \in Nat
      BY <2>1, <1>1
    <3> QED BY <3>1, <2>1, <1>1
  <2>2. CASE f > t
    BY <2>2, <1>1
  <2> QED BY <2>1, <2>2, <1>1
<1>5. u \in Seq(1 .. 223) /\ Len(u) = m /\ \A i \in 1 .. m : u[i] = s[f + i - 1]
  <2>1. CASE f <= t
    <3>0. PICK o \in Nat : o = f - 1
      OBVIOUS
    <3>1. s \in Seq(1 .. 223) /\ o + m <= Len(s) /\ o + 1 = f /\ o + m = t
      BY <2>1, <3>0, <1>1, <1>4 DEF Texts
    <3>4. PICK B : B = 1 .. 223
      OBVIOUS
    <3>5. s \in Seq(B)
      BY <3>1, <3>4
    <3>6. SubSeq(s, o + 1, o + m) \in Seq(B) /\ Len(SubSeq(s, o + 1, o + m)) = m
          /\ \A i \in 1 .. m : SubSeq(s, o + 1, o + m)[i] = s[o + i]
      BY <3>1, <3>5, Part
    <3>2. SubSeq(s, o + 1, o + m) \in Seq(1 .. 223) /\ Len(SubSeq(s, o + 1, o + m)) = m
          /\ \A i \in 1 .. m : SubSeq(s, o + 1, o + m)[i] = s[o + i]
      BY <3>4, <3>6
    <3>3. \A i \in 1 .. m : o + i = f + i - 1
      BY <3>0
    <3> QED BY <3>1, <3>2, <3>3, <1>3
  <2>2. CASE f > t
    <3>1. u = <<>>
      BY <2>2, <1>1, <1>3
    <3> QED BY <3>1, <2>2, <1>4
  <2>3. f <= t \/ f > t
    BY <1>1
  <2> QED BY <2>1, <2>2, <2>3
<1>6. \A p \in 1 .. n : Placed(s, n, p)
  BY <1>1, AllPlaced
<1>7. ASSUME NEW i \in 1 .. m PROVE Placed(u, m, i)
  <2>a. m > 0 /\ f <= t /\ m = t - f + 1
    BY <1>1, <1>4
  <2>b. PICK p \in 1 .. n : p = f + i - 1 /\ p <= t
    BY <2>a, <1>1
  <2>1. p = f + i - 1 /\ p <= t /\ u[i] = s[p]
    BY <2>b, <1>5
  <2>2. Placed(s, n, p) /\ s[p] \in 1 .. 223
    BY <1>2, <1>6
  <2>3. IsLead(u[i]) => i < m /\ IsFollow(u[i + 1])
    <3> SUFFICES ASSUME IsLead(s[p]) PROVE i < m /\ IsFollow(u[i + 1])
      BY <2>1
    <3>1. p < n /\ IsFollow(s[p + 1])
      BY <2>2 DEF Placed
    <3>2. p < t
      BY <3>1, <2>1, <1>1
    <3>3. PICK j \in 1 .. m : j = i + 1 /\ f + j - 1 = p + 1
      BY <3>2, <2>1, <1>4
    <3>4. u[j] = s[p + 1]
      BY <3>3, <1>5
    <3> QED BY <3>1, <3>3, <3>4
  <2>4. u[i] # 239
    BY <2>1, <1>0
  <2>5. IsFollow(u[i]) => i > 1 /\ IsLead(u[i - 1])
    <3> SUFFICES ASSUME IsFollow(s[p]) PROVE i > 1 /\ IsLead(u[i - 1])
      BY <2>1
    <3>0. p > 1 /\ (IsLead(s[p - 1]) \/ (p > 2 /\ s[p - 2] = 239))
      BY <2>2 DEF Placed
    <3>1. p > 1 /\ IsLead(s[p - 1])
      <4>1. p > 2 => p - 2 \in 1 .. n
        OBVIOUS
      <4>2. p > 2 => s[p - 2] # 239
        BY <4>1, <1>0
      <4> QED BY <3>0, <4>2
    <3>2. i > 1
      BY <2>1, <1>1
    <3>3. PICK j \in 1 .. m : j = i - 1 /\ f + j - 1 = p - 1
      BY <3>2, <2>1
    <3>4. u[j] = s[p - 1]
      BY <3>3, <1>5
    <3> QED BY <3>1, <3>2, <3>3, <3>4
  <2>6. u[i] \notin 192 .. 193
    BY <2>1, <2>2 DEF Placed
  <2> QED BY <2>3, <2>4, <2>5, <2>6 DEF Placed
<1>8. WellFormed(u)
  <2>1. DOMAIN u = 1 .. m
    BY <1>5
  <2> QED BY <2>1, <1>5, <1>7, AllPlaced
<1> QED BY <1>3, <1>5, <1>8 DEF Texts
\* Three texts behind one another, with a NUL after each of the first three: where
\* the NULs are, and what lies between them.
Nuls(q, a, b, c, d, x, y, z) ==
  /\ x = Len(a) + 1 /\ y = x + Len(b) + 1 /\ z = y + Len(c) + 1 /\ Len(q) = z + Len(d)
  /\ q[x] = 0 /\ q[y] = 0 /\ q[z] = 0
  /\ \A i \in 1 .. Len(a) : q[i] = a[i]
  /\ \A i \in 1 .. Len(b) : q[x + i] = b[i]
  /\ \A i \in 1 .. Len(c) : q[y + i] = c[i]
  /\ \A i \in 1 .. Len(d) : q[z + i] = d[i]

\* q is s, of length n, and behind it t, of length m.
JoinedAt(q, s, t, n, m) ==
  /\ n \in Nat /\ m \in Nat /\ Len(q) = n + m
  /\ \A i \in 1 .. n : q[i] = s[i]
  /\ \A i \in 1 .. m : q[n + i] = t[i]

\* Two sequences in a row, by their lengths.
LEMMA JoinAt ==
  ASSUME NEW S, NEW s \in Seq(S), NEW t \in Seq(S), NEW n, n = Len(s), NEW m, m = Len(t),
         NEW q, q = s \o t
  PROVE  q \in Seq(S) /\ JoinedAt(q, s, t, n, m)
<1>1. n \in Nat /\ m \in Nat
  OBVIOUS
<1> QED BY <1>1, Joined DEF JoinedAt

\* encodeSignData's NULs are at the ends of the first three lines.
LEMMA NulPlaces ==
  ASSUME NEW S, 0 \in S, NEW a \in Seq(S), NEW b \in Seq(S), NEW c \in Seq(S), NEW d \in Seq(S),
         NEW q, q = Signed4(a, b, c, d)
  PROVE  q \in Seq(S) /\ \E x, y, z \in Nat : Nuls(q, a, b, c, d, x, y, z)
<1>1. PICK o : o = <<0>>
  OBVIOUS
<1>2. o \in Seq(S) /\ Len(o) = 1 /\ o[1] = 0
  BY <1>1
<1>3. PICK la \in Nat, lb \in Nat, lc \in Nat, ld \in Nat :
        la = Len(a) /\ lb = Len(b) /\ lc = Len(c) /\ ld = Len(d)
  OBVIOUS
<1>4. PICK q1 : q1 = a \o o
  OBVIOUS
<1>5. q1 \in Seq(S) /\ JoinedAt(q1, a, o, la, 1)
  BY <1>2, <1>3, <1>4, JoinAt
<1>6. PICK q2 : q2 = q1 \o b
  OBVIOUS
<1>7. q2 \in Seq(S) /\ JoinedAt(q2, q1, b, la + 1, lb)
  <2>1. Len(q1) = la + 1
    BY <1>5 DEF JoinedAt
  <2> QED BY <2>1, <1>3, <1>5, <1>6, JoinAt
<1>8. PICK q3 : q3 = q2 \o o
  OBVIOUS
<1>9. q3 \in Seq(S) /\ JoinedAt(q3, q2, o, la + 1 + lb, 1)
  <2>1. Len(q2) = la + 1 + lb
    BY <1>7 DEF JoinedAt
  <2> QED BY <2>1, <1>2, <1>7, <1>8, JoinAt
<1>10. PICK q4 : q4 = q3 \o c
  OBVIOUS
<1>11. q4 \in Seq(S) /\ JoinedAt(q4, q3, c, la + 1 + lb + 1, lc)
  <2>1. Len(q3) = la + 1 + lb + 1
    BY <1>9 DEF JoinedAt
  <2> QED BY <2>1, <1>3, <1>9, <1>10, JoinAt
<1>12. PICK q5 : q5 = q4 \o o
  OBVIOUS
<1>13. q5 \in Seq(S) /\ JoinedAt(q5, q4, o, la + 1 + lb + 1 + lc, 1)
  <2>1. Len(q4) = la + 1 + lb + 1 + lc
    BY <1>11 DEF JoinedAt
  <2> QED BY <2>1, <1>2, <1>11, <1>12, JoinAt
<1>14. q = q5 \o d
  BY <1>1, <1>4, <1>6, <1>8, <1>10, <1>12, Zenon DEF Signed4
<1>15. q \in Seq(S) /\ JoinedAt(q, q5, d, la + 1 + lb + 1 + lc + 1, ld)
  <2>1. Len(q5) = la + 1 + lb + 1 + lc + 1
    BY <1>13 DEF JoinedAt
  <2> QED BY <2>1, <1>3, <1>13, <1>14, JoinAt
<1>16. PICK x \in Nat, y \in Nat, z \in Nat :
         x = la + 1 /\ y = x + lb + 1 /\ z = y + lc + 1
  OBVIOUS
<1>17. \A i \in 1 .. (y - 1) : q[i] = q2[i]
  <2> SUFFICES ASSUME NEW i \in 1 .. (y - 1) PROVE q[i] = q2[i]
    OBVIOUS
  <2>1. q[i] = q5[i]
    BY <1>15, <1>16 DEF JoinedAt
  <2>2. q5[i] = q4[i]
    <3>1. i \in 1 .. la + 1 + lb + 1 + lc
      BY <1>16
    <3> QED BY <3>1, <1>13 DEF JoinedAt
  <2>3. q4[i] = q3[i]
    BY <1>11, <1>16 DEF JoinedAt
  <2>4. q3[i] = q2[i]
    BY <1>9, <1>16 DEF JoinedAt
  <2> QED BY <2>1, <2>2, <2>3, <2>4
<1>18. (\A i \in 1 .. x : q[i] = q1[i]) /\ \A j \in 1 .. lb : q[x + j] = b[j]
  BY <1>7, <1>16, <1>17 DEF JoinedAt
<1>19. q[y] = 0 /\ \A j \in 1 .. lc : q[y + j] = c[j]
  <2>1. \A i \in 1 .. (z - 1) : q[i] = q4[i]
    BY <1>13, <1>15, <1>16 DEF JoinedAt
  <2>2. q4[y] = q3[y] /\ \A j \in 1 .. lc : q4[y + j] = c[j]
    <3>1. JoinedAt(q4, q3, c, y, lc) /\ y \in 1 .. y
      <4>1. y = la + 1 + lb + 1 /\ y \in 1 .. y
        BY <1>16
      <4> QED BY <4>1, <1>11
    <3> QED BY <3>1 DEF JoinedAt
  <2>3. q3[y] = o[1]
    BY <1>9, <1>16 DEF JoinedAt
  <2> QED BY <2>1, <2>2, <2>3, <1>2, <1>16
<1>20. q[z] = 0 /\ \A j \in 1 .. ld : q[z + j] = d[j]
  <2>1. q[z] = q5[z] /\ q5[z] = o[1]
    BY <1>13, <1>15, <1>16 DEF JoinedAt
  <2> QED BY <2>1, <1>2, <1>15, <1>16 DEF JoinedAt
<1>21. q[x] = 0 /\ \A i \in 1 .. la : q[i] = a[i]
  <2>1. q1[x] = o[1] /\ \A i \in 1 .. la : q1[i] = a[i]
    BY <1>5, <1>16 DEF JoinedAt
  <2> QED BY <2>1, <1>2, <1>16, <1>18
<1>23. Len(q) = z + ld
  BY <1>15, <1>16 DEF JoinedAt
<1>22. Nuls(q, a, b, c, d, x, y, z)
  BY <1>3, <1>16, <1>18, <1>19, <1>20, <1>21, <1>23 DEF Nuls
<1> QED BY <1>15, <1>22

\* The k elements of q behind the first o are those of a.
Holds(S, q, a, o, k) ==
  /\ q \in Seq(S) /\ a \in Seq(S) /\ o \in Nat /\ k = Len(a) /\ o + k <= Len(q)
  /\ \A i \in 1 .. k : q[o + i] = a[i]

\* A piece of a sequence that agrees with another sequence is that sequence.
LEMMA PieceIs ==
  ASSUME NEW S, NEW q, NEW a, NEW o, NEW k, Holds(S, q, a, o, k)
  PROVE  SubSeq(q, o + 1, o + k) = a
<1>0. /\ q \in Seq(S) /\ a \in Seq(S) /\ o \in Nat /\ k = Len(a) /\ o + k <= Len(q)
      /\ \A i \in 1 .. k : q[o + i] = a[i]
  BY DEF Holds
<1>1. k \in Nat
  BY <1>0
<1>2. PICK u : u = SubSeq(q, o + 1, o + k)
  OBVIOUS
<1>3. u \in Seq(S) /\ Len(u) = k /\ \A i \in 1 .. k : u[i] = q[o + i]
  <2>1. SubSeq(q, o + 1, o + k) \in Seq(S) /\ Len(SubSeq(q, o + 1, o + k)) = k
        /\ \A i \in 1 .. k : SubSeq(q, o + 1, o + k)[i] = q[o + i]
    BY <1>0, <1>1, Part
  <2> QED BY <2>1, <1>2
<1>4. u = a
  <2>1. \A i \in 1 .. Len(u) : u[i] = a[i]
    BY <1>0, <1>3
  <2> QED BY <2>1, <1>0, <1>3, SameSeq
<1> QED BY <1>2, <1>4

\* Ranks of three numbers.
Rank(U, i) == Cardinality({j \in U : j < i})

\* The three numbers of a set in their order.
LEMMA ThreeRanks ==
  ASSUME NEW x \in Nat, NEW y \in Nat, NEW z \in Nat, x < y, y < z, NEW U, U = {x, y, z}
  PROVE  /\ Cardinality(U) = 3
         /\ Rank(U, x) = 0 /\ Rank(U, y) = 1 /\ Rank(U, z) = 2
<1>1. /\ IsFiniteSet({}) /\ Cardinality({}) = 0
  BY FS_EmptySet
<1>2. {j \in U : j < x} = {}
  OBVIOUS
<1>3. {j \in U : j < y} = {x}
  OBVIOUS
<1>4. {j \in U : j < z} = {x, y}
  OBVIOUS
<1>5. IsFiniteSet({x}) /\ Cardinality({x}) = 1
  BY FS_Singleton
<1>6. IsFiniteSet({x, y}) /\ Cardinality({x, y}) = 2
  <2>1. {x} \cup {y} = {x, y} /\ y \notin {x}
    OBVIOUS
  <2>2. IsFiniteSet({x} \cup {y}) /\ Cardinality({x} \cup {y}) = Cardinality({x}) + 1
    BY <1>5, <2>1, FS_AddElement
  <2> QED BY <2>1, <2>2, <1>5
<1>7. Cardinality(U) = 3
  <2>1. {x, y} \cup {z} = U /\ z \notin {x, y}
    OBVIOUS
  <2>2. Cardinality({x, y} \cup {z}) = Cardinality({x, y}) + 1
    BY <1>6, <2>1, FS_AddElement
  <2> QED BY <2>1, <2>2, <1>6
<1> QED BY <1>1, <1>2, <1>3, <1>4, <1>5, <1>6, <1>7 DEF Rank

\* decodeSignData finds the four lines that encodeSignData joined: a text has no NUL.
LEMMA LinesBack ==
  ASSUME NEW a \in Texts, NEW b \in Texts, NEW c \in Texts, NEW d \in Texts,
         NEW q, q = Signed4(a, b, c, d)
  PROVE  DecodeText(decodeSignData(q)) = Joined4(a, b, c, d)
<1>1. PICK S : S = 0 .. 223
  OBVIOUS
<1>2. a \in Seq(S) /\ b \in Seq(S) /\ c \in Seq(S) /\ d \in Seq(S) /\ 0 \in S
  <2>1. PICK B : B = 1 .. 223
    OBVIOUS
  <2>2. B \subseteq S /\ 0 \in S
    BY <2>1, <1>1
  <2>3. a \in Seq(B) /\ b \in Seq(B) /\ c \in Seq(B) /\ d \in Seq(B)
    BY <2>1 DEF Texts
  <2> QED BY <2>2, <2>3, Wider
<1>3. q \in Seq(S)
  BY <1>2, NulPlaces
<1>4. PICK x \in Nat, y \in Nat, z \in Nat : Nuls(q, a, b, c, d, x, y, z)
  BY <1>2, NulPlaces
<1>5. /\ Len(a) \in Nat /\ Len(b) \in Nat /\ Len(c) \in Nat /\ Len(d) \in Nat
      /\ 0 < x /\ x < y /\ y < z /\ z <= Len(q)
  BY <1>2, <1>4 DEF Nuls
<1>6. ASSUME NEW t \in Texts, NEW i \in 1 .. Len(t) PROVE t[i] # 0
  <2>1. PICK e \in 1 .. 223 : e = t[i]
    BY Element DEF Texts
  <2>2. e # 0
    OBVIOUS
  <2> QED BY <2>1, <2>2
<1> DEFINE nuls == {i \in DOMAIN q : q[i] = 0}
<1>7. nuls = {x, y, z}
  <2>1. DOMAIN q = 1 .. Len(q)
    BY <1>3
  <2>2. x \in nuls /\ y \in nuls /\ z \in nuls
    BY <2>1, <1>4, <1>5 DEF Nuls
  <2>3. ASSUME NEW i \in 1 .. Len(q), i \notin {x, y, z} PROVE q[i] # 0
    <3>1. CASE i < x
      <4>1. i \in 1 .. Len(a) /\ q[i] = a[i]
        BY <3>1, <1>4, <1>5 DEF Nuls
      <4> QED BY <4>1, <1>6
    <3>2. CASE x < i /\ i < y
      <4>0. i - x \in 1 .. Len(b) /\ i = x + (i - x)
        BY <3>2, <1>4, <1>5 DEF Nuls
      <4>1. PICK j \in 1 .. Len(b) : i = x + j
        BY <4>0
      <4>2. q[i] = b[j]
        BY <4>1, <1>4 DEF Nuls
      <4> QED BY <4>2, <1>6
    <3>3. CASE y < i /\ i < z
      <4>0. i - y \in 1 .. Len(c) /\ i = y + (i - y)
        BY <3>3, <1>4, <1>5 DEF Nuls
      <4>1. PICK j \in 1 .. Len(c) : i = y + j
        BY <4>0
      <4>2. q[i] = c[j]
        BY <4>1, <1>4 DEF Nuls
      <4> QED BY <4>2, <1>6
    <3>4. CASE z < i
      <4>0. i - z \in 1 .. Len(d) /\ i = z + (i - z)
        BY <3>4, <1>4, <1>5 DEF Nuls
      <4>1. PICK j \in 1 .. Len(d) : i = z + j
        BY <4>0
      <4>2. q[i] = d[j]
        BY <4>1, <1>4 DEF Nuls
      <4> QED BY <4>2, <1>6
    <3> QED BY <3>1, <3>2, <3>3, <3>4, <2>3
  <2> QED BY <2>1, <2>2, <2>3
<1> DEFINE nth(k) == CHOOSE i \in nuls : Cardinality({j \in nuls : j < i}) = k - 1
<1>8. decodeSignData(q) =
        [k \in 1 .. 4 |->
           IF k > Cardinality(nuls) + 1 THEN <<>>
           ELSE SubSeq(q, IF k = 1 THEN 1 ELSE nth(k - 1) + 1,
                          IF k = 4 \/ k > Cardinality(nuls) THEN Len(q) ELSE nth(k) - 1)]
  BY DEF decodeSignData, signLines
<1> HIDE DEF nuls
<1>9. /\ Cardinality(nuls) = 3
      /\ Rank(nuls, x) = 0 /\ Rank(nuls, y) = 1 /\ Rank(nuls, z) = 2
  BY <1>5, <1>7, ThreeRanks
<1>10. \A k : nth(k) = CHOOSE i \in nuls : Rank(nuls, i) = k - 1
  BY DEF Rank
<1> HIDE DEF nth
<1>11. nth(1) = x /\ nth(2) = y /\ nth(3) = z
  <2>1. ASSUME NEW k \in 1 .. 3, NEW u \in nuls, Rank(nuls, u) = k - 1,
               \A i \in nuls : Rank(nuls, i) = k - 1 => i = u
        PROVE  nth(k) = u
    BY <2>1, <1>10
  <2>2. x \in nuls /\ y \in nuls /\ z \in nuls
    BY <1>7
  <2>3. nth(1) = x
    <3>1. \A i \in nuls : Rank(nuls, i) = 1 - 1 => i = x
      BY <1>7, <1>9
    <3> QED BY <2>1, <2>2, <3>1, <1>9
  <2>4. nth(2) = y
    <3>1. \A i \in nuls : Rank(nuls, i) = 2 - 1 => i = y
      BY <1>7, <1>9
    <3> QED BY <2>1, <2>2, <3>1, <1>9
  <2>5. nth(3) = z
    <3>1. \A i \in nuls : Rank(nuls, i) = 3 - 1 => i = z
      BY <1>7, <1>9
    <3> QED BY <2>1, <2>2, <3>1, <1>9
  <2> QED BY <2>3, <2>4, <2>5
<1>12. PICK r : r = decodeSignData(q)
  OBVIOUS
<1>13. /\ r[1] = SubSeq(q, 1, x - 1) /\ r[2] = SubSeq(q, x + 1, y - 1)
       /\ r[3] = SubSeq(q, y + 1, z - 1) /\ r[4] = SubSeq(q, z + 1, Len(q))
  <2>1. \A k \in 1 .. 4 :
          r[k] = IF k > Cardinality(nuls) + 1 THEN <<>>
                 ELSE SubSeq(q, IF k = 1 THEN 1 ELSE nth(k - 1) + 1,
                                IF k = 4 \/ k > Cardinality(nuls) THEN Len(q) ELSE nth(k) - 1)
    BY <1>8, <1>12
  <2>2. r[1] = SubSeq(q, 1, nth(1) - 1)
    BY <2>1, <1>9
  <2>3. r[2] = SubSeq(q, nth(1) + 1, nth(2) - 1)
    BY <2>1, <1>9
  <2>4. r[3] = SubSeq(q, nth(2) + 1, nth(3) - 1)
    BY <2>1, <1>9
  <2>5. r[4] = SubSeq(q, nth(3) + 1, Len(q))
    BY <2>1, <1>9
  <2> QED BY <2>2, <2>3, <2>4, <2>5, <1>11
<1>14. r[1] = a
  <2>1. PICK o \in Nat, k \in Nat : o = 0 /\ k = Len(a)
    BY <1>5
  <2>2. o + k <= Len(q) /\ o + 1 = 1 /\ o + k = x - 1
    BY <2>1, <1>4, <1>5 DEF Nuls
  <2>3. \A i \in 1 .. k : q[o + i] = a[i]
    BY <2>1, <1>4 DEF Nuls
  <2>4. Holds(S, q, a, o, k)
    BY <2>1, <2>2, <2>3, <1>2, <1>3 DEF Holds
  <2>5. SubSeq(q, o + 1, o + k) = a
    BY <2>4, PieceIs
  <2> QED BY <2>2, <2>5, <1>13
<1>15. r[2] = b
  <2>1. PICK o \in Nat, k \in Nat : o = x /\ k = Len(b)
    BY <1>5
  <2>2. o + k <= Len(q) /\ o + 1 = x + 1 /\ o + k = y - 1
    BY <2>1, <1>4, <1>5 DEF Nuls
  <2>3. \A i \in 1 .. k : q[o + i] = b[i]
    BY <2>1, <1>4 DEF Nuls
  <2>4. Holds(S, q, b, o, k)
    BY <2>1, <2>2, <2>3, <1>2, <1>3 DEF Holds
  <2>5. SubSeq(q, o + 1, o + k) = b
    BY <2>4, PieceIs
  <2> QED BY <2>2, <2>5, <1>13
<1>16. r[3] = c
  <2>1. PICK o \in Nat, k \in Nat : o = y /\ k = Len(c)
    BY <1>5
  <2>2. o + k <= Len(q) /\ o + 1 = y + 1 /\ o + k = z - 1
    BY <2>1, <1>4, <1>5 DEF Nuls
  <2>3. \A i \in 1 .. k : q[o + i] = c[i]
    BY <2>1, <1>4 DEF Nuls
  <2>4. Holds(S, q, c, o, k)
    BY <2>1, <2>2, <2>3, <1>2, <1>3 DEF Holds
  <2>5. SubSeq(q, o + 1, o + k) = c
    BY <2>4, PieceIs
  <2> QED BY <2>2, <2>5, <1>13
<1>17. r[4] = d
  <2>1. PICK o \in Nat, k \in Nat : o = z /\ k = Len(d)
    BY <1>5
  <2>2. o + k <= Len(q) /\ o + 1 = z + 1 /\ o + k = Len(q)
    BY <2>1, <1>4, <1>5 DEF Nuls
  <2>3. \A i \in 1 .. k : q[o + i] = d[i]
    BY <2>1, <1>4 DEF Nuls
  <2>4. Holds(S, q, d, o, k)
    BY <2>1, <2>2, <2>3, <1>2, <1>3 DEF Holds
  <2>5. SubSeq(q, o + 1, o + k) = d
    BY <2>4, PieceIs
  <2> QED BY <2>2, <2>5, <1>13
<1> QED BY <1>12, <1>14, <1>15, <1>16, <1>17 DEF DecodeText, Joined4

\* The text does not have the first byte of a line in the middle of a character.
CutsClean(s) == \A i \in DOMAIN s : i % SignLineLen = 1 => ~IsFollow(s[i])

\* Then every line is well-formed.
LEMMA LineWellFormed ==
  ASSUME NEW s \in Texts, WellFormed(s), CutsClean(s), NEW k \in 1 .. 4
  PROVE  Line(s, k) \in SignBlocks
<1>1. PICK n \in Nat : n = Len(s) /\ DOMAIN s = 1 .. n
  BY DEF Texts
<1>2. PICK m \in Nat : m = SignLineLen /\ m > 3
  BY CodecAssumption
<1>3. PICK f \in Nat : f = (k - 1) * m + 1
  <2>1. (k - 1) * m + 1 \in Nat
    OBVIOUS
  <2> QED BY <2>1
<1>4. PICK e \in Nat : e = k * m
  <2>1. k * m \in Nat
    OBVIOUS
  <2> QED BY <2>1
<1>5. PICK t \in 0 .. n : t = IF e < n THEN e ELSE n
  OBVIOUS
<1>6. Line(s, k) = SubSeq(s, f, t)
  BY <1>1, <1>2, <1>3, <1>4, <1>5 DEF Line
<1>7. f > 0
  <2>1. (k - 1) * m >= 0
    OBVIOUS
  <2> QED BY <2>1, <1>3
<1>8. f <= n => ~IsFollow(s[f])
  <2>1. k - 1 \in 0 .. 3
    OBVIOUS
  <2>2. f % SignLineLen = 1
    BY <2>1, <1>2, <1>3, CutPlaces
  <2>3. f <= n => f \in DOMAIN s
    BY <1>1, <1>7
  <2> QED BY <2>2, <2>3 DEF CutsClean
<1>9. t < n => ~IsFollow(s[t + 1])
  <2> SUFFICES ASSUME t < n PROVE ~IsFollow(s[t + 1])
    OBVIOUS
  <2>1. t = e /\ t + 1 \in DOMAIN s
    BY <1>1, <1>5
  <2>2. CASE k = 4
    <3>1. t + 1 = 4 * m + 1
      BY <2>1, <2>2, <1>4
    <3>2. (4 * m + 1) % m = 1
      BY <1>2
    <3> QED BY <3>1, <3>2, <2>1, <1>2 DEF CutsClean
  <2>3. CASE k # 4
    <3>1. k \in 0 .. 3
      BY <2>3
    <3>2. (t + 1) % SignLineLen = 1
      BY <3>1, <2>1, <1>2, <1>4, CutPlaces
    <3> QED BY <3>2, <2>1 DEF CutsClean
  <2> QED BY <2>2, <2>3
<1>10. SubSeq(s, f, t) \in Texts /\ WellFormed(SubSeq(s, f, t))
  BY <1>1, <1>7, <1>8, <1>9, CutWellFormed
<1>11. SubSeq(s, f, t) \in Seq(0 .. 239)
  <2>1. 1 .. 223 \subseteq 0 .. 239
    OBVIOUS
  <2> QED BY <2>1, <1>10, Wider DEF Texts
<1> QED BY <1>6, <1>10, <1>11 DEF SignBlocks

\* A text that fits comes back from its sign as it was sent.
LEMMA TextFits ==
  ASSUME NEW s \in Texts, WellFormed(s), CutsClean(s), Len(s) <= signMaxLen
  PROVE  DecodeText(decodeSignData(PluginText(encodeSignData(EncodeText(s))))) = s
<1>1. PICK a \in Texts, b \in Texts, c \in Texts, d \in Texts :
        Quartered(s, a, b, c, d)
  BY LinesOfText
<1>0. /\ encodeSignData(EncodeText(s)) = Signed4(a, b, c, d)
      /\ a = Line(s, 1) /\ b = Line(s, 2) /\ c = Line(s, 3) /\ d = Line(s, 4)
      /\ Joined4(a, b, c, d) = s
  BY <1>1 DEF Quartered
<1>2. a \in SignBlocks /\ b \in SignBlocks /\ c \in SignBlocks /\ d \in SignBlocks
  BY <1>0, LineWellFormed
<1>3. PICK o : o = <<0>>
  OBVIOUS
<1>4. o \in SignBlocks
  <2>1. o \in Seq(0 .. 239) /\ Len(o) = 1 /\ DOMAIN o = 1 .. 1 /\ o[1] = 0
    BY <1>3
  <2>2. Placed(o, 1, 1)
    BY <2>1 DEF Placed, IsLead, IsFollow
  <2>3. \A i \in DOMAIN o : Placed(o, Len(o), i)
    BY <2>1, <2>2
  <2> QED BY <2>1, <2>3, AllPlaced DEF SignBlocks
<1>5. PICK q : q = Signed4(a, b, c, d)
  OBVIOUS
<1>6. q \in SignBlocks
  <2>1. a \o o \in SignBlocks
    BY <1>2, <1>4, JoinedWellFormed
  <2>2. (a \o o) \o b \in SignBlocks
    BY <2>1, <1>2, JoinedWellFormed
  <2>3. ((a \o o) \o b) \o o \in SignBlocks
    BY <2>2, <1>4, JoinedWellFormed
  <2>4. (((a \o o) \o b) \o o) \o c \in SignBlocks
    BY <2>3, <1>2, JoinedWellFormed
  <2>5. ((((a \o o) \o b) \o o) \o c) \o o \in SignBlocks
    BY <2>4, <1>4, JoinedWellFormed
  <2>6. (((((a \o o) \o b) \o o) \o c) \o o) \o d \in SignBlocks
    BY <2>5, <1>2, JoinedWellFormed
  <2> QED BY <2>6, <1>3, <1>5, Zenon DEF Signed4
<1>7. q \in Seq(0 .. 223)
  BY <1>5, SignedTyped
<1>8. PICK n \in Nat : n = Len(q) /\ DOMAIN q = 1 .. n
  BY <1>7
<1>9. ASSUME NEW i \in 1 .. n PROVE Whole(q, i)
  <2>1. Placed(q, n, i)
    BY <1>6, <1>8, AllPlaced DEF SignBlocks
  <2>2. PICK e \in 0 .. 223 : e = q[i]
    BY <1>7, <1>8, Element
  <2>3. i > 2 => q[i - 2] # 239
    <3> SUFFICES ASSUME i > 2 PROVE q[i - 2] # 239
      OBVIOUS
    <3>1. i - 2 \in 1 .. n
      OBVIOUS
    <3>2. PICK g \in 0 .. 223 : g = q[i - 2]
      BY <3>1, <1>7, <1>8, Element
    <3>3. g # 239
      OBVIOUS
    <3> QED BY <3>2, <3>3
  <2>4. e < 128 \/ IsLead(e) \/ IsFollow(e)
    <3>1. e \notin 192 .. 193
      BY <2>1, <2>2 DEF Placed
    <3> QED BY <3>1 DEF IsLead, IsFollow
  <2>5. CASE e < 128
    BY <2>2, <2>5 DEF Whole
  <2>6. CASE IsLead(e)
    BY <2>1, <2>2, <2>6, <1>8 DEF Whole, Placed
  <2>7. CASE IsFollow(e)
    <3>1. i > 1 /\ IsLead(q[i - 1])
      BY <2>1, <2>2, <2>3, <2>7, Zenon DEF Placed
    <3> QED BY <3>1, <2>2, <2>7, Zenon DEF Whole
  <2> QED BY <2>4, <2>5, <2>6, <2>7
<1>10. PluginText(q) = q
  BY <1>7, <1>8, <1>9, PluginIdentity
<1>11. DecodeText(decodeSignData(q)) = Joined4(a, b, c, d)
  BY <1>5, LinesBack
<1> QED BY <1>0, <1>5, <1>10, <1>11

\* What fits, in the vocabulary of the codec.
FitsHere(ty, l) ==
  \/ ty \in {"int4", "int8"} /\ l.kind = "num" /\ l.num \in SmallInt
  \/ ty = "bool" /\ l.kind = "bool"
  \/ /\ ty = "text" /\ l.kind = "text"
     /\ Len(l.text) <= signMaxLen /\ WellFormed(l.text) /\ CutsClean(l.text)

\* SqlTable's limit is that of the codec.
LEMMA FitsCases ==
  ASSUME NEW ty, NEW l, Sql!Fits(ty, l)
  PROVE  FitsHere(ty, l)
<1>1. PICK h \in Nat : /\ Radix^4 \div 2 = h /\ SmallInt = (1 - h) .. (h - 1)
  BY Half DEF Power
<1>2. (-(Radix^4 \div 2 - 1)) .. (Radix^4 \div 2 - 1) = SmallInt
  <2>1. -(h - 1) = 1 - h
    OBVIOUS
  <2> QED BY <1>1, <2>1
<1>3. Sql!WellFormed(l.text) = WellFormed(l.text)
  BY DEF Sql!WellFormed, WellFormed, Sql!IsLead, IsLead, Sql!IsFollow, IsFollow
<1>4. (\A i \in DOMAIN l.text : i % SignLineLen = 1 => ~Sql!IsFollow(l.text[i]))
         => CutsClean(l.text)
  BY DEF CutsClean, Sql!IsFollow, IsFollow
<1> QED BY <1>2, <1>3, <1>4 DEF Sql!Fits, FitsHere, Sql!IntTypes

\* A constant within int32 is no float to PostgreSQL's lexer.
LEMMA ExtractedSmall ==
  ASSUME NEW l \in Literals, l.kind = "num", l.num \in SmallInt
  PROVE  extractConstValue(l) = IntVal(l.num)
<1>1. PICK h \in Nat : Radix^4 = 2 * h /\ SmallInt = (1 - h) .. (h - 1)
  BY Half DEF Power
<1>2. PICK n \in (1 - h) .. (h - 1) : n = l.num
  BY <1>1
<1>3. ~(2 * (IF l.num < 0 THEN -l.num ELSE l.num) >= Radix^4)
  BY <1>1, <1>2
<1> QED BY <1>3 DEF extractConstValue

\* Constants of the other kinds are kept.
LEMMA ExtractedKept ==
  ASSUME NEW l \in Literals, l.kind \in {"text", "bool"}
  PROVE  extractConstValue(l) = l
BY DEF extractConstValue

\* The forms of a literal.
LEMMA LiteralKinds ==
  ASSUME NEW l \in Literals
  PROVE  /\ l.kind = "num" => l = NumLit(l.num) /\ l.num \in Int
         /\ l.kind = "text" => l = TextVal(l.text) /\ l.text \in Texts
         /\ l.kind = "bool" => l \in {BoolVal(TRUE), BoolVal(FALSE)}
BY DEF Literals, NumLit, TextVal, BoolLit, BoolVal, NullLit, ExprLit

\* A constant that fits its column is decoded as it was given.
LEMMA FitsStored ==
  ASSUME columns \in Tables, NEW data, NEW values, RowHolds(data, values),
         NEW i \in 1 .. Len(columns), NEW l \in Literals, NEW ty \in STRING,
         columns[i].type = normalizeType(ty),
         getColumnValue(values, i) = extractConstValue(l), FitsHere(ty, l)
  PROVE  DecodedColumn(data, i) = Sql!ValueOf(l)
<1>1. PICK v : v = getColumnValue(values, i)
  OBVIOUS
<1>2. v \in Consts
  BY <1>1, ExtractedConst
<1>3. PICK b \in Nat, g \in Nat : b = BannerStart(i) /\ g = SignStart(i)
  BY ColumnPlace
<1>4. /\ \A k \in 1 .. Banners(columns[i]) : data[b + k] = EncodedBanners(columns[i], v)[k]
      /\ \A k \in 1 .. Signs(columns[i]) : data[g + k] = EncodedSign(columns[i], v)[k]
  BY <1>1, <1>3 DEF RowHolds
<1>5. CASE ty \in {"int4", "int8"} /\ l.kind = "num" /\ l.num \in SmallInt
  <2>1. v = IntVal(l.num)
    BY <1>1, <1>5, ExtractedSmall
  <2>2. toInt32(v) = l.num /\ toInt64(v) = l.num
    BY <2>1, <1>2, ToInts DEF IntVal
  <2>3. l.num \in Int32 /\ l.num \in Int64
    BY <1>5, SmallIntRange
  <2>4. Sql!ValueOf(l) = IntVal(l.num)
    BY <1>5 DEF Sql!ValueOf, Sql!IntVal, IntVal
  <2>5. CASE ty = "int4"
    <3>1. columns[i].type = "INT"
      BY <2>5 DEF normalizeType
    <3>2. data[b + 1] = EncodeInt32(l.num)
      <4>1. Banners(columns[i]) = 1 /\ EncodedBanners(columns[i], v) = <<EncodeInt32(l.num)>>
        BY <3>1, <2>2 DEF Banners, EncodedBanners
      <4> QED BY <4>1, <1>4
    <3>3. DecodeInt32(data[b + 1]) = l.num
      BY <3>2, <2>3, Int32RoundTrip
    <3> QED BY <3>1, <3>3, <2>4, <1>3 DEF DecodedColumn
  <2>6. CASE ty = "int8"
    <3>1. columns[i].type = "BIGINT"
      BY <2>6 DEF normalizeType
    <3>2. data[b + 1] = EncodeInt64(l.num)[1] /\ data[b + 2] = EncodeInt64(l.num)[2]
      <4>1. Banners(columns[i]) = 2 /\ EncodedBanners(columns[i], v) = EncodeInt64(l.num)
        BY <3>1, <2>2 DEF Banners, EncodedBanners
      <4> QED BY <4>1, <1>4
    <3>3. DecodeInt64(data[b + 1], data[b + 2]) = l.num
      BY <3>2, <2>3, Int64RoundTrip
    <3> QED BY <3>1, <3>3, <2>4, <1>3 DEF DecodedColumn
  <2> QED BY <1>5, <2>5, <2>6
<1>6. CASE ty = "bool" /\ l.kind = "bool"
  <2>1. v = l /\ l \in {BoolVal(TRUE), BoolVal(FALSE)}
    BY <1>1, <1>6, ExtractedKept, LiteralKinds
  <2>2. Sql!ValueOf(l) = l
    BY <1>6 DEF Sql!ValueOf
  <2>3. PICK t \in BOOLEAN : t = toBool(v) /\ BoolVal(t) = l
    <3>1. CASE v = BoolVal(TRUE)
      <4>1. v.kind # "text" /\ v.num # 0
        BY <3>1 DEF BoolVal
      <4>2. toBool(v) = TRUE
        BY <4>1 DEF toBool
      <4> QED BY <4>2, <3>1, <2>1
    <3>2. CASE v = BoolVal(FALSE)
      <4>1. v.kind # "text" /\ v.num = 0
        BY <3>2 DEF BoolVal
      <4>2. toBool(v) = FALSE
        BY <4>1 DEF toBool
      <4> QED BY <4>2, <3>2, <2>1
    <3> QED BY <3>1, <3>2, <2>1
  <2>4. columns[i].type = "BOOLEAN"
    BY <1>6 DEF normalizeType
  <2>5. data[b + 1] = EncodeBool(t)
    <3>1. Banners(columns[i]) = 1 /\ EncodedBanners(columns[i], v) = <<EncodeBool(t)>>
      BY <2>3, <2>4 DEF Banners, EncodedBanners
    <3> QED BY <3>1, <1>4
  <2>6. DecodeBool(data[b + 1]) = t
    BY <2>5, BoolRoundTrip
  <2> QED BY <2>2, <2>3, <2>4, <2>6, <1>3 DEF DecodedColumn
<1>7. CASE /\ ty = "text" /\ l.kind = "text"
           /\ Len(l.text) <= signMaxLen /\ WellFormed(l.text) /\ CutsClean(l.text)
  <2>1. v = l /\ l = TextVal(l.text) /\ l.text \in Texts
    BY <1>1, <1>7, ExtractedKept, LiteralKinds
  <2>2. Sql!ValueOf(l) = l
    BY <1>7 DEF Sql!ValueOf
  <2>3. toString(v) = l.text
    BY <2>1, <1>7 DEF toString, Formatted
  <2>4. columns[i].type = "TEXT"
    BY <1>7 DEF normalizeType
  <2>5. data[g + 1] = PluginText(encodeSignData(EncodeText(l.text)))
    <3>1. Signs(columns[i]) = 1 /\
          EncodedSign(columns[i], v) = <<PluginText(encodeSignData(EncodeText(l.text)))>>
      BY <2>3, <2>4 DEF Signs, EncodedSign
    <3> QED BY <3>1, <1>4
  <2>6. DecodeText(decodeSignData(data[g + 1])) = l.text
    BY <2>1, <2>5, <1>7, TextFits
  <2> QED BY <2>1, <2>2, <2>4, <2>6, <1>3 DEF DecodedColumn
<1> QED BY <1>5, <1>6, <1>7 DEF FitsHere

\* n names one column of the table.
OneColumn(n, i) ==
  i \in 1 .. Len(columns) /\ \A j \in 1 .. Len(columns) : columns[j].name = n <=> j = i

\* SqlTable and the executor agree on the columns' names.
LEMMA KnownColumn ==
  ASSUME SchemaInv, NEW n, Sql!Known(n)
  PROVE  \E i : OneColumn(n, i) /\ i = Sql!IndexOf(n) /\ declared[i] \in [name : STRING, type : STRING]
<1>1. /\ Len(columns) \in Nat /\ DOMAIN declared = 1 .. Len(columns)
      /\ \A i \in 1 .. Len(columns) : columns[i].name = declared[i].name
  BY DEF SchemaInv, Schemas, Tables
<1>2. PICK i \in 1 .. Len(columns) : \A j \in 1 .. Len(columns) : declared[j].name = n <=> j = i
  <2>1. PICK i \in DOMAIN declared : \A j \in DOMAIN declared : declared[j].name = n <=> j = i
    BY DEF Sql!Known
  <2>2. i \in 1 .. Len(columns)
    BY <1>1
  <2>3. ASSUME NEW j \in 1 .. Len(columns) PROVE declared[j].name = n <=> j = i
    <3>1. j \in DOMAIN declared
      BY <1>1
    <3> QED BY <2>1, <3>1
  <2> QED BY <2>2, <2>3
<1>3. Sql!IndexOf(n) = CHOOSE k \in 1 .. Len(columns) : declared[k].name = n
  BY <1>1 DEF Sql!IndexOf
<1>4. Sql!IndexOf(n) = i
  BY <1>2, <1>3
<1>5. OneColumn(n, i)
  BY <1>1, <1>2 DEF OneColumn
<1>6. declared[i] \in [name : STRING, type : STRING]
  <2>1. Len(declared) = Len(columns)
    BY DEF SchemaInv
  <2> QED BY <2>1, Element DEF SchemaInv, Schemas
<1> QED BY <1>4, <1>5, <1>6

\* The constant that SqlTable takes for column i is the one that InsertRow finds.
LEMMA GivenValue ==
  ASSUME SchemaInv, NEW r \in SqlStatements, r.kind = "insert", NEW s, s = parseInsert(r),
         NEW i \in 1 .. Len(columns), NEW l \in Sql!Given(r, i)
  PROVE  l \in Literals /\ getColumnValue(InsertValues(s), i) = extractConstValue(l)
<1>1. /\ Len(columns) \in Nat /\ DOMAIN declared = 1 .. Len(columns)
      /\ \A k \in 1 .. Len(columns) : columns[k].name = declared[k].name
      /\ columns \in Tables /\ DOMAIN columns = 1 .. Len(columns)
  BY DEF SchemaInv, Schemas, Tables
<1>2. PICK name : name = columns[i].name /\ name = declared[i].name
  BY <1>1
<1> DEFINE at == IF r.cols = <<>> THEN {i} ELSE {j \in DOMAIN r.cols : r.cols[j] = name}
<1>3. /\ Len(r.lists) = 1 /\ Sql!Known(name) /\ ~\E j, k \in at : j # k
      /\ l \in {r.lists[1][j] : j \in at \cap DOMAIN r.lists[1]}
  BY <1>2 DEF Sql!Given
<1>4. PICK j \in at : j \in DOMAIN r.lists[1] /\ l = r.lists[1][j]
  BY <1>3
<1>5. /\ s.cols = r.cols /\ r.cols \in Seq(STRING) /\ s.lists \in Seq(Consts)
      /\ r.lists # <<>> =>
           /\ r.lists[1] \in Seq(Literals) /\ Len(s.lists) = Len(r.lists[1])
           /\ \A k \in 1 .. Len(r.lists[1]) : s.lists[k] = extractConstValue(r.lists[1][k])
  BY ParsedInsert
<1>6. r.lists # <<>>
  BY <1>3
<1>7. DOMAIN r.lists[1] = 1 .. Len(r.lists[1]) /\ DOMAIN s.lists = 1 .. Len(s.lists)
  BY <1>5, <1>6
<1>8. j \in 1 .. Len(r.lists[1]) /\ j \in DOMAIN s.lists
      /\ s.lists[j] = extractConstValue(l) /\ l \in Literals
  BY <1>4, <1>5, <1>6, <1>7, Element
<1>9. PICK used : used = DOMAIN InsertNames(s) \cap DOMAIN s.lists
  OBVIOUS
<1>10. LastOfEach(s, used)
  BY <1>1, <1>5, <1>9, LastUse
<1>11. /\ s.cols = <<>> => /\ DOMAIN InsertNames(s) = 1 .. Len(columns)
                           /\ \A k \in 1 .. Len(columns) : InsertNames(s)[k] = columns[k].name
       /\ s.cols # <<>> => InsertNames(s) = r.cols
  BY <1>1, <1>5 DEF InsertNames
<1>12. j \in used /\ InsertNames(s)[j] = name
  <2>1. CASE s.cols = <<>>
    BY <2>1, <1>2, <1>4, <1>5, <1>8, <1>9, <1>11
  <2>2. CASE s.cols # <<>>
    BY <2>2, <1>2, <1>4, <1>5, <1>8, <1>9, <1>11
  <2> QED BY <2>1, <2>2
<1>13. name \in DOMAIN InsertValues(s)
  BY <1>10, <1>12 DEF LastOfEach
<1>14. PICK m \in used : InsertNames(s)[m] = name /\ InsertValues(s)[name] = s.lists[m]
  BY <1>10, <1>13 DEF LastOfEach
<1>15. m = j
  <2>1. CASE s.cols = <<>>
    <3>1. j = i /\ m \in 1 .. Len(columns) /\ columns[m].name = name
      BY <2>1, <1>4, <1>5, <1>9, <1>11, <1>14
    <3>2. PICK k : OneColumn(name, k)
      BY <1>3, KnownColumn
    <3> QED BY <3>1, <3>2, <1>2 DEF OneColumn
  <2>2. CASE s.cols # <<>>
    <3>1. m \in at
      BY <2>2, <1>5, <1>9, <1>11, <1>14
    <3> QED BY <3>1, <1>3
  <2> QED BY <2>1, <2>2
<1>16. getColumnValue(InsertValues(s), i) = InsertValues(s)[name]
  BY <1>2, <1>13 DEF getColumnValue
<1> QED BY <1>8, <1>14, <1>15, <1>16

\* q lists the rows of the strips st that f enumerates.
RowsOf(q, f, st) ==
  \A k \in 1 .. Len(q) : q[k].id = f[k] /\ q[k].vals = decodeStrip(st[f[k]])

\* A scan returns the visible rows in the order of their slots.
LEMMA ScanRowsOf ==
  ASSUME columns \in Tables, NEW n \in Nat, NEW st, \A i \in 1 .. n : RowOK(st[i]),
         NEW q, q = SeqScan(n, st)
  PROVE  /\ q \in Seq(ScanRows)
         /\ \E f : Enumerates(f, Len(q), Visible(n, st)) /\ RowsOf(q, f, st)
<1>1. PICK a : a = AllRows(n, st)
  OBVIOUS
<1>2. /\ a \in Seq(ScanRows) /\ Len(a) = n
      /\ \A i \in 1 .. n : a[i].id = i /\ a[i].vals = decodeStrip(st[i])
  BY <1>1, AllRowsTyped
<1>3. q = Kept(a, Visible(n, st))
  BY <1>1, ScanDef
<1>4. /\ q \in Seq(ScanRows)
      /\ \E f : Enumerates(f, Len(q), Visible(n, st) \cap (1 .. n)) /\ Selects(q, f, a)
  BY <1>2, <1>3, KeptSelects
<1>5. Visible(n, st) \cap (1 .. n) = Visible(n, st)
  BY DEF Visible
<1>6. PICK f : Enumerates(f, Len(q), Visible(n, st)) /\ Selects(q, f, a)
  BY <1>4, <1>5
<1>7. ASSUME NEW k \in 1 .. Len(q)
      PROVE  q[k].id = f[k] /\ q[k].vals = decodeStrip(st[f[k]])
  <2>1. q[k] = a[f[k]] /\ f[k] \in 1 .. n
    BY <1>6 DEF Enumerates, Selects, Visible
  <2> QED BY <2>1, <1>2
<1>8. RowsOf(q, f, st)
  BY <1>7 DEF RowsOf
<1> QED BY <1>4, <1>6, <1>8

\* SqlTable's Front and Last of an appended row.
LEMMA FrontLast ==
  ASSUME NEW S, NEW q \in Seq(S), NEW x \in S, NEW t, t = Append(q, x)
  PROVE  Len(t) = Len(q) + 1 /\ Sql!Front(t) = q /\ Sql!Last(t) = x
<1>1. t \in Seq(S) /\ Len(t) = Len(q) + 1 /\ t[Len(q) + 1] = x /\ Len(q) \in Nat
      /\ \A i \in 1 .. Len(q) : t[i] = q[i]
  OBVIOUS
<1>2. Sql!Last(t) = x
  BY <1>1 DEF Sql!Last
<1>3. Sql!Front(t) = SubSeq(t, 1, Len(q))
  <2>1. Len(t) - 1 = Len(q)
    BY <1>1
  <2> QED BY <2>1 DEF Sql!Front
<1>4. PICK o \in Nat, k \in Nat : o = 0 /\ k = Len(q)
  BY <1>1
<1>5. o + 1 = 1 /\ o + k = Len(q) /\ \A i \in 1 .. k : o + i = i
  BY <1>4
<1>6. \A i \in 1 .. k : t[o + i] = q[i]
  BY <1>1, <1>4, <1>5
<1>7. Holds(S, t, q, o, k)
  BY <1>1, <1>4, <1>5, <1>6 DEF Holds
<1>8. SubSeq(t, o + 1, o + k) = q
  BY <1>7, PieceIs
<1>9. SubSeq(t, 1, Len(q)) = q
  BY <1>5, <1>8
<1> QED BY <1>1, <1>2, <1>3, <1>9

\* An INSERT adds one row behind the others, whose values are the given ones
\* where they fit.
LEMMA InsertRefines ==
  ASSUME IInv, NEW r \in SqlStatements, r.kind = "insert", NEW s, s = parseInsert(r),
         GetTable(s), executeInsert(s)
  PROVE  Sql!Insert(r)
<1> USE DEF IInv
<1>1. /\ rowCount' = rowCount + 1 /\ strip' = Append(strip, RowBlocks(InsertValues(s)))
      /\ shown' = SeqScan(rowCount', strip') /\ answer' = DoneAnswer(1)
      /\ columns' = columns /\ declared' = declared
  BY DEF executeInsert
<1>2. columns \in Tables /\ Len(columns) \in Nat /\ DOMAIN declared = 1 .. Len(columns)
  BY DEF SchemaInv, Tables, Schemas
<1>3. s.cols \in Seq(STRING) /\ s.lists \in Seq(Consts)
  BY ParsedInsert
<1>4. PICK d : d = RowBlocks(InsertValues(s))
  OBVIOUS
<1>5. \A i \in 1 .. Len(columns) : getColumnValue(InsertValues(s), i) \in Consts
  BY <1>2, <1>3, ColumnValueTyped
<1>6. RowOK(d) /\ RowHolds(d, InsertValues(s))
  BY <1>2, <1>4, <1>5, RowLayout
<1>7. PICK n \in Nat : n = rowCount
  BY DEF StripInv
<1>8. /\ strip \in Seq(Seq(AnyBlock)) /\ Len(strip) = n /\ \A i \in 1 .. n : RowOK(strip[i])
  BY <1>7 DEF StripInv
<1>9. d \in Seq(AnyBlock)
  BY <1>6 DEF RowOK
<1>10. PICK ts : ts = strip'
  OBVIOUS
<1>11. ts[n + 1] = d /\ \A i \in 1 .. n : ts[i] = strip[i]
  BY <1>1, <1>4, <1>8, <1>9, <1>10
<1>12. isVisible(SubSeq(ts[n + 1], 1, stripWidth), Txid)
  BY <1>2, <1>6, <1>11, NewRowVisible
<1>13. PICK x : x = [id |-> n + 1, vals |-> decodeStrip(d)]
  OBVIOUS
<1>14. SeqScan(n + 1, ts) = Append(SeqScan(n, strip), x)
  BY <1>2, <1>6, <1>8, <1>11, <1>12, <1>13, ScanAppend
<1>15. shown' = Append(shown, x)
  BY <1>1, <1>7, <1>10, <1>14 DEF ShownInv
<1>16. shown = SeqScan(n, strip)
  BY <1>7 DEF ShownInv
<1>17. /\ shown \in Seq(ScanRows)
       /\ \E f : Enumerates(f, Len(shown), Visible(n, strip)) /\ RowsOf(shown, f, strip)
  BY <1>2, <1>8, <1>16, ScanRowsOf
<1>18. \A k \in 1 .. Len(shown) : shown[k].id \in 1 .. n
  <2>1. PICK f : Enumerates(f, Len(shown), Visible(n, strip)) /\ RowsOf(shown, f, strip)
    BY <1>17
  <2> QED BY <2>1 DEF Enumerates, RowsOf, Visible
<1>19. x \in ScanRows
  <2>1. \A j \in 1 .. Len(columns) : DecodedColumn(d, j) \in Stored
    BY <1>2, <1>6, DecodedTyped
  <2>2. DOMAIN columns = 1 .. Len(columns)
    BY <1>2 DEF Tables
  <2>3. decodeStrip(d) \in [1 .. Len(columns) -> Stored]
    BY <2>1, <2>2 DEF decodeStrip
  <2> QED BY <2>3, <1>13 DEF ScanRows
<1>20. PICK old \in Seq(ScanRows) : old = shown
  BY <1>17
<1>25. PICK new : new = shown'
  OBVIOUS
<1>21. Len(new) = Len(old) + 1 /\ Sql!Front(new) = old /\ Sql!Last(new) = x
  BY <1>15, <1>19, <1>20, <1>25, FrontLast
<1>22. x.id \notin Sql!Ids(old)
  <2>1. DOMAIN old = 1 .. Len(old)
    OBVIOUS
  <2>2. \A k \in DOMAIN old : old[k].id # n + 1
    BY <2>1, <1>18, <1>20
  <2> QED BY <2>2, <1>13 DEF Sql!Ids
<1>23. ASSUME NEW i \in DOMAIN declared, NEW l \in Sql!Given(r, i), Sql!Fits(declared[i].type, l)
       PROVE  x.vals[i] = Sql!ValueOf(l)
  <2>1. i \in 1 .. Len(columns)
    BY <1>2
  <2>2. l \in Literals /\ getColumnValue(InsertValues(s), i) = extractConstValue(l)
    BY <2>1, GivenValue
  <2>3. PICK ty \in STRING : ty = declared[i].type /\ columns[i].type = normalizeType(ty)
    <3>1. declared \in Seq([name : STRING, type : STRING]) /\ Len(declared) = Len(columns)
      BY DEF SchemaInv, Schemas
    <3>2. declared[i] \in [name : STRING, type : STRING]
      BY <2>1, <3>1, Element
    <3> QED BY <2>1, <3>2 DEF SchemaInv
  <2>4. FitsHere(ty, l)
    BY <2>3, <1>23, FitsCases
  <2>5. DecodedColumn(d, i) = Sql!ValueOf(l)
    BY <2>1, <2>2, <2>3, <2>4, <1>2, <1>6, FitsStored
  <2>6. x.vals[i] = DecodedColumn(d, i)
    <3>1. DOMAIN columns = 1 .. Len(columns)
      BY <1>2 DEF Tables
    <3> QED BY <2>1, <3>1, <1>13 DEF decodeStrip
  <2> QED BY <2>5, <2>6
<1>24. answer' = Sql!DoneAnswer(1)
  BY <1>1 DEF DoneAnswer, Sql!DoneAnswer, NoAnswer, Sql!NoAnswer
<1> QED BY <1>1, <1>20, <1>25, <1>21, <1>22, <1>23, <1>24 DEF Sql!Insert

-----------------------------------------------------------------------------
(* The order of texts.                                                     *)

\* The first place at which s is less than t, or at which s has ended.
FirstLess(s, t, k) ==
  /\ k \in 1 .. Len(t) /\ k <= Len(s) + 1
  /\ \A j \in 1 .. (k - 1) : s[j] = t[j]
  /\ k <= Len(s) => s[k] < t[k]

\* Equal prefixes, element by element.
LEMMA SamePrefix ==
  ASSUME NEW S, NEW s \in Seq(S), NEW t \in Seq(S), NEW k \in Nat, k <= Len(s), k <= Len(t)
  PROVE  SubSeq(s, 1, k) = SubSeq(t, 1, k) <=> \A j \in 1 .. k : s[j] = t[j]
<1>1. PICK o \in Nat : o = 0
  OBVIOUS
<1>2. o + k <= Len(s) /\ o + k <= Len(t) /\ o + 1 = 1 /\ o + k = k
  BY <1>1
<1>3. PICK u, v : u = SubSeq(s, 1, k) /\ v = SubSeq(t, 1, k)
  OBVIOUS
<1>4. u \in Seq(S) /\ Len(u) = k /\ \A i \in 1 .. k : u[i] = s[o + i]
  BY <1>2, <1>3, Part
<1>5. v \in Seq(S) /\ Len(v) = k /\ \A i \in 1 .. k : v[i] = t[o + i]
  BY <1>2, <1>3, Part
<1>6. \A i \in 1 .. k : o + i = i
  BY <1>1
<1>7. ASSUME u = v, NEW j \in 1 .. k PROVE s[j] = t[j]
  BY <1>4, <1>5, <1>6, <1>7
<1>8. ASSUME \A j \in 1 .. k : s[j] = t[j] PROVE u = v
  <2>1. \A j \in 1 .. Len(u) : u[j] = v[j]
    <3> SUFFICES ASSUME NEW j \in 1 .. k PROVE u[j] = v[j]
      BY <1>4
    <3>1. u[j] = s[j] /\ v[j] = t[j]
      BY <1>4, <1>5, <1>6
    <3> QED BY <3>1, <1>8
  <2> QED BY <2>1, <1>4, <1>5, SameSeq
<1> QED BY <1>3, <1>7, <1>8

\* Go's string order: the first difference decides, and a prefix comes first.
LEMMA LexFirst ==
  ASSUME NEW s \in Seq(Int), NEW t \in Seq(Int)
  PROVE  LexLess(s, t) <=> \E k \in Nat : FirstLess(s, t, k)
<1>1. PICK n \in Nat, m \in Nat : n = Len(s) /\ m = Len(t) /\ DOMAIN s = 1 .. n /\ DOMAIN t = 1 .. m
  OBVIOUS
<1>2. IsStrictPrefix(s, t) <=> n < m /\ \A j \in 1 .. n : s[j] = t[j]
  <2>1. SubSeq(s, 1, n) = s
    BY <1>1
  <2>2. CASE n <= m
    <3>1. s = SubSeq(t, 1, n) <=> \A j \in 1 .. n : s[j] = t[j]
      BY <2>1, <2>2, <1>1, SamePrefix
    <3>2. IsPrefix(s, t) <=> s = SubSeq(t, 1, n)
      BY <2>2, <1>1 DEF IsPrefix
    <3>3. n = m => (s = t <=> \A j \in 1 .. n : s[j] = t[j])
      BY <1>1, SameSeq
    <3>4. n # m => s # t
      BY <1>1
    <3> QED BY <3>1, <3>2, <3>3, <3>4, <2>2 DEF IsStrictPrefix
  <2>3. CASE ~(n <= m)
    BY <2>3, <1>1 DEF IsStrictPrefix, IsPrefix
  <2> QED BY <2>2, <2>3
<1>3. ASSUME NEW k \in 1 .. n, k <= m
      PROVE  SubSeq(s, 1, k - 1) = SubSeq(t, 1, k - 1) <=> \A j \in 1 .. (k - 1) : s[j] = t[j]
  <2>1. PICK l \in Nat : l = k - 1 /\ l <= Len(s) /\ l <= Len(t)
    BY <1>1, <1>3
  <2>2. SubSeq(s, 1, l) = SubSeq(t, 1, l) <=> \A j \in 1 .. l : s[j] = t[j]
    BY <2>1, SamePrefix
  <2> QED BY <2>1, <2>2
<1>4. ASSUME LexLess(s, t) PROVE \E k \in Nat : FirstLess(s, t, k)
  <2>1. CASE IsStrictPrefix(s, t)
    <3>1. FirstLess(s, t, n + 1)
      BY <2>1, <1>1, <1>2 DEF FirstLess
    <3> QED BY <3>1
  <2>2. CASE ~IsStrictPrefix(s, t)
    <3>1. PICK k \in 1 .. n : k \in 1 .. m /\ s[k] < t[k] /\ SubSeq(s, 1, k - 1) = SubSeq(t, 1, k - 1)
      BY <2>2, <1>1, <1>4 DEF LexLess
    <3>2. FirstLess(s, t, k)
      BY <3>1, <1>1, <1>3 DEF FirstLess
    <3> QED BY <3>2
  <2> QED BY <2>1, <2>2
<1>5. ASSUME NEW k \in Nat, FirstLess(s, t, k) PROVE LexLess(s, t)
  <2>1. CASE k <= n
    <3>1. k \in 1 .. n /\ k \in 1 .. m /\ s[k] < t[k] /\ \A j \in 1 .. (k - 1) : s[j] = t[j]
      BY <2>1, <1>1, <1>5 DEF FirstLess
    <3>2. SubSeq(s, 1, k - 1) = SubSeq(t, 1, k - 1)
      BY <3>1, <1>3
    <3> QED BY <3>1, <3>2, <1>1 DEF LexLess
  <2>2. CASE ~(k <= n)
    <3>1. k = n + 1 /\ n < m /\ \A j \in 1 .. n : s[j] = t[j]
      BY <2>2, <1>1, <1>5 DEF FirstLess
    <3> QED BY <3>1, <1>2 DEF LexLess
  <2> QED BY <2>1, <2>2
<1> QED BY <1>4, <1>5

\* The order is total and strict, so "not less and not equal" is "greater".
LEMMA LexTotal ==
  ASSUME NEW s \in Seq(Int), NEW t \in Seq(Int)
  PROVE  LexLess(t, s) <=> ~LexLess(s, t) /\ s # t
<1>1. PICK n \in Nat, m \in Nat : n = Len(s) /\ m = Len(t)
  OBVIOUS
<1>2. \A k \in 1 .. n : s[k] \in Int
  BY <1>1, Element
<1>3. \A k \in 1 .. m : t[k] \in Int
  BY <1>1, Element
<1>4. ASSUME NEW k \in Nat, NEW l \in Nat, FirstLess(s, t, k), FirstLess(t, s, l) PROVE FALSE
  <2>1. k \in 1 .. m /\ k <= n + 1 /\ l \in 1 .. n /\ l <= m + 1
    BY <1>1, <1>4 DEF FirstLess
  <2>2. CASE k < l
    <3>1. k \in 1 .. (l - 1) /\ k \in 1 .. n
      BY <2>1, <2>2
    <3>2. t[k] = s[k] /\ s[k] < t[k]
      BY <3>1, <1>1, <1>4 DEF FirstLess
    <3> QED BY <3>1, <3>2, <1>2
  <2>3. CASE l < k
    <3>1. l \in 1 .. (k - 1) /\ l \in 1 .. m
      BY <2>1, <2>3
    <3>2. t[l] = s[l] /\ t[l] < s[l]
      BY <3>1, <1>1, <1>4 DEF FirstLess
    <3> QED BY <3>1, <3>2, <1>3
  <2>4. CASE k = l
    <3>1. s[k] < t[k] /\ t[k] < s[k] /\ k \in 1 .. n /\ k \in 1 .. m
      BY <2>1, <2>4, <1>1, <1>4 DEF FirstLess
    <3> QED BY <3>1, <1>2, <1>3
  <2> QED BY <2>2, <2>3, <2>4
<1>5. ASSUME LexLess(t, s) PROVE ~LexLess(s, t) /\ s # t
  <2>1. PICK l \in Nat : FirstLess(t, s, l)
    BY <1>5, LexFirst
  <2>2. ~LexLess(s, t)
    BY <2>1, <1>4, LexFirst
  <2>3. s # t
    BY <1>5, <2>2
  <2> QED BY <2>2, <2>3
<1>6. ASSUME ~LexLess(s, t), s # t PROVE LexLess(t, s)
  <2> DEFINE D == {k \in 1 .. n : k <= m /\ s[k] # t[k]}
  <2>1. CASE D = {}
    <3>1. \A k \in 1 .. n : k <= m => s[k] = t[k]
      BY <2>1
    <3>2. CASE n < m
      <4>1. FirstLess(s, t, n + 1)
        BY <3>1, <3>2, <1>1 DEF FirstLess
      <4> QED BY <4>1, <1>6, LexFirst
    <3>3. CASE n = m
      <4>1. \A k \in 1 .. Len(s) : s[k] = t[k]
        BY <3>1, <3>3, <1>1
      <4>2. s = t
        BY <4>1, <3>3, <1>1, SameSeq
      <4> QED BY <4>2, <1>6
    <3>4. CASE m < n
      <4>1. FirstLess(t, s, m + 1)
        BY <3>1, <3>4, <1>1 DEF FirstLess
      <4> QED BY <4>1, LexFirst
    <3> QED BY <3>2, <3>3, <3>4
  <2>2. CASE D # {}
    <3>1. D \in SUBSET (1 .. n)
      OBVIOUS
    <3>2. PICK k \in D : \A j \in D : k <= j
      BY <2>2, <3>1, Least
    <3>3. k \in 1 .. n /\ k \in 1 .. m /\ s[k] # t[k]
      OBVIOUS
    <3>4. \A j \in 1 .. (k - 1) : s[j] = t[j]
      <4> SUFFICES ASSUME NEW j \in 1 .. (k - 1) PROVE s[j] = t[j]
        OBVIOUS
      <4>1. j \in 1 .. n /\ j <= m /\ ~(k <= j)
        BY <3>3
      <4> QED BY <4>1, <3>2
    <3>5. s[k] < t[k] \/ t[k] < s[k]
      BY <3>3, <1>2, <1>3
    <3>6. CASE s[k] < t[k]
      <4>1. FirstLess(s, t, k)
        BY <3>3, <3>4, <3>6, <1>1 DEF FirstLess
      <4> QED BY <4>1, <1>6, LexFirst
    <3>7. CASE t[k] < s[k]
      <4>1. FirstLess(t, s, k)
        BY <3>3, <3>4, <3>7, <1>1 DEF FirstLess
      <4> QED BY <4>1, LexFirst
    <3> QED BY <3>5, <3>6, <3>7
  <2> QED BY <2>1, <2>2
<1> QED BY <1>5, <1>6

-----------------------------------------------------------------------------
(* WHERE: the engine's comparisons and SQL's.                              *)

\* The operators that compareNum and compareStr know and SQL has.
KnownOps == {"=", "<", ">", "<=", ">="}

\* A stored integer against an integer constant: compared as numbers, also where
\* the constant arrives as the digits of a float.
LEMMA IntCompared ==
  ASSUME NEW a \in Int, NEW l \in Literals, l.kind = "num",
         l.num \in (-MaxExact) .. MaxExact, NEW op
  PROVE  compareValue(IntVal(a), extractConstValue(l), op) <=>
           Compared(op, a < l.num, a = l.num)
<1>1. PICK n \in (-MaxExact) .. MaxExact : n = l.num
  OBVIOUS
<1>2. PICK x : x = extractConstValue(l)
  OBVIOUS
<1>3. x = IntVal(n) \/ x = TextVal(Digits(n))
  BY <1>1, <1>2 DEF extractConstValue
<1>4. x # Nil /\ IsFloat(x) /\ toFloat(x) = FloatOf(n)
  <2>1. CASE x = IntVal(n)
    BY <2>1 DEF IntVal, Nil, IsFloat, toFloat
  <2>2. CASE x = TextVal(Digits(n))
    <3>1. IsNumeral(Digits(n)) /\ ParseFloat(Digits(n)) = FloatOf(n)
      BY FloatRead
    <3>2. x.kind = "text" /\ x.text = Digits(n)
      BY <2>2 DEF TextVal
    <3> QED BY <3>1, <3>2 DEF Nil, IsFloat, toFloat
  <2> QED BY <1>3, <2>1, <2>2
<1>5. PICK v : v = IntVal(a)
  OBVIOUS
<1>6. v # Nil /\ IsFloat(v) /\ toFloat(v) = FloatOf(a)
  BY <1>5 DEF IntVal, Nil, IsFloat, toFloat
<1>7. compareValue(v, x, op) = compareNum(FloatOf(a), FloatOf(n), op)
  BY <1>4, <1>6 DEF compareValue
<1>8. compareNum(FloatOf(a), FloatOf(n), op) =
        Compared(op, a * FloatUnit < n * FloatUnit, a * FloatUnit = n * FloatUnit)
  BY DEF compareNum, FloatOf
<1>9. n \in Int
  BY FloatAssumption
<1>10. /\ (a * FloatUnit < n * FloatUnit) = (a < n)
       /\ (a * FloatUnit = n * FloatUnit) = (a = n)
  BY <1>9, FloatOrder
<1> QED BY <1>1, <1>2, <1>5, <1>7, <1>8, <1>10

\* A stored text against a text that is no numeral: compared as Go strings.
LEMMA TextCompared ==
  ASSUME NEW a, NEW l \in Literals, l.kind = "text", ~IsNumeral(l.text), NEW op
  PROVE  compareValue(TextVal(a), extractConstValue(l), op) <=>
           Compared(op, LexLess(a, l.text), a = l.text)
<1>1. l = TextVal(l.text) /\ extractConstValue(l) = l
  BY LiteralKinds, ExtractedKept
<1>2. PICK v : v = TextVal(a)
  OBVIOUS
<1>3. v # Nil /\ v.kind = "text" /\ v.text = a
  BY <1>2 DEF TextVal, Nil
<1>4. l # Nil /\ ~IsFloat(l) /\ Formatted(l) = l.text
  BY DEF Nil, IsFloat, Formatted
<1>5. compareValue(v, l, op) <=> compareStr(a, l.text, op)
  <2>1. compareValue(v, l, op) <=> v.kind = "text" /\ compareStr(v.text, Formatted(l), op)
    BY <1>3, <1>4 DEF compareValue
  <2> QED BY <2>1, <1>3, <1>4
<1> QED BY <1>1, <1>2, <1>5 DEF compareStr

\* A condition of the parsed clause holds of a row.
CondHolds(c, vals) ==
  \E j \in DOMAIN columns :
    Mapped(c.col, j) /\ compareValue(vals[j], extractConstValue(c.lit), c.op)

\* Decoded values have the type of their column.
ValsTyped(vals) ==
  \A i \in 1 .. Len(columns) :
    /\ columns[i].type \in {"INT", "BIGINT"} =>
         vals[i] \in [kind : {"int"}, num : Int, text : {<<>>}]
    /\ columns[i].type = "TEXT" =>
         vals[i] \in [kind : {"text"}, num : {0}, text : SignBlocks]

\* With one column of that name, the condition is about that column.
LEMMA CondOne ==
  ASSUME SchemaInv, NEW c, NEW vals, NEW i, OneColumn(c.col, i)
  PROVE  CondHolds(c, vals) <=> compareValue(vals[i], extractConstValue(c.lit), c.op)
<1>1. DOMAIN columns = 1 .. Len(columns) /\ Len(columns) \in Nat
  BY DEF SchemaInv, Tables
<1>2. \A j \in DOMAIN columns : Mapped(c.col, j) <=> j = i
  BY <1>1 DEF Mapped, OneColumn
<1>3. i \in DOMAIN columns
  BY <1>1 DEF OneColumn
<1> QED BY <1>2, <1>3 DEF CondHolds

\* The leaves of a clause.
Conditions == [kind : {"op", "other"}, col : STRING, op : STRING, lit : Literals]

\* The engine's comparison is SQL's for the comparisons that SqlTable calls known.
LEMMA KnownCompared ==
  ASSUME SchemaInv, NEW c \in Conditions, Sql!KnownCmp(c), NEW vals, ValsTyped(vals)
  PROVE  CondHolds(c, vals) <=> Sql!LeafTruth(c, vals) = "true"
<1>1. /\ c.kind = "op" /\ Sql!Known(c.col) /\ c.op \in KnownOps
      /\ LET ty == declared[Sql!IndexOf(c.col)].type
         IN  \/ ty \in {"int4", "int8"} /\ c.lit.kind = "num"
                                    /\ c.lit.num \in (-MaxExact) .. MaxExact
             \/ ty = "text" /\ c.lit.kind = "text" /\ ~Sql!IsNumeral(c.lit.text)
  BY DEF Sql!KnownCmp, KnownOps, Sql!IntTypes
<1>2. PICK i : OneColumn(c.col, i) /\ i = Sql!IndexOf(c.col)
  BY <1>1, KnownColumn
<1>3. i \in 1 .. Len(columns) /\ columns[i].type = normalizeType(declared[i].type)
  BY <1>2 DEF OneColumn, SchemaInv
<1>4. PICK l \in Literals, op \in KnownOps : l = c.lit /\ op = c.op
  BY <1>1 DEF Conditions
<1>5. PICK v : v = vals[i]
  OBVIOUS
<1>6. PICK u : u = Sql!ValueOf(l)
  OBVIOUS
<1>7. CondHolds(c, vals) <=> compareValue(v, extractConstValue(l), op)
  BY <1>2, <1>4, <1>5, CondOne
<1> DEFINE B == CASE op = "="  -> v = u
                  [] op = "<"  -> Sql!Less(v, u)
                  [] op = ">"  -> Sql!Less(u, v)
                  [] op = "<=" -> ~Sql!Less(u, v)
                  [] OTHER     -> ~Sql!Less(v, u)
<1>8. v # Nil /\ u # Nil => (Sql!LeafTruth(c, vals) = "true" <=> B)
  <2> SUFFICES ASSUME v # Nil, u # Nil PROVE Sql!LeafTruth(c, vals) = "true" <=> B
    OBVIOUS
  <2>1. Sql!Nil = Nil
    BY DEF Sql!Nil, Nil
  <2>2. Sql!LeafTruth(c, vals) = IF B THEN "true" ELSE "false"
    BY <2>1, <1>1, <1>2, <1>4, <1>5, <1>6 DEF Sql!LeafTruth
  <2> QED BY <2>2
<1>9. CASE /\ declared[i].type \in {"int4", "int8"} /\ l.kind = "num"
           /\ l.num \in (-MaxExact) .. MaxExact
  <2>1. columns[i].type \in {"INT", "BIGINT"}
    BY <1>3, <1>9 DEF normalizeType
  <2>2. PICK a \in Int : v = IntVal(a)
    BY <2>1, <1>3, <1>5 DEF ValsTyped, IntVal
  <2>3. PICK n \in Int : n = l.num /\ u = IntVal(n)
    BY <1>6, <1>9, LiteralKinds DEF Sql!ValueOf, Sql!IntVal, IntVal
  <2>4. compareValue(v, extractConstValue(l), op) <=> Compared(op, a < n, a = n)
    BY <2>2, <2>3, <1>9, IntCompared
  <2>5. v # Nil /\ u # Nil
    BY <2>2, <2>3 DEF IntVal, Nil
  <2>6. /\ Sql!Less(v, u) = (a < n) /\ Sql!Less(u, v) = (n < a) /\ (v = u <=> a = n)
    BY <2>2, <2>3 DEF Sql!Less, IntVal
  <2>8. n < a <=> ~(a < n) /\ a # n
    OBVIOUS
  <2>7. B <=> Compared(op, a < n, a = n)
    <3>1. CASE op = "="
      BY <3>1, <2>6 DEF Compared
    <3>2. CASE op = "<"
      BY <3>2, <2>6 DEF Compared
    <3>3. CASE op = ">"
      BY <3>3, <2>6, <2>8 DEF Compared
    <3>4. CASE op = "<="
      BY <3>4, <2>6, <2>8 DEF Compared
    <3>5. CASE op = ">="
      BY <3>5, <2>6 DEF Compared
    <3> QED BY <3>1, <3>2, <3>3, <3>4, <3>5 DEF KnownOps
  <2> QED BY <2>4, <2>5, <2>7, <1>7, <1>8
<1>10. CASE declared[i].type = "text" /\ l.kind = "text" /\ ~IsNumeral(l.text)
  <2>1. columns[i].type = "TEXT"
    BY <1>3, <1>10 DEF normalizeType
  <2>2. PICK a \in SignBlocks : v = TextVal(a)
    BY <2>1, <1>3, <1>5 DEF ValsTyped, TextVal
  <2>3. PICK t \in Texts : t = l.text /\ u = TextVal(t)
    BY <1>6, <1>10, LiteralKinds DEF Sql!ValueOf
  <2>4. compareValue(v, extractConstValue(l), op) <=> Compared(op, LexLess(a, t), a = t)
    BY <2>2, <2>3, <1>10, TextCompared
  <2>5. v # Nil /\ u # Nil
    BY <2>2, <2>3 DEF TextVal, Nil
  <2>6. /\ Sql!Less(v, u) = LexLess(a, t) /\ Sql!Less(u, v) = LexLess(t, a)
        /\ (v = u <=> a = t)
    <3>1. \A x, y : Sql!LexLess(x, y) = LexLess(x, y)
      BY DEF Sql!LexLess, LexLess, Sql!IsStrictPrefix, IsStrictPrefix, Sql!IsPrefix, IsPrefix
    <3> QED BY <3>1, <2>2, <2>3 DEF Sql!Less, TextVal
  <2>8. LexLess(t, a) <=> ~LexLess(a, t) /\ a # t
    <3>1. a \in Seq(Int) /\ t \in Seq(Int)
      <4>1. 0 .. 239 \subseteq Int /\ 1 .. 223 \subseteq Int
        OBVIOUS
      <4>2. a \in Seq(0 .. 239) /\ t \in Seq(1 .. 223)
        BY DEF SignBlocks, Texts
      <4>5. PICK S : S = 0 .. 239
        OBVIOUS
      <4>6. a \in Seq(S) /\ S \subseteq Int
        BY <4>1, <4>2, <4>5
      <4>3. a \in Seq(Int)
        BY <4>6, Wider
      <4>7. PICK T : T = 1 .. 223
        OBVIOUS
      <4>8. t \in Seq(T) /\ T \subseteq Int
        BY <4>1, <4>2, <4>7
      <4>4. t \in Seq(Int)
        BY <4>8, Wider
      <4> QED BY <4>3, <4>4
    <3> QED BY <3>1, LexTotal
  <2>7. B <=> Compared(op, LexLess(a, t), a = t)
    <3>1. CASE op = "="
      BY <3>1, <2>6 DEF Compared
    <3>2. CASE op = "<"
      BY <3>2, <2>6 DEF Compared
    <3>3. CASE op = ">"
      BY <3>3, <2>6, <2>8 DEF Compared
    <3>4. CASE op = "<="
      BY <3>4, <2>6, <2>8 DEF Compared
    <3>5. CASE op = ">="
      BY <3>5, <2>6 DEF Compared
    <3> QED BY <3>1, <3>2, <3>3, <3>4, <3>5 DEF KnownOps
  <2> QED BY <2>4, <2>5, <2>7, <1>7, <1>8
<1>11. Sql!IsNumeral(l.text) = IsNumeral(l.text)
  BY DEF Sql!IsNumeral, IsNumeral
<1> QED BY <1>1, <1>2, <1>4, <1>9, <1>10, <1>11

\* What parseCondition makes of a comparison, and what evaluateWhere asks of it.
ParsedCond(c) == [Column |-> c.col, Operator |-> c.op, Value |-> extractConstValue(c.lit)]
OneHolds(x, vals) ==
  \E j \in DOMAIN columns : Mapped(x.Column, j) /\ compareValue(vals[j], x.Value, x.Operator)

\* The conditions of a clause are those of its comparisons, in any number.
LEMMA ClauseHolds ==
  ASSUME NEW args \in Seq(Conditions), NEW vals
  PROVE  evaluateWhere(vals, FlattenSeq([i \in DOMAIN args |-> parseCondition(args[i])])) <=>
           \A i \in 1 .. Len(args) : args[i].kind = "op" => CondHolds(args[i], vals)
<1>1. PICK C : C = {ParsedCond(c) : c \in Conditions}
  OBVIOUS
<1>2. PICK n \in Nat : n = Len(args) /\ DOMAIN args = 1 .. n
  OBVIOUS
<1>3. \A i \in 1 .. n : args[i] \in Conditions
  BY <1>2, Element
<1>4. PICK ss : ss = [i \in DOMAIN args |-> parseCondition(args[i])]
  OBVIOUS
<1>5. \A i \in 1 .. n : ss[i] = IF args[i].kind = "op" THEN <<ParsedCond(args[i])>> ELSE <<>>
  BY <1>2, <1>4 DEF parseCondition, ParsedCond
<1>6. \A i \in 1 .. n : ss[i] \in Seq(C)
  <2> SUFFICES ASSUME NEW i \in 1 .. n PROVE ss[i] \in Seq(C)
    OBVIOUS
  <2>1. ParsedCond(args[i]) \in C
    BY <1>1, <1>3
  <2>2. <<ParsedCond(args[i])>> \in Seq(C) /\ <<>> \in Seq(C)
    BY <2>1
  <2> QED BY <2>2, <1>5
<1>7. ss \in Seq(Seq(C)) /\ Len(ss) = n
  <2>1. ss = [i \in 1 .. n |-> ss[i]]
    BY <1>2, <1>4
  <2> QED BY <2>1, <1>6, IndexedSeq
<1>8. PICK off : Offsets(ss, off)
  BY <1>7, OffsetsExist
<1>9. PICK q : q = FlattenSeq(ss)
  OBVIOUS
<1>10. q \in Seq(C) /\ Laid(ss, off, n, q)
  BY <1>7, <1>8, <1>9, Flattened
<1>11. /\ off \in [0 .. n -> Nat] /\ Len(q) = off[n] /\ DOMAIN q = 1 .. off[n]
       /\ \A j \in 1 .. n : \A k \in 1 .. Len(ss[j]) : q[off[j - 1] + k] = ss[j][k]
       /\ \A j \in 1 .. n : off[j] = off[j - 1] + Len(ss[j])
  <2>1. /\ off \in [0 .. n -> Nat]
        /\ \A j \in 1 .. n : off[j] = off[j - 1] + Len(ss[j])
    BY <1>7, <1>8, Zenon DEF Offsets
  <2>2. /\ Len(q) = off[n]
        /\ \A j \in 1 .. n : \A k \in 1 .. Len(ss[j]) : q[off[j - 1] + k] = ss[j][k]
    BY <1>10, Zenon DEF Laid
  <2>3. DOMAIN q = 1 .. Len(q)
    BY <1>10
  <2> QED BY <2>1, <2>2, <2>3
<1>12. \A j \in 0 .. n : off[j] <= off[n]
  <2>1. \A i \in 0 .. Len(ss) : \A j \in 0 .. i : off[j] <= off[i]
    BY <1>7, <1>8, OffsetsGrow
  <2> QED BY <2>1, <1>7
<1>13. \A c : OneHolds(ParsedCond(c), vals) <=> CondHolds(c, vals)
  BY DEF OneHolds, ParsedCond, CondHolds
<1>14. evaluateWhere(vals, q) <=> \A p \in 1 .. off[n] : OneHolds(q[p], vals)
  BY <1>11 DEF evaluateWhere, OneHolds
<1>15. ASSUME \A p \in 1 .. off[n] : OneHolds(q[p], vals), NEW i \in 1 .. n, args[i].kind = "op"
       PROVE  CondHolds(args[i], vals)
  <2>1. ss[i] = <<ParsedCond(args[i])>>
    BY <1>5, <1>15
  <2>2. Len(ss[i]) = 1 /\ ss[i][1] = ParsedCond(args[i])
    BY <2>1
  <2>7. i - 1 \in 0 .. n /\ i \in 0 .. n
    OBVIOUS
  <2>3. PICK b \in Nat : b = off[i - 1]
    BY <2>7, <1>11
  <2>4. q[b + 1] = ParsedCond(args[i])
    BY <2>2, <2>3, <1>11
  <2>5. b + 1 \in 1 .. off[n]
    <3>1. off[i] = b + 1 /\ off[i] <= off[n] /\ off[n] \in Nat
      <4>1. off[i] = b + 1
        BY <2>2, <2>3, <1>11
      <4>2. off[i] <= off[n]
        BY <2>7, <1>12
      <4> QED BY <4>1, <4>2, <1>11
    <3> QED BY <3>1
  <2>6. OneHolds(q[b + 1], vals)
    BY <2>5, <1>15
  <2> QED BY <2>4, <2>6, <1>13
<1>16. ASSUME \A i \in 1 .. n : args[i].kind = "op" => CondHolds(args[i], vals),
              NEW p \in 1 .. off[n]
       PROVE  OneHolds(q[p], vals)
  <2>1. InPart(ss, off, p)
    BY <1>7, <1>8, PartOf
  <2>0. PICK i \in 1 .. n : \E k \in 1 .. Len(ss[i]) : p = off[i - 1] + k
    BY <2>1, <1>7 DEF InPart
  <2>2. PICK k \in 1 .. Len(ss[i]) : p = off[i - 1] + k
    BY <2>0
  <2>3. q[p] = ss[i][k]
    BY <2>2, <1>11
  <2>4. args[i].kind = "op"
    <3>1. ss[i] # <<>>
      BY <2>2
    <3> QED BY <3>1, <1>5
  <2>5. ss[i] = <<ParsedCond(args[i])>>
    BY <2>4, <1>5
  <2>6. ss[i][k] = ParsedCond(args[i])
    BY <2>5
  <2>7. CondHolds(args[i], vals)
    BY <2>4, <1>16
  <2> QED BY <2>3, <2>6, <2>7, <1>13
<1> QED BY <1>2, <1>4, <1>9, <1>14, <1>15, <1>16

\* What the loops of executeSelect and executeDelete ask of a row.
LEMMA WhereMeans ==
  ASSUME NEW w \in Clauses, NEW vals
  PROVE  evaluateWhere(vals, parseWhereClause(w)) <=>
           (w.bool \in {"and", "leaf"} =>
              \A i \in 1 .. Len(w.args) : w.args[i].kind = "op" => CondHolds(w.args[i], vals))
<1>1. CASE w.bool \in {"and", "leaf"}
  <2>1. w.args \in Seq(Conditions)
    BY <1>1 DEF Clauses, Conditions, NoWhere, Where
  <2>2. parseWhereClause(w) = FlattenSeq([i \in DOMAIN w.args |-> parseCondition(w.args[i])])
    BY <1>1 DEF parseWhereClause
  <2> QED BY <1>1, <2>1, <2>2, ClauseHolds
<1>2. CASE w.bool \notin {"and", "leaf"}
  <2>1. parseWhereClause(w) = <<>>
    BY <1>2 DEF parseWhereClause
  <2>2. evaluateWhere(vals, <<>>)
    BY DEF evaluateWhere
  <2> QED BY <1>2, <2>1, <2>2
<1> QED BY <1>1, <1>2

\* The arguments of a clause.
LEMMA ClauseTyped ==
  ASSUME NEW w \in Clauses
  PROVE  /\ w.args \in Seq(Conditions) /\ w.bool \in {"none", "leaf", "and", "or", "not"}
         /\ w.bool = "none" => w.args = <<>>
<1>1. PICK C : C = Conditions
  OBVIOUS
<1>2. w \in [bool : {"leaf", "and", "or", "not"}, args : Seq(C)] \/ w = NoWhere
  BY <1>1 DEF Clauses, Conditions
<1>3. CASE w = NoWhere
  BY <1>3 DEF NoWhere, Where
<1>4. CASE w \in [bool : {"leaf", "and", "or", "not"}, args : Seq(C)]
  BY <1>1, <1>4
<1> QED BY <1>2, <1>3, <1>4

\* An understood clause selects the rows that SQL selects, and a clause of known
\* comparisons at least those.
LEMMA ClauseMatches ==
  ASSUME SchemaInv, NEW w \in Clauses, NEW vals, ValsTyped(vals)
  PROVE  /\ Sql!Understood(w) =>
              (Sql!Matches(w, vals) <=> evaluateWhere(vals, parseWhereClause(w)))
         /\ Sql!Comparable(w) /\ Sql!Matches(w, vals) => evaluateWhere(vals, parseWhereClause(w))
<1>1. /\ w.args \in Seq(Conditions) /\ w.bool \in {"none", "leaf", "and", "or", "not"}
      /\ w.bool = "none" => w.args = <<>>
  BY ClauseTyped
<1>2. PICK n \in Nat : n = Len(w.args) /\ DOMAIN w.args = 1 .. n
  BY <1>1
<1>3. \A i \in 1 .. n : w.args[i] \in Conditions
  BY <1>1, <1>2, Element
<1>4. ASSUME NEW i \in 1 .. n, Sql!KnownCmp(w.args[i])
      PROVE  /\ CondHolds(w.args[i], vals) <=> Sql!LeafTruth(w.args[i], vals) = "true"
             /\ w.args[i].kind = "op"
  BY <1>3, <1>4, KnownCompared DEF Sql!KnownCmp
<1>5. w.bool \in {"none", "leaf", "and"} =>
        (Sql!Matches(w, vals) <=> \A i \in 1 .. n : Sql!LeafTruth(w.args[i], vals) = "true")
  BY <1>2 DEF Sql!Matches
<1>6. evaluateWhere(vals, parseWhereClause(w)) <=>
           (w.bool \in {"and", "leaf"} =>
              \A i \in 1 .. n : w.args[i].kind = "op" => CondHolds(w.args[i], vals))
  BY <1>2, WhereMeans
<1>7. ASSUME Sql!Understood(w)
      PROVE  Sql!Matches(w, vals) <=> evaluateWhere(vals, parseWhereClause(w))
  <2>1. w.bool \in {"none", "leaf", "and"} /\ \A i \in 1 .. n : Sql!KnownCmp(w.args[i])
    BY <1>2, <1>7 DEF Sql!Understood
  <2>2. CASE w.bool = "none"
    <3>1. n = 0
      BY <2>2, <1>1, <1>2
    <3> QED BY <2>2, <3>1, <1>5, <1>6
  <2>3. CASE w.bool # "none"
    BY <2>1, <2>3, <1>4, <1>5, <1>6
  <2> QED BY <2>2, <2>3
<1>8. ASSUME Sql!Comparable(w), Sql!Matches(w, vals)
      PROVE  evaluateWhere(vals, parseWhereClause(w))
  <2>1. \A i \in 1 .. n : Sql!KnownCmp(w.args[i]) \/ w.args[i].kind = "other"
    BY <1>2, <1>8 DEF Sql!Comparable
  <2>2. CASE w.bool \in {"and", "leaf"}
    <3>1. \A i \in 1 .. n : Sql!LeafTruth(w.args[i], vals) = "true"
      BY <2>2, <1>5, <1>8
    <3>2. \A i \in 1 .. n : w.args[i].kind = "op" => CondHolds(w.args[i], vals)
      BY <2>1, <3>1, <1>4
    <3> QED BY <3>2, <1>6
  <2>3. CASE w.bool \notin {"and", "leaf"}
    BY <2>3, <1>6
  <2> QED BY <2>2, <2>3
<1> QED BY <1>7, <1>8

-----------------------------------------------------------------------------
(* SELECT.                                                                 *)

\* SqlTable's vocabulary is the executor's.
LEMMA SameWords ==
  /\ \A s, K : Sql!Kept(s, K) = Kept(s, K)
  /\ \A v : Sql!Text(v) = encodeValue(v)
  /\ Sql!Star = Star
<1>1. \A s, K : Sql!Kept(s, K) = Kept(s, K)
  BY DEF Sql!Kept, Kept, Sql!FlattenSeq, FlattenSeq
<1>2. \A n : Sql!Digits(n) = Digits(n)
  BY DEF Sql!Digits, Digits, Sql!Decimal, Decimal
<1>3. \A v : Sql!Formatted(v) = Formatted(v)
  BY <1>2 DEF Sql!Formatted, Formatted, Sql!TrueText, TrueText, Sql!FalseText, FalseText,
              Sql!NilText, NilText
<1>4. \A v : Sql!Text(v) = encodeValue(v)
  BY <1>3 DEF Sql!Text, encodeValue, Sql!Nil, Nil, Sql!TextVal, TextVal
<1>5. Sql!Star = Star
  BY DEF Sql!Star, Star, Sql!Target, Target
<1> QED BY <1>1, <1>4, <1>5

\* The type that sendSelectResult announces is that of the declared type.
LEMMA AnnouncedType ==
  ASSUME NEW t, t \in DOMAIN Sql!TypeOIDs
  PROVE  typeToOID(normalizeType(t)) = Sql!TypeOIDs[t]
<1>1. DOMAIN Sql!TypeOIDs = {"int4", "int8", "text", "bool", "float8"}
  BY DEF Sql!TypeOIDs
<1>2. CASE t = "int4"
  BY <1>2 DEF Sql!TypeOIDs, typeToOID, normalizeType
<1>3. CASE t = "int8"
  BY <1>3 DEF Sql!TypeOIDs, typeToOID, normalizeType
<1>4. CASE t = "text"
  BY <1>4 DEF Sql!TypeOIDs, typeToOID, normalizeType
<1>5. CASE t = "bool"
  BY <1>5 DEF Sql!TypeOIDs, typeToOID, normalizeType
<1>6. CASE t = "float8"
  BY <1>6 DEF Sql!TypeOIDs, typeToOID, normalizeType
<1> QED BY <1>1, <1>2, <1>3, <1>4, <1>5, <1>6

\* The values of a decoded row have the types of their columns.
LEMMA RowTyped ==
  ASSUME columns \in Tables, NEW data, RowOK(data)
  PROVE  ValsTyped(decodeStrip(data))
<1>1. DOMAIN columns = 1 .. Len(columns)
  BY DEF Tables
<1>2. \A i \in 1 .. Len(columns) : decodeStrip(data)[i] = DecodedColumn(data, i)
  BY <1>1 DEF decodeStrip
<1> QED BY <1>2, DecodedTyped DEF ValsTyped

\* What the table shows, row by row.
LEMMA ShownRows ==
  ASSUME IInv
  PROVE  /\ rowCount \in Nat /\ shown \in Seq(ScanRows)
         /\ \E f : /\ Enumerates(f, Len(shown), Visible(rowCount, strip))
                   /\ RowsOf(shown, f, strip)
         /\ \A k \in 1 .. Len(shown) : ValsTyped(shown[k].vals)
<1>1. PICK n \in Nat : n = rowCount
  BY DEF IInv, StripInv
<1>2. columns \in Tables /\ \A i \in 1 .. n : RowOK(strip[i])
  BY <1>1 DEF IInv, SchemaInv, StripInv
<1>3. shown = SeqScan(n, strip)
  BY <1>1 DEF IInv, ShownInv
<1>4. /\ shown \in Seq(ScanRows)
      /\ \E f : Enumerates(f, Len(shown), Visible(n, strip)) /\ RowsOf(shown, f, strip)
  BY <1>2, <1>3, ScanRowsOf
<1>5. PICK f : Enumerates(f, Len(shown), Visible(n, strip)) /\ RowsOf(shown, f, strip)
  BY <1>4
<1>6. ASSUME NEW k \in 1 .. Len(shown) PROVE ValsTyped(shown[k].vals)
  <2>1. f[k] \in 1 .. n /\ shown[k].vals = decodeStrip(strip[f[k]])
    BY <1>5 DEF Enumerates, RowsOf, Visible
  <2>2. RowOK(strip[f[k]])
    BY <2>1, <1>2
  <2> QED BY <2>1, <2>2, <1>2, RowTyped
<1> QED BY <1>1, <1>4, <1>6

\* The rows that the executor's loops go on with.
LEMMA AcceptedRows ==
  ASSUME IInv, NEW w \in Clauses
  PROVE  /\ Accepted(w) \in Seq(ScanRows) /\ Len(Accepted(w)) <= Len(shown)
         /\ Accepted(w) = Kept(shown, {k \in DOMAIN shown :
                                         evaluateWhere(shown[k].vals, parseWhereClause(w))})
         /\ Sql!Understood(w) =>
              Accepted(w) = Kept(shown, {k \in DOMAIN shown : Sql!Matches(w, shown[k].vals)})
<1>1. shown \in Seq(ScanRows) /\ \A k \in 1 .. Len(shown) : ValsTyped(shown[k].vals)
  BY ShownRows
<1>2. SeqScan(rowCount, strip) = shown
  BY DEF IInv, ShownInv
<1>3. PICK K : K = {k \in DOMAIN shown : evaluateWhere(shown[k].vals, parseWhereClause(w))}
  OBVIOUS
<1>4. Accepted(w) = Kept(shown, K)
  BY <1>2, <1>3 DEF Accepted
<1>5. PICK q : q = Kept(shown, K)
  OBVIOUS
<1>6. q \in Seq(ScanRows) /\ \E f : Enumerates(f, Len(q), K \cap (1 .. Len(shown)))
  BY <1>1, <1>5, KeptSelects
<1>7. Len(q) <= Len(shown)
  <2>1. PICK f : Enumerates(f, Len(q), K \cap (1 .. Len(shown)))
    BY <1>6
  <2>2. PICK U : U = K \cap (1 .. Len(shown))
    OBVIOUS
  <2>3. Len(q) \in Nat /\ Len(shown) \in Nat /\ U \subseteq 1 .. Len(shown)
        /\ Enumerates(f, Len(q), U)
    BY <2>1, <2>2, <1>1, <1>6
  <2> QED BY <2>3, EnumerationShort
<1>8. ASSUME Sql!Understood(w)
      PROVE  K = {k \in DOMAIN shown : Sql!Matches(w, shown[k].vals)}
  <2>1. DOMAIN shown = 1 .. Len(shown)
    BY <1>1
  <2>2. \A k \in DOMAIN shown :
          Sql!Matches(w, shown[k].vals) <=> evaluateWhere(shown[k].vals, parseWhereClause(w))
    BY <2>1, <1>1, <1>8, ClauseMatches DEF IInv
  <2> QED BY <2>2, <1>3
<1> QED BY <1>3, <1>4, <1>5, <1>6, <1>7, <1>8

\* The targets of a SELECT.
Targets == [alias : STRING, ref : STRING]

\* The positions of a sequence.
LEMMA Positions ==
  ASSUME NEW S, NEW s \in Seq(S)
  PROVE  Len(s) \in Nat /\ DOMAIN s = 1 .. Len(s) /\ (s # <<>> => Len(s) # 0)
OBVIOUS

\* A sequence of one element.
LEMMA OneElement ==
  ASSUME NEW S, NEW x \in S
  PROVE  <<x>> \in Seq(S)
OBVIOUS

\* "*" asks for no name.
LEMMA StarNames == parseTargetList(Star) = <<>>
<1>1. PICK ts : ts = Star
  OBVIOUS
<1>2. ts = <<[alias |-> "", ref |-> "*"]>>
  BY <1>1 DEF Star, Target
<1>3. DOMAIN ts = 1 .. 1 /\ ts[1].alias = "" /\ ts[1].ref = "*"
  <2>1. PICK r : r = [alias |-> "", ref |-> "*"]
    OBVIOUS
  <2>2. r.alias = "" /\ r.ref = "*"
    BY <2>1
  <2>3. ts = <<r>>
    BY <2>1, <1>2
  <2>4. DOMAIN ts = 1 .. 1 /\ ts[1] = r
    BY <2>3
  <2> QED BY <2>2, <2>4
<1>4. PICK ss : ss = [i \in 1 .. 1 |-> <<>>]
  OBVIOUS
<1>5. parseTargetList(ts) = FlattenSeq(ss)
  <2>1. [i \in DOMAIN ts |-> IF ts[i].alias # "" THEN <<ts[i].alias>>
                             ELSE IF ts[i].ref \in {"*", "expr"} THEN <<>> ELSE <<ts[i].ref>>]
          = ss
    <3>1. \A i \in 1 .. 1 : i = 1
      OBVIOUS
    <3>2. \A i \in 1 .. 1 :
            (IF ts[i].alias # "" THEN <<ts[i].alias>>
             ELSE IF ts[i].ref \in {"*", "expr"} THEN <<>> ELSE <<ts[i].ref>>) = <<>>
      BY <3>1, <1>3
    <3> QED BY <3>2, <1>3, <1>4
  <2> QED BY <2>1 DEF parseTargetList
<1>6. ss \in Seq(Seq({})) /\ Len(ss) = 1 /\ ss[1] = <<>>
  BY <1>4
<1>7. PICK off : Offsets(ss, off)
  BY <1>6, OffsetsExist
<1>8. FlattenSeq(ss) \in Seq({}) /\ Laid(ss, off, 1, FlattenSeq(ss))
  BY <1>6, <1>7, Flattened
<1>9. FlattenSeq(ss) = <<>>
  BY <1>8
<1> QED BY <1>1, <1>5, <1>9

\* References without an alias ask for their names.
LEMMA PlainNames ==
  ASSUME NEW ts \in Seq(Targets), NEW n, n = Len(ts),
         \A i \in 1 .. n : ts[i].alias = "" /\ ts[i].ref \notin {"*", "expr"},
         NEW names, names = [i \in 1 .. n |-> ts[i].ref]
  PROVE  parseTargetList(ts) = names /\ names \in Seq(STRING) /\ Len(names) = n
<1>1. n \in Nat /\ DOMAIN ts = 1 .. n
  BY Positions
<1>2. \A i \in 1 .. n : ts[i] \in Targets
  BY <1>1, Element
<1>3. \A i \in 1 .. n : names[i] = ts[i].ref /\ names[i] \in STRING
  BY <1>2 DEF Targets
<1>0. PICK S : S = STRING
  OBVIOUS
<1>4. names \in Seq(S) /\ Len(names) = n
  <2>1. names = [i \in 1 .. n |-> names[i]]
    OBVIOUS
  <2>2. \A i \in 1 .. n : names[i] \in S
    BY <1>0, <1>3
  <2>3. PICK f : f = names
    OBVIOUS
  <2>4. f = [i \in 1 .. n |-> f[i]] /\ \A i \in 1 .. n : f[i] \in S
    BY <2>1, <2>2, <2>3
  <2>5. PICK m \in Nat : m = n
    BY <1>1
  <2>6. f \in Seq(S) /\ Len(f) = m
    BY <2>4, <2>5, IndexedSeq
  <2> QED BY <2>3, <2>5, <2>6
<1> DEFINE single(i) == <<names[i]>>
<1>5. PICK ss : ss = [i \in 1 .. n |-> single(i)]
  OBVIOUS
<1>6. parseTargetList(ts) = FlattenSeq(ss)
  <2>1. [i \in DOMAIN ts |-> IF ts[i].alias # "" THEN <<ts[i].alias>>
                             ELSE IF ts[i].ref \in {"*", "expr"} THEN <<>> ELSE <<ts[i].ref>>]
          = ss
    BY <1>1, <1>3, <1>5
  <2> QED BY <2>1 DEF parseTargetList
<1>10. \A i \in 1 .. n : single(i) \in Seq(S)
  BY <1>0, <1>3, OneElement
<1>11. \A i \in 1 .. n : single(i) = <<names[i]>>
  OBVIOUS
<1> HIDE DEF single
<1>7. ss \in Seq(Seq(S)) /\ Len(ss) = n
  <2>1. ss = [i \in 1 .. n |-> ss[i]]
    BY <1>5
  <2>2. \A i \in 1 .. n : ss[i] \in Seq(S)
    BY <1>10, <1>5
  <2> QED BY <2>1, <2>2, <1>1, IndexedSeq
<1>8. \A i \in 1 .. Len(names) : ss[i] = <<names[i]>>
  BY <1>4, <1>5, <1>11
<1>9. FlattenSeq(ss) = names
  BY <1>4, <1>7, <1>8, Singles
<1> QED BY <1>0, <1>4, <1>6, <1>9

\* Names of one column each give those columns.
LEMMA PlainOutput ==
  ASSUME SchemaInv, NEW names \in Seq(STRING), names # <<>>, NEW at,
         at = [k \in 1 .. Len(names) |-> at[k]],
         \A k \in 1 .. Len(names) : OneColumn(names[k], at[k])
  PROVE  resolveOutputColumns(names) = at
<1>0. PICK n \in Nat : n = Len(columns) /\ DOMAIN columns = 1 .. n
  BY DEF SchemaInv, Tables
<1>1. PICK m \in Nat : m = Len(names) /\ DOMAIN names = 1 .. m
  OBVIOUS
<1> DEFINE here(x) == {i \in DOMAIN columns : columns[i].name = x}
           one(x) == IF here(x) = {} THEN <<>>
                     ELSE <<CHOOSE i \in here(x) : \A j \in here(x) : i <= j>>
<1>2. ASSUME NEW k \in 1 .. m PROVE one(names[k]) = <<at[k]>> /\ at[k] \in 1 .. n
  <2>1. PICK i \in 1 .. n : i = at[k] /\ \A j \in 1 .. n : columns[j].name = names[k] <=> j = i
    BY <1>0, <1>1 DEF OneColumn
  <2>2. here(names[k]) = {i}
    BY <2>1, <1>0
  <2>3. (CHOOSE y \in {i} : \A j \in {i} : y <= j) = i
    <3>1. \A y \in {i} : \A j \in {i} : y <= j
      OBVIOUS
    <3> QED BY <3>1
  <2>4. one(names[k]) = <<i>>
    BY <2>2, <2>3
  <2> QED BY <2>1, <2>4
<1>3. resolveOutputColumns(names) = FlattenSeq([k \in DOMAIN names |-> one(names[k])])
  BY DEF resolveOutputColumns
<1> HIDE DEF one
<1>4. PICK ss : ss = [k \in 1 .. m |-> one(names[k])]
  OBVIOUS
<1>5. at \in Seq(1 .. n) /\ Len(at) = m
  BY <1>1, <1>2, IndexedSeq
<1>6. \A k \in 1 .. Len(at) : ss[k] = <<at[k]>>
  BY <1>2, <1>4, <1>5
<1>7. ss \in Seq(Seq(1 .. n)) /\ Len(ss) = m
  <2>1. ss = [k \in 1 .. m |-> ss[k]]
    BY <1>4
  <2>2. \A k \in 1 .. m : ss[k] \in Seq(1 .. n)
    BY <1>2, <1>4, OneElement
  <2> QED BY <2>1, <2>2, IndexedSeq
<1>8. FlattenSeq(ss) = at
  BY <1>5, <1>6, <1>7, Singles
<1> QED BY <1>1, <1>3, <1>4, <1>8

\* Plain targets select the columns that SqlTable chooses.
LEMMA ChosenColumns ==
  ASSUME SchemaInv, NEW ts \in Seq(Targets), Sql!PlainTargets(ts)
  PROVE  /\ resolveOutputColumns(parseTargetList(ts)) = Sql!Chosen(ts)
         /\ \A j \in DOMAIN Sql!Chosen(ts) : Sql!Chosen(ts)[j] \in 1 .. Len(columns)
<1>0. PICK n \in Nat : n = Len(columns) /\ DOMAIN columns = 1 .. n /\ DOMAIN declared = 1 .. n
  BY DEF SchemaInv, Tables, Schemas
<1>1. CASE ts = Star
  <2>1. Sql!Chosen(ts) = [i \in 1 .. n |-> i]
    BY <1>0, <1>1, SameWords DEF Sql!Chosen
  <2>2. resolveOutputColumns(<<>>) = [i \in 1 .. n |-> i]
    BY <1>0 DEF resolveOutputColumns
  <2> QED BY <2>1, <2>2, <1>0, <1>1, StarNames
<1>2. CASE ts # Star
  <2>1. PICK m \in Nat : m = Len(ts) /\ DOMAIN ts = 1 .. m
    BY Positions
  <2>2. /\ ts # <<>>
        /\ \A i \in 1 .. m : ts[i].alias = "" /\ ts[i].ref \notin {"*", "expr"}
                             /\ Sql!Known(ts[i].ref)
    BY <2>1, <1>2, SameWords DEF Sql!PlainTargets
  <2>3. PICK names : names = [i \in 1 .. m |-> ts[i].ref]
    OBVIOUS
  <2>4. parseTargetList(ts) = names /\ names \in Seq(STRING) /\ Len(names) = m
    BY <2>1, <2>2, <2>3, PlainNames
  <2>5. names # <<>>
    <3>1. m # 0
      BY <2>1, <2>2, Positions
    <3> QED BY <3>1, <2>4
  <2>6. PICK at : at = [j \in 1 .. m |-> Sql!IndexOf(ts[j].ref)]
    OBVIOUS
  <2>7. Sql!Chosen(ts) = at
    BY <2>1, <2>6, <1>2, SameWords DEF Sql!Chosen
  <2>8. ASSUME NEW k \in 1 .. m PROVE OneColumn(names[k], at[k])
    <3>1. names[k] = ts[k].ref /\ at[k] = Sql!IndexOf(ts[k].ref)
      BY <2>1, <2>3, <2>6
    <3>2. PICK i : OneColumn(ts[k].ref, i) /\ i = Sql!IndexOf(ts[k].ref)
      BY <2>2, KnownColumn
    <3> QED BY <3>1, <3>2
  <2>9. at = [k \in 1 .. Len(names) |-> at[k]] /\ DOMAIN at = 1 .. m
    BY <2>4, <2>6
  <2>10. resolveOutputColumns(names) = at
    BY <2>4, <2>5, <2>8, <2>9, PlainOutput
  <2>11. \A k \in 1 .. m : at[k] \in 1 .. Len(columns)
    BY <2>8 DEF OneColumn
  <2> QED BY <2>4, <2>7, <2>9, <2>10, <2>11
<1> QED BY <1>1, <1>2

\* A function on 1 .. n has length n.
LEMMA LengthOf ==
  ASSUME NEW n \in Nat, NEW f, f = [i \in 1 .. n |-> f[i]]
  PROVE  Len(f) = n /\ DOMAIN f = 1 .. n
<1>1. PICK S : S = {f[i] : i \in 1 .. n}
  OBVIOUS
<1>2. \A i \in 1 .. n : f[i] \in S
  BY <1>1
<1> QED BY <1>2, IndexedSeq

\* The rows of an answer, as sendSelectResult encodes them.
AnswerRows(sel, out) == [k \in DOMAIN sel |-> [j \in DOMAIN out |-> encodeValue(sel[k].vals[out[j]])]]
AnswerCols(out) == [j \in DOMAIN out |-> [name |-> columns[out[j]].name,
                                          oid |-> typeToOID(columns[out[j]].type)]]

\* The same as SqlTable promises them.
PromisedRows(sel, at) ==
  [k \in DOMAIN sel |-> [j \in DOMAIN at |-> Sql!Text(sel[k].vals[at[j]])]]
PromisedCols(at) == [j \in DOMAIN at |-> [name |-> declared[at[j]].name,
                                          oid  |-> Sql!TypeOIDs[declared[at[j]].type]]]
\* The wire type of every chosen column is promised.
TypesKnown(at) == \A j \in DOMAIN at : declared[at[j]].type \in DOMAIN Sql!TypeOIDs

\* What an understood SELECT of plain targets promises of the answer is what is sent.
LEMMA AnswerSame ==
  ASSUME SchemaInv, NEW sel, NEW at, \A j \in DOMAIN at : at[j] \in 1 .. Len(columns)
  PROVE  /\ AnswerRows(sel, at) = PromisedRows(sel, at)
         /\ TypesKnown(at) => AnswerCols(at) = PromisedCols(at)
<1>1. \A v : Sql!Text(v) = encodeValue(v)
  BY SameWords
<1>2. AnswerRows(sel, at) = PromisedRows(sel, at)
  BY <1>1, Zenon DEF AnswerRows, PromisedRows
<1>3. ASSUME \A j \in DOMAIN at : declared[at[j]].type \in DOMAIN Sql!TypeOIDs,
             NEW j \in DOMAIN at
      PROVE  [name |-> columns[at[j]].name, oid |-> typeToOID(columns[at[j]].type)] =
             [name |-> declared[at[j]].name, oid |-> Sql!TypeOIDs[declared[at[j]].type]]
  <2>1. PICK i \in 1 .. Len(columns) : i = at[j]
    OBVIOUS
  <2>2. columns[i].name = declared[i].name /\ columns[i].type = normalizeType(declared[i].type)
    BY DEF SchemaInv
  <2>3. typeToOID(columns[i].type) = Sql!TypeOIDs[declared[i].type]
    BY <2>1, <2>2, <1>3, AnnouncedType
  <2> QED BY <2>1, <2>2, <2>3, Zenon
<1> QED BY <1>2, <1>3, Zenon DEF AnswerCols, PromisedCols, TypesKnown

\* A SELECT answers with the rows that SQL selects.
LEMMA SelectRefines ==
  ASSUME IInv, NEW r \in SqlStatements, r.kind = "select", GetTable(r), executeSelect(r)
  PROVE  Sql!Select(r)
<1>1. r.targets \in Seq(Targets) /\ r.where \in Clauses
  BY DEF SqlStatements, Targets
<1>2. PICK out : out = resolveOutputColumns(parseTargetList(r.targets))
  OBVIOUS
<1>3. PICK sel : sel = Accepted(r.where)
  OBVIOUS
<1>4. /\ answer' = [kind |-> "rows", count |-> Len(sel), cols |-> AnswerCols(out),
                    rows |-> AnswerRows(sel, out)]
      /\ UNCHANGED table
  BY <1>2, <1>3 DEF executeSelect, AnswerRows, AnswerCols
<1>5. /\ answer'.kind = "rows" /\ answer'.count = Len(sel) /\ answer'.cols = AnswerCols(out)
      /\ answer'.rows = AnswerRows(sel, out) /\ declared' = declared /\ shown' = shown
  BY <1>4 DEF table
<1>6. sel \in Seq(ScanRows) /\ Len(sel) <= Len(shown)
  BY <1>1, <1>3, AcceptedRows
<1>7. Len(AnswerRows(sel, out)) = Len(sel)
  <2>1. Len(sel) \in Nat /\ DOMAIN sel = 1 .. Len(sel)
    BY <1>6, Positions
  <2>2. PICK f : f = AnswerRows(sel, out)
    OBVIOUS
  <2>3. DOMAIN f = 1 .. Len(sel) /\ f = [k \in DOMAIN f |-> f[k]]
    BY <2>1, <2>2 DEF AnswerRows
  <2>4. f = [k \in 1 .. Len(sel) |-> f[k]]
    BY <2>3
  <2> QED BY <2>1, <2>2, <2>4, LengthOf
<1>8. ASSUME Sql!Understood(r.where)
      PROVE  sel = Sql!Kept(shown, {i \in DOMAIN shown : Sql!Matches(r.where, shown[i].vals)})
  <2>1. sel = Kept(shown, {i \in DOMAIN shown : Sql!Matches(r.where, shown[i].vals)})
    BY <1>1, <1>3, <1>8, AcceptedRows
  <2> QED BY <2>1, SameWords
<1>9. ASSUME Sql!PlainTargets(r.targets), NEW at, at = Sql!Chosen(r.targets)
      PROVE  /\ answer'.rows = PromisedRows(sel, at)
             /\ TypesKnown(at) => answer'.cols = PromisedCols(at)
  <2>1. SchemaInv
    BY DEF IInv
  <2>2. out = at /\ \A j \in DOMAIN at : at[j] \in 1 .. Len(columns)
    BY <2>1, <1>1, <1>2, <1>9, ChosenColumns
  <2>3. /\ AnswerRows(sel, at) = PromisedRows(sel, at)
        /\ TypesKnown(at) => AnswerCols(at) = PromisedCols(at)
    BY <2>1, <2>2, AnswerSame
  <2> QED BY <2>2, <2>3, <1>5
<1>10. /\ answer'.kind = "rows" /\ answer'.count = Len(answer'.rows)
       /\ answer'.count <= Len(shown) /\ UNCHANGED <<declared, shown>>
  BY <1>5, <1>6, <1>7
<1>11. PICK at : at = Sql!Chosen(r.targets)
  OBVIOUS
<1>12. PICK K : K = {i \in DOMAIN shown : Sql!Matches(r.where, shown[i].vals)}
  OBVIOUS
<1>13. Sql!Understood(r.where) => sel = Sql!Kept(shown, K)
  BY <1>8, <1>12
<1>14. Sql!PlainTargets(r.targets) =>
         /\ answer'.rows = PromisedRows(sel, at)
         /\ TypesKnown(at) => answer'.cols = PromisedCols(at)
  BY <1>9, <1>11
<1>15. Sql!Understood(r.where) =>
         /\ answer'.count = Len(Sql!Kept(shown, K))
         /\ Sql!PlainTargets(r.targets) =>
              /\ answer'.rows = PromisedRows(Sql!Kept(shown, K), at)
              /\ TypesKnown(at) => answer'.cols = PromisedCols(at)
  BY <1>5, <1>13, <1>14
<1> QED BY <1>10, <1>11, <1>12, <1>15 DEF Sql!Select, PromisedRows, PromisedCols, TypesKnown

-----------------------------------------------------------------------------
(* DELETE.                                                                 *)

\* decodeStrip does not look at the xmax banners.
LEMMA MarkedDecodes ==
  ASSUME columns \in Tables, NEW data, RowOK(data)
  PROVE  decodeStrip(MarkDeleted(data)) = decodeStrip(data)
<1>1. PICK m : m = MarkDeleted(data)
  OBVIOUS
<1>2. PICK w \in Nat : w = stripWidth
  BY WidthTyped
<1>3. \A i \in 5 .. w : m[i] = data[i]
  BY <1>1, <1>2, MarkedRow
<1>4. ASSUME NEW i \in 1 .. Len(columns) PROVE DecodedColumn(m, i) = DecodedColumn(data, i)
  <2>1. PICK b \in Nat, g \in Nat : b = BannerStart(i) /\ g = SignStart(i)
    BY ColumnPlace
  <2>2. /\ b >= 4 /\ b + Banners(columns[i]) <= w
        /\ g >= 4 /\ g + Signs(columns[i]) <= w
    <3>1. PICK x \in Nat : x = stripWidthBanners
      BY ColumnPlace
    <3>2. PICK c \in Nat, d \in Nat : c = Banners(columns[i]) /\ d = Signs(columns[i])
      BY DEF Banners, Signs
    <3>3. 4 <= x /\ x <= w /\ b >= 4 /\ b + c <= x /\ g >= x /\ g + d <= w
      BY <2>1, <1>2, <3>1, <3>2, ColumnPlace
    <3>4. g >= 4 /\ b + c <= w
      BY <3>3
    <3> QED BY <3>2, <3>3, <3>4
  <2>3. CASE columns[i].type = "INT"
    <3>1. Banners(columns[i]) = 1
      BY <2>3 DEF Banners
    <3>2. m[b + 1] = data[b + 1]
      BY <3>1, <2>2, <1>3
    <3> QED BY <2>1, <2>3, <3>2 DEF DecodedColumn
  <2>4. CASE columns[i].type = "BIGINT"
    <3>1. Banners(columns[i]) = 2
      BY <2>4 DEF Banners
    <3>2. m[b + 1] = data[b + 1] /\ m[b + 2] = data[b + 2]
      BY <3>1, <2>2, <1>3
    <3> QED BY <2>1, <2>4, <3>2 DEF DecodedColumn
  <2>5. CASE columns[i].type = "BOOLEAN"
    <3>1. Banners(columns[i]) = 1
      BY <2>5 DEF Banners
    <3>2. m[b + 1] = data[b + 1]
      BY <3>1, <2>2, <1>3
    <3> QED BY <2>1, <2>5, <3>2 DEF DecodedColumn
  <2>6. CASE columns[i].type = "TEXT"
    <3>1. Signs(columns[i]) = 1
      BY <2>6 DEF Signs
    <3>2. m[g + 1] = data[g + 1]
      BY <3>1, <2>2, <1>3
    <3> QED BY <2>1, <2>6, <3>2 DEF DecodedColumn
  <2>7. CASE columns[i].type \notin {"INT", "BIGINT", "BOOLEAN", "TEXT"}
    BY <2>7 DEF DecodedColumn
  <2> QED BY <2>3, <2>4, <2>5, <2>6, <2>7
<1>5. DOMAIN columns = 1 .. Len(columns)
  BY DEF Tables
<1> QED BY <1>1, <1>4, <1>5 DEF decodeStrip

\* A row marked by the transaction is not visible to it.
LEMMA MarkedInvisible ==
  ASSUME columns \in Tables, NEW data, RowOK(data)
  PROVE  ~isVisible(SubSeq(MarkDeleted(data), 1, stripWidth), Txid)
<1>1. PICK m : m = MarkDeleted(data)
  OBVIOUS
<1>2. RowOK(m) /\ m[3] = EncodeInt64(Txid)[1] /\ m[4] = EncodeInt64(Txid)[2]
  BY <1>1, MarkedRow
<1>3. SubSeq(m, 1, stripWidth) = m
  BY <1>2, WidthTyped DEF RowOK
<1>4. ~IsNull(m[3], m[4])
  BY <1>2, TxidRange, Int64NeverNull
<1>5. ~(DecodeInt64(m[3], m[4]) > Txid)
  <2>1. DecodeInt64(m[3], m[4]) = Txid
    BY <1>2, TxidRange, Int64RoundTrip
  <2> QED BY <2>1, TxidRange
<1> QED BY <1>1, <1>3, <1>4, <1>5, Zenon DEF isVisible

\* The strips after a DELETE of the rows in hit.
Marked(st, hit) == [i \in DOMAIN st |-> IF i \in hit THEN MarkDeleted(st[i]) ELSE st[i]]

\* A scan after the DELETE sees the other rows, with the values they had.
LEMMA ScanMarked ==
  ASSUME columns \in Tables, NEW n \in Nat, NEW st, DOMAIN st = 1 .. n,
         \A i \in 1 .. n : RowOK(st[i]), NEW hit, NEW ts, ts = Marked(st, hit)
  PROVE  /\ \A i \in 1 .. n : RowOK(ts[i])
         /\ AllRows(n, ts) = AllRows(n, st) /\ Visible(n, ts) = Visible(n, st) \ hit
<1>1. \A i \in 1 .. n : ts[i] = IF i \in hit THEN MarkDeleted(st[i]) ELSE st[i]
  BY DEF Marked
<1>2. \A i \in 1 .. n : /\ RowOK(MarkDeleted(st[i]))
                        /\ decodeStrip(MarkDeleted(st[i])) = decodeStrip(st[i])
                        /\ ~isVisible(SubSeq(MarkDeleted(st[i]), 1, stripWidth), Txid)
  BY MarkedRow, MarkedDecodes, MarkedInvisible
<1>3. \A i \in 1 .. n : decodeStrip(ts[i]) = decodeStrip(st[i]) /\ RowOK(ts[i])
  BY <1>1, <1>2
<1>4. AllRows(n, ts) = AllRows(n, st)
  BY <1>3, Zenon DEF AllRows
<1>5. ASSUME NEW i \in 1 .. n
      PROVE  isVisible(SubSeq(ts[i], 1, stripWidth), Txid) <=>
               isVisible(SubSeq(st[i], 1, stripWidth), Txid) /\ i \notin hit
  <2>1. CASE i \in hit
    BY <2>1, <1>1, <1>2
  <2>2. CASE i \notin hit
    BY <2>2, <1>1
  <2> QED BY <2>1, <2>2
<1>6. Visible(n, ts) = Visible(n, st) \ hit
  BY <1>5 DEF Visible
<1> QED BY <1>3, <1>4, <1>6

\* hit has m elements.
Counts(hit, m) == IsFiniteSet(hit) /\ Cardinality(hit) = m

\* Of the first m places f counts exactly those of K in hit.
Hits(f, m, hit, K) == \A k \in 1 .. m : f[k] \in hit <=> k \in K

\* Enumerating a part of an enumeration.
LEMMA EnumerationPart ==
  ASSUME NEW m \in Nat, NEW n \in Nat, NEW K, K \subseteq 1 .. n, NEW V, V \subseteq Int,
         NEW f, Enumerates(f, n, V), NEW g, Enumerates(g, m, K),
         NEW hit, hit = Images(f, Images(g, 1 .. m))
  PROVE  /\ Counts(hit, m)
         /\ Hits(f, n, hit, K)
<1>0. hit = {f[g[k]] : k \in 1 .. m}
  BY DEF Images
<1> DEFINE h == [k \in 1 .. m |-> f[g[k]]]
<1>1. /\ f \in [1 .. n -> V] /\ \A k, l \in 1 .. n : k < l => f[k] < f[l]
      /\ g \in [1 .. m -> K] /\ \A k, l \in 1 .. m : k < l => g[k] < g[l]
      /\ \A u \in K : \E k \in 1 .. m : g[k] = u
  BY DEF Enumerates
<1>2. \A k \in 1 .. m : g[k] \in 1 .. n /\ g[k] \in K
  BY <1>1
<1>3. \A k \in 1 .. m : h[k] = f[g[k]] /\ h[k] \in V /\ h[k] \in hit
  BY <1>0, <1>1, <1>2
<1>4. h \in [1 .. m -> hit]
  BY <1>3
<1>5. \A u \in hit : \E k \in 1 .. m : h[k] = u
  BY <1>0, <1>3
<1>6. \A k, l \in 1 .. m : k < l => h[k] < h[l]
  BY <1>1, <1>2, <1>3
<1> HIDE DEF h
<1>7. Enumerates(h, m, hit)
  BY <1>4, <1>5, <1>6 DEF Enumerates
<1>8. hit \subseteq V /\ hit \subseteq Int
  BY <1>0, <1>3
<1>9. IsFiniteSet(hit) /\ Cardinality(hit) = m
  BY <1>7, <1>8, EnumerationCount
<1>10. ASSUME NEW k \in 1 .. n PROVE f[k] \in hit <=> k \in K
  <2>1. ASSUME k \in K PROVE f[k] \in hit
    <3>1. PICK l \in 1 .. m : g[l] = k
      BY <2>1, <1>1
    <3> QED BY <3>1, <1>0
  <2>2. ASSUME f[k] \in hit PROVE k \in K
    <3>1. PICK l \in 1 .. m : f[k] = f[g[l]]
      BY <2>2, <1>0
    <3>2. PICK j \in 1 .. n : j = g[l] /\ j \in K
      BY <1>2
    <3>3. f[k] = f[j] /\ f[k] \in Int
      BY <3>1, <3>2, <1>1
    <3>4. k = j
      <4>1. ~(k < j)
        BY <3>3, <1>1
      <4>2. ~(j < k)
        BY <3>3, <1>1
      <4> QED BY <4>1, <4>2
    <3> QED BY <3>2, <3>4
  <2> QED BY <2>1, <2>2
<1> QED BY <1>8, <1>9, <1>10 DEF Hits, Counts

\* Taking a part of a finite set away.
LEMMA CountLeft ==
  ASSUME NEW m \in Nat, NEW p \in Nat, NEW V, NEW hit, IsFiniteSet(V), Cardinality(V) = m,
         hit \subseteq V, Cardinality(hit) = p
  PROVE  p = m - Sql!Cardinality(V \ hit)
<1>1. Cardinality(V \ hit) = Cardinality(V) - Cardinality(V \cap hit)
  BY FS_Difference
<1>2. V \cap hit = hit
  OBVIOUS
<1>3. Cardinality(V \ hit) = m - p
  BY <1>1, <1>2
<1>4. Sql!Cardinality(V \ hit) = Cardinality(V \ hit)
  BY DEF Sql!Cardinality, Cardinality, Sql!IsFiniteSet, IsFiniteSet
<1> QED BY <1>3, <1>4

\* The identities of the rows of a scan.
LEMMA ScanIds ==
  ASSUME NEW S, NEW q \in Seq(S), NEW V, NEW h, Enumerates(h, Len(q), V), NEW st, RowsOf(q, h, st)
  PROVE  Sql!Ids(q) = V
<1>1. PICK m \in Nat : m = Len(q) /\ DOMAIN q = 1 .. m
  OBVIOUS
<1>2. \A k \in 1 .. m : q[k].id = h[k] /\ h[k] \in V
  BY <1>1 DEF Enumerates, RowsOf
<1>3. \A u \in V : \E k \in 1 .. m : h[k] = u
  BY <1>1 DEF Enumerates
<1> QED BY <1>1, <1>2, <1>3 DEF Sql!Ids

\* A DELETE removes the rows for which the clause holds, and counts them.
LEMMA DeleteRefines ==
  ASSUME IInv, NEW r \in SqlStatements, r.kind = "delete", GetTable(r), executeDelete(r)
  PROVE  Sql!Delete(r)
<1>1. PICK w \in Clauses : w = r.where
  BY DEF SqlStatements
<1>2. PICK sel : sel = Accepted(w)
  OBVIOUS
<1>3. PICK hit : hit = {sel[k].id : k \in DOMAIN sel}
  OBVIOUS
<1>4. /\ strip' = [i \in DOMAIN strip |-> IF i \in hit THEN MarkDeleted(strip[i]) ELSE strip[i]]
      /\ answer' = DoneAnswer(Len(sel)) /\ shown' = SeqScan(rowCount, strip')
      /\ declared' = declared
  BY <1>1, <1>2, <1>3 DEF executeDelete
<1>5. PICK n \in Nat : n = rowCount
  BY DEF IInv, StripInv
<1>6. PICK st : st = strip
  OBVIOUS
<1>7. columns \in Tables /\ DOMAIN st = 1 .. n /\ \A i \in 1 .. n : RowOK(st[i])
  BY <1>5, <1>6 DEF IInv, SchemaInv, StripInv
<1>8. PICK old \in Seq(ScanRows) : old = shown
  BY ShownRows
<1>9. PICK m \in Nat : m = Len(old) /\ DOMAIN old = 1 .. m
  BY Positions
<1>10. PICK V : V = Visible(n, st)
  OBVIOUS
<1>11. V \subseteq 1 .. n /\ V \subseteq Int
  BY <1>10 DEF Visible
<1>12. PICK f : Enumerates(f, m, V) /\ RowsOf(old, f, st)
  BY <1>5, <1>6, <1>8, <1>9, <1>10, ShownRows
<1>13. \A k \in 1 .. m : ValsTyped(old[k].vals) /\ old[k].id = f[k]
  BY <1>8, <1>9, <1>12, ShownRows DEF RowsOf
<1>14. PICK K : K = {k \in DOMAIN old : evaluateWhere(old[k].vals, parseWhereClause(w))}
  OBVIOUS
<1>15. K \subseteq 1 .. m /\ K \cap (1 .. m) = K
  BY <1>9, <1>14
<1>16. sel \in Seq(ScanRows) /\ sel = Kept(old, K)
  BY <1>2, <1>8, <1>14, AcceptedRows
<1>17. PICK p \in Nat : p = Len(sel) /\ DOMAIN sel = 1 .. p
  BY <1>16, Positions
<1>18. \E g : Enumerates(g, p, K) /\ Selects(sel, g, old)
  BY <1>9, <1>15, <1>16, <1>17, KeptSelects
<1>19. PICK g : Enumerates(g, p, K) /\ Selects(sel, g, old)
  BY <1>18
<1>20. \A k \in 1 .. p : sel[k].id = f[g[k]]
  <2>1. \A k \in 1 .. p : sel[k] = old[g[k]] /\ g[k] \in 1 .. m
    BY <1>15, <1>17, <1>19 DEF Enumerates, Selects
  <2> QED BY <2>1, <1>13
<1>21. hit = Images(f, Images(g, 1 .. p))
  BY <1>3, <1>17, <1>20 DEF Images
<1>22. /\ Cardinality(hit) = p /\ hit \subseteq V
       /\ \A k \in 1 .. m : f[k] \in hit <=> k \in K
  <2>1. V \subseteq Int /\ K \subseteq 1 .. m /\ Enumerates(f, m, V) /\ Enumerates(g, p, K)
    BY <1>11, <1>12, <1>15, <1>19
  <2>2. /\ Counts(hit, p)
        /\ Hits(f, m, hit, K)
    BY <2>1, <1>21, EnumerationPart
  <2>3. hit \subseteq V
    <3>1. \A k \in 1 .. p : g[k] \in 1 .. m
      BY <2>1 DEF Enumerates
    <3>2. \A k \in 1 .. m : f[k] \in V
      BY <2>1 DEF Enumerates
    <3>3. hit = {f[g[k]] : k \in 1 .. p}
      BY <1>21 DEF Images
    <3> QED BY <3>1, <3>2, <3>3
  <2> QED BY <2>2, <2>3 DEF Hits, Counts
<1>23. PICK ts : ts = strip'
  OBVIOUS
<1>24. ts = Marked(st, hit)
  BY <1>4, <1>6, <1>23 DEF Marked
<1>25. /\ \A i \in 1 .. n : RowOK(ts[i])
       /\ AllRows(n, ts) = AllRows(n, st) /\ Visible(n, ts) = V \ hit
  BY <1>7, <1>10, <1>24, ScanMarked
<1>26. PICK a : a = AllRows(n, st)
  OBVIOUS
<1>27. a \in Seq(ScanRows) /\ Len(a) = n
  BY <1>7, <1>26, AllRowsTyped
<1>28. PICK new : new = shown'
  OBVIOUS
<1>29. new = SeqScan(n, ts)
  BY <1>4, <1>5, <1>23, <1>28
<1>30. new = Kept(a, V \ hit)
  BY <1>25, <1>26, <1>29, ScanDef
<1>31. old = Kept(a, V)
  <2>1. old = SeqScan(n, st)
    BY <1>5, <1>6, <1>8 DEF IInv, ShownInv
  <2> QED BY <2>1, <1>10, <1>26, ScanDef
<1>32. PICK left : left = Sql!Ids(new)
  OBVIOUS
<1>33. left = V \ hit
  <2>1. new \in Seq(ScanRows)
        /\ \E h : Enumerates(h, Len(new), V \ hit) /\ RowsOf(new, h, ts)
    BY <1>7, <1>25, <1>29, ScanRowsOf
  <2> QED BY <2>1, <1>32, ScanIds
<1>34. \A i \in 1 .. m : old[i].id \in left <=> i \notin K
  <2>1. \A i \in 1 .. m : f[i] \in V
    BY <1>12 DEF Enumerates
  <2> QED BY <2>1, <1>13, <1>22, <1>33
<1>35. new = Kept(old, {i \in DOMAIN old : old[i].id \in left})
  <2>1. PICK L : L = {i \in DOMAIN old : old[i].id \in left}
    OBVIOUS
  <2>2. PICK M : M = V \ hit
    OBVIOUS
  <2>3. M \cap (1 .. n) = Images(f, L \cap (1 .. m))
    <3>1. M \cap (1 .. n) = M
      BY <2>2, <1>11
    <3>2. ASSUME NEW u \in M PROVE \E k \in L \cap (1 .. m) : f[k] = u
      <4>1. PICK k \in 1 .. m : f[k] = u
        BY <2>2, <1>12 DEF Enumerates
      <4>2. k \in L
        BY <4>1, <2>1, <2>2, <1>9, <1>13, <1>33
      <4> QED BY <4>1, <4>2
    <3>3. ASSUME NEW k \in L \cap (1 .. m) PROVE f[k] \in M
      BY <2>1, <2>2, <1>13, <1>33
    <3> QED BY <3>1, <3>2, <3>3 DEF Images
  <2>4. V \cap (1 .. Len(a)) = V /\ M \cap (1 .. Len(a)) = M \cap (1 .. n)
    BY <1>11, <1>27
  <2>5. Enumerates(f, Len(Kept(a, V)), V \cap (1 .. Len(a)))
    BY <2>4, <1>9, <1>12, <1>31
  <2>6. M \cap (1 .. Len(a)) = Images(f, L \cap (1 .. Len(Kept(a, V))))
    BY <2>3, <2>4, <1>9, <1>31
  <2>7. Kept(Kept(a, V), L) = Kept(a, M)
    BY <2>5, <2>6, <1>27, KeptTwice
  <2> QED BY <2>1, <2>2, <2>7, <1>30, <1>31
<1>36. new = Sql!Kept(old, {i \in DOMAIN old : old[i].id \in left})
  BY <1>35, SameWords
<1>37. p = Len(old) - Sql!Cardinality(left)
  <2>1. IsFiniteSet(V) /\ Cardinality(V) = m
    BY <1>11, <1>12, EnumerationCount
  <2> QED BY <2>1, <1>9, <1>22, <1>33, CountLeft
<1>38. answer' = Sql!DoneAnswer(Len(old) - Sql!Cardinality(left))
  BY <1>4, <1>17, <1>37 DEF DoneAnswer, Sql!DoneAnswer, NoAnswer, Sql!NoAnswer
<1>39. ASSUME NEW i \in DOMAIN old
       PROVE  /\ Sql!Comparable(w) /\ Sql!Matches(w, old[i].vals) => old[i].id \notin left
              /\ Sql!Understood(w) /\ ~Sql!Matches(w, old[i].vals) => old[i].id \in left
  <2>1. SchemaInv /\ ValsTyped(old[i].vals) /\ i \in 1 .. m
    BY <1>9, <1>13 DEF IInv
  <2>2. i \in K <=> evaluateWhere(old[i].vals, parseWhereClause(w))
    BY <1>14
  <2>3. /\ Sql!Understood(w) =>
              (Sql!Matches(w, old[i].vals) <=> evaluateWhere(old[i].vals, parseWhereClause(w)))
        /\ Sql!Comparable(w) /\ Sql!Matches(w, old[i].vals) =>
              evaluateWhere(old[i].vals, parseWhereClause(w))
    BY <2>1, ClauseMatches
  <2> QED BY <2>1, <2>2, <2>3, <1>34
<1> QED BY <1>1, <1>4, <1>8, <1>28, <1>32, <1>36, <1>38, <1>39 DEF Sql!Delete

-----------------------------------------------------------------------------
(* Every step does what SqlTable promises.                                 *)

\* SqlTable's answers are the executor's.
LEMMA SameAnswers ==
  /\ Sql!Idle = Idle /\ Sql!NoAnswer = NoAnswer /\ Sql!ErrorAnswer = ErrorAnswer
  /\ \A n : Sql!DoneAnswer(n) = DoneAnswer(n)
BY DEF Sql!Idle, Idle, Sql!NoAnswer, NoAnswer, Sql!ErrorAnswer, ErrorAnswer,
       Sql!DoneAnswer, DoneAnswer

\* What a client sends is not the mark of an idle server.
LEMMA RequestNotIdle ==
  ASSUME NEW req \in Requests
  PROVE  req # Idle
<1> SUFFICES ASSUME req = Idle PROVE FALSE
  OBVIOUS
<1>1. PICK x : x = [kind |-> "idle", table |-> ""]
  OBVIOUS
<1>2. req \in Seq(SqlStatements)
  BY StatementsAssumption
<1>3. req = <<x>>
  BY <1>1 DEF Idle
<1>4. Len(req) = 1 /\ req[1] = x
  BY <1>3
<1>5. 1 \in 1 .. Len(req)
  BY <1>4
<1>6. PICK S : S = SqlStatements
  OBVIOUS
<1>7. x \in S
  BY <1>2, <1>4, <1>5, <1>6, Element
<1>8. x.kind \in {"create", "insert", "select", "delete", "other"}
  BY <1>6, <1>7 DEF SqlStatements
<1> QED BY <1>1, <1>8

\* The catalog has the table when the table has columns.
LEMMA TableThere ==
  ASSUME SchemaInv, NEW s
  PROVE  /\ columns = <<>> <=> declared = <<>>
         /\ GetTable(s) <=> ~Sql!NoTable(s)
<1>1. columns = <<>> <=> declared = <<>>
  <2>1. PICK S : columns \in Seq(S)
    BY DEF SchemaInv, Tables
  <2>2. PICK T : declared \in Seq(T)
    BY DEF SchemaInv, Schemas
  <2>3. Len(columns) = Len(declared)
    BY DEF SchemaInv
  <2> QED BY <2>1, <2>2, <2>3
<1> QED BY <1>1 DEF GetTable, Sql!NoTable

\* A refused statement changes nothing.
LEMMA RefuseRefines ==
  ASSUME Refuse
  PROVE  Sql!Fails
<1>1. answer' = ErrorAnswer /\ declared' = declared /\ shown' = shown
  BY DEF Refuse, table
<1> QED BY <1>1, SameAnswers DEF Sql!Fails

\* The first CREATE TABLE makes the table, any other is refused.
LEMMA CreateRefines ==
  ASSUME SchemaInv, NEW s, executeCreateTable(s)
  PROVE  Sql!Create(s) \/ (declared # <<>> /\ Sql!Fails)
<1>1. columns = <<>> <=> declared = <<>>
  BY TableThere
<1>2. CASE columns # <<>> /\ Refuse
  BY <1>1, <1>2, RefuseRefines
<1>3. CASE columns = <<>> /\ declared' = s.cols /\ answer' = DoneAnswer(0) /\ shown' = shown
  BY <1>1, <1>3, SameAnswers DEF Sql!Create
<1>4. \/ columns # <<>> /\ Refuse
      \/ columns = <<>> /\ declared' = s.cols /\ answer' = DoneAnswer(0) /\ shown' = shown
  BY DEF executeCreateTable
<1> QED BY <1>2, <1>3, <1>4

\* Execute takes the statement the parser made of the request, and answers.
LEMMA ExecuteTakes ==
  ASSUME IInv, Execute, NEW s, s = Parse(request)
  PROVE  /\ request \in Requests /\ request # Idle /\ answer = NoAnswer /\ answer' # NoAnswer
         /\ request' = request
         /\ \/ s.kind = "other" /\ Refuse
            \/ s.kind = "create" /\ executeCreateTable(s)
            \/ s.kind = "insert" /\ executeInsert(s)
            \/ s.kind = "select" /\ executeSelect(s)
            \/ s.kind = "delete" /\ executeDelete(s)
<1>1. /\ request # Idle /\ answer = NoAnswer /\ request' = request
      /\ \/ s.kind = "other" /\ Refuse
         \/ s.kind = "create" /\ executeCreateTable(s)
         \/ s.kind = "insert" /\ executeInsert(s)
         \/ s.kind = "select" /\ executeSelect(s)
         \/ s.kind = "delete" /\ executeDelete(s)
  BY DEF Execute
<1>2. answer' = ErrorAnswer \/ answer'.kind = "done" \/ answer'.kind = "rows"
  BY <1>1, AnswerTexts DEF executeCreateTable, executeInsert, executeSelect, executeDelete, Refuse
<1>3. answer' # NoAnswer
  BY <1>2, AnswerTexts
<1> QED BY <1>1, <1>3 DEF IInv, RequestInv

\* What SqlTable promises of the statement r.
Promised(r) ==
  \/ r.kind = "other" /\ Sql!Fails
  \/ r.kind = "create" /\ Sql!Create(r)
  \/ r.kind = "create" /\ declared # <<>> /\ Sql!Fails
  \/ r.kind \in {"insert", "select", "delete"} /\ Sql!NoTable(r) /\ Sql!Fails
  \/ r.kind = "insert" /\ ~Sql!NoTable(r) /\ Sql!Insert(r)
  \/ r.kind = "select" /\ ~Sql!NoTable(r) /\ Sql!Select(r)
  \/ r.kind = "delete" /\ ~Sql!NoTable(r) /\ Sql!Delete(r)

\* The statement of a request of one statement has the promised effect.
LEMMA StatementRefines ==
  ASSUME IInv, Execute, request # <<>>, NEW r, r = request[1]
  PROVE  Promised(r)
<1>1. PICK s : s = Parse(request)
  OBVIOUS
<1>2. /\ request \in Requests
      /\ \/ s.kind = "other" /\ Refuse
         \/ s.kind = "create" /\ executeCreateTable(s)
         \/ s.kind = "insert" /\ executeInsert(s)
         \/ s.kind = "select" /\ executeSelect(s)
         \/ s.kind = "delete" /\ executeDelete(s)
  BY <1>1, ExecuteTakes
<1>3. /\ r \in SqlStatements /\ s.kind = r.kind /\ s.table = r.table
      /\ s.kind # "insert" => s = r
      /\ s.kind = "insert" => s = parseInsert(r)
  BY <1>1, <1>2, ParsedRequest
<1>4. SchemaInv
  BY DEF IInv
<1>5. GetTable(s) <=> ~Sql!NoTable(r)
  BY <1>3, <1>4, TableThere DEF GetTable
<1>6. CASE s.kind = "other" /\ Refuse
  BY <1>3, <1>6, RefuseRefines DEF Promised
<1>7. CASE s.kind = "create" /\ executeCreateTable(s)
  BY <1>3, <1>4, <1>7, CreateRefines DEF Promised
<1>8. CASE s.kind \in {"insert", "select", "delete"} /\ ~GetTable(s) /\ Refuse
  BY <1>3, <1>5, <1>8, RefuseRefines DEF Promised
<1>9. CASE s.kind = "insert" /\ executeInsert(s) /\ GetTable(s)
  BY <1>3, <1>5, <1>9, InsertRefines DEF Promised
<1>10. CASE s.kind = "select" /\ executeSelect(s) /\ GetTable(s)
  BY <1>3, <1>5, <1>10, SelectRefines DEF Promised
<1>11. CASE s.kind = "delete" /\ executeDelete(s) /\ GetTable(s)
  BY <1>3, <1>5, <1>11, DeleteRefines DEF Promised
<1>12. s.kind \in {"insert", "select", "delete"} /\ ~GetTable(s) => Refuse
  BY <1>2 DEF executeInsert, executeSelect, executeDelete
<1> QED BY <1>2, <1>6, <1>7, <1>8, <1>9, <1>10, <1>11, <1>12

\* Execute does what SqlTable promises.
LEMMA ExecuteRefines ==
  ASSUME IInv, Execute
  PROVE  Sql!Execute
<1>1. PICK s : s = Parse(request)
  OBVIOUS
<1>2. /\ request \in Requests /\ request # Idle /\ answer = NoAnswer /\ answer' # NoAnswer
      /\ request' = request
  BY <1>1, ExecuteTakes
<1>3. request \in Seq(SqlStatements) /\ Len(request) \in Nat
  BY <1>2, StatementsAssumption
<1>4. /\ request # Sql!Idle /\ answer = Sql!NoAnswer /\ answer' # Sql!NoAnswer
      /\ UNCHANGED request
  BY <1>2, SameAnswers
<1>5. CASE Len(request) = 0
  <2>1. request = <<>>
    BY <1>3, <1>5
  <2>2. s.kind = "other"
    BY <2>1, <1>1, <1>2, ParsedRequest
  <2>3. Refuse
    BY <2>2, <1>1, ExecuteTakes
  <2> QED BY <1>4, <1>5, <2>3, RefuseRefines DEF Sql!Execute
<1>6. CASE Len(request) > 1
  BY <1>4, <1>6 DEF Sql!Execute
<1>7. CASE Len(request) = 1
  <2>1. request # <<>>
    BY <1>7
  <2>2. Promised(request[1])
    BY <2>1, StatementRefines
  <2> QED BY <1>4, <1>7, <2>2 DEF Promised, Sql!Execute
<1>8. Len(request) = 0 \/ Len(request) = 1 \/ Len(request) > 1
  <2>1. PICK n \in Nat : n = Len(request)
    BY <1>3
  <2> QED BY <2>1
<1> QED BY <1>5, <1>6, <1>7, <1>8

\* Every step does what SqlTable promises, or nothing that it speaks of.
LEMMA StepRefines == IInv /\ [Next]_vars => [Sql!Next]_(Sql!svars)
<1> SUFFICES ASSUME IInv, [Next]_vars PROVE [Sql!Next]_(Sql!svars)
  OBVIOUS
<1>1. CASE UNCHANGED vars
  BY <1>1 DEF vars, table, Sql!svars
<1>2. ASSUME NEW req \in Requests, Receive(req) PROVE Sql!Next
  <2>1. /\ request = Idle /\ request' = req /\ declared' = declared /\ shown' = shown
        /\ answer' = answer
    BY <1>2 DEF Receive, table
  <2>2. request' # Idle
    BY <2>1, RequestNotIdle
  <2> QED BY <2>1, <2>2, SameAnswers DEF Sql!Next, Sql!Receive
<1>3. CASE Execute
  BY <1>3, ExecuteRefines DEF Sql!Next
<1>4. CASE Reply
  <2>1. /\ answer # NoAnswer /\ request' = Idle /\ answer' = NoAnswer
        /\ declared' = declared /\ shown' = shown
    BY <1>4 DEF Reply, table
  <2> QED BY <2>1, SameAnswers DEF Sql!Next, Sql!Reply
<1> QED BY <1>1, <1>2, <1>3, <1>4 DEF Next

\* The first state is one of SqlTable's.
LEMMA InitRefines == Init => Sql!Init
BY SameAnswers DEF Init, Sql!Init

\* For every bound on the rows and every set of requests: each statement has the
\* effect and the answer that SqlTable promises.  Values that fit come back as they
\* were given whatever the other columns are, an understood clause selects and
\* deletes exactly the rows that SQL selects, and every count is right.
THEOREM StatementsImplementsSql == Spec => ImplementsSql
<1> QED BY SpecInv, InitRefines, StepRefines, PTL DEF Spec, ImplementsSql, Sql!Spec

=============================================================================
