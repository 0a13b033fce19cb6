------------------------------ MODULE TableFacts ------------------------------
(***************************************************************************)
(* What the proofs use of sequences that stand for tables: a row is added  *)
(* at the end, replaced in place, and never removed.  The rows themselves  *)
(* are any values.  That `orderBy: createdAt` has a first row; and how the *)
(* sum of a column moves with its rows.                                    *)
(***************************************************************************)
EXTENDS Integers, Sequences, Sums, FiniteSetTheorems, WellFoundedInduction, TLAPS

IsSeq(s) == \E S : s \in Seq(S)

\* The indices of a table are its ids.
LEMMA SeqIds ==
  ASSUME NEW s, IsSeq(s) PROVE Len(s) \in Nat /\ DOMAIN s = 1..Len(s)
BY DEF IsSeq

\* The empty table.
LEMMA SeqEmpty == IsSeq(<<>>) /\ Len(<<>>) = 0 /\ DOMAIN <<>> = {}
<1>1. <<>> \in Seq({}) /\ Len(<<>>) = 0 OBVIOUS
<1> QED BY <1>1 DEF IsSeq

\* create: the new row gets the next id and the others keep theirs.
LEMMA SeqAppend ==
  ASSUME NEW s, IsSeq(s), NEW e
  PROVE  /\ IsSeq(Append(s, e)) /\ Len(Append(s, e)) = Len(s) + 1
         /\ DOMAIN Append(s, e) = 1..(Len(s) + 1)
         /\ \A i \in DOMAIN s : Append(s, e)[i] = s[i]
         /\ Append(s, e)[Len(s) + 1] = e
<1>1. PICK S : s \in Seq(S) BY DEF IsSeq
<1>2. s \in Seq(S \cup {e}) BY <1>1
<1>3. /\ Append(s, e) \in Seq(S \cup {e}) /\ Len(Append(s, e)) = Len(s) + 1
      /\ DOMAIN Append(s, e) = 1..(Len(s) + 1)
  BY <1>2
<1>4. /\ \A i \in DOMAIN s : Append(s, e)[i] = s[i]
      /\ Append(s, e)[Len(s) + 1] = e
  BY <1>2
<1> QED BY <1>3, <1>4 DEF IsSeq

\* Updates of many rows: any function on the same ids is a table of that length.
LEMMA SeqUpdate ==
  ASSUME NEW s, IsSeq(s), NEW u, u = [i \in DOMAIN s |-> u[i]]
  PROVE  IsSeq(u) /\ Len(u) = Len(s) /\ DOMAIN u = DOMAIN s
<1> DEFINE S == {u[i] : i \in DOMAIN s}
<1>1. DOMAIN s = 1..Len(s) /\ Len(s) \in Nat BY SeqIds
<1>2. u \in [1..Len(s) -> S] BY <1>1
<1>3. u \in Seq(S) BY <1>1, <1>2
<1>4. DOMAIN u = DOMAIN s /\ Len(u) = Len(s) BY <1>1, <1>2, <1>3
<1> QED BY <1>3, <1>4 DEF IsSeq

\* update by id: one row is replaced.
LEMMA SeqReplace ==
  ASSUME NEW s, IsSeq(s), NEW i, NEW e
  PROVE  LET u == [s EXCEPT ![i] = e]
         IN  /\ IsSeq(u) /\ Len(u) = Len(s) /\ DOMAIN u = DOMAIN s
             /\ \A j \in DOMAIN s : u[j] = IF j = i THEN e ELSE s[j]
<1> DEFINE u == [s EXCEPT ![i] = e]
<1>1. PICK S : s \in Seq(S) BY DEF IsSeq
<1>2. DOMAIN s = 1..Len(s) /\ Len(s) \in Nat /\ s \in [1..Len(s) -> S \cup {e}] BY <1>1
<1>3. u \in [1..Len(s) -> S \cup {e}] BY <1>2
<1>4. u \in Seq(S \cup {e}) BY <1>2, <1>3
<1>5. DOMAIN u = DOMAIN s /\ Len(u) = Len(s) BY <1>2, <1>3, <1>4
<1>6. \A j \in DOMAIN s : u[j] = IF j = i THEN e ELSE s[j] BY <1>2
<1> QED BY <1>4, <1>5, <1>6 DEF IsSeq

\* The oldest of some rows: a set of ids that is not empty has a least one.
LEMMA LeastId ==
  ASSUME NEW S \in SUBSET Nat, S # {} PROVE \E i \in S : \A j \in S : i <= j
<1> DEFINE R == OpToRel(<, Nat)
<1>1. IsWellFoundedOn(R, Nat) BY NatLessThanWellFounded
<1> HIDE DEF R
<1>2. PICK x \in S : \A y \in S : ~(<<y, x>> \in R) BY <1>1, WFMin
<1>3. \A y \in S : y < x => <<y, x>> \in R BY DEF R, OpToRel
<1>4. x \in Nat /\ \A y \in S : y \in Nat /\ ~(y < x) BY <1>2, <1>3
<1> QED BY <1>4

-----------------------------------------------------------------------------
(* Sums *)

\* A column: whole amounts, finitely many.
Column(f) == /\ f = [i \in DOMAIN f |-> f[i]] /\ IsFiniteSet(DOMAIN f)
             /\ \A i \in DOMAIN f : f[i] \in Nat

\* A unit belongs to one row and has a place in it.
LEMMA UnitsAre ==
  ASSUME NEW f, NEW x
  PROVE  x \in Units(f) <=> \E i \in DOMAIN f : \E k \in 1..f[i] : x = <<i, k>>
BY DEF Units

\* A column has finitely many units.
LEMMA SumIsNat ==
  ASSUME NEW f, Column(f) PROVE IsFiniteSet(Units(f)) /\ SumOf(f) \in Nat
<1> DEFINE D == DOMAIN f
           g == [i \in D |-> {i} \X (1..f[i])]
           G == {{i} \X (1..f[i]) : i \in D}
<1>1. IsFiniteSet(D) BY DEF Column
<1>2. g \in Surjection(D, G) BY DEF Surjection
<1>3. IsFiniteSet(G) BY <1>1, <1>2, FS_Surjection
<1>4. ASSUME NEW T \in G PROVE IsFiniteSet(T)
  <2>1. PICK i \in D : T = {i} \X (1..f[i]) OBVIOUS
  <2>2. f[i] \in Nat BY DEF Column
  <2>3. IsFiniteSet(1..f[i]) BY <2>2, FS_Interval
  <2>4. IsFiniteSet({i}) BY FS_Singleton
  <2> QED BY <2>1, <2>3, <2>4, FS_Product
<1>5. Units(f) = UNION G BY DEF Units
<1> HIDE DEF G, D, g
<1>6. IsFiniteSet(Units(f)) BY <1>3, <1>4, <1>5, FS_UNION
<1> QED BY <1>6, FS_CardinalityType DEF SumOf

\* An empty column sums to nothing.
LEMMA SumOfNone == ASSUME NEW f, DOMAIN f = {} PROVE SumOf(f) = 0
<1>1. Units(f) = {} BY DEF Units
<1> QED BY <1>1, FS_EmptySet DEF SumOf

\* More rows, and more in each of them, sum to more; a row with nothing in it
\* may be missing.
LEMMA SumGrows ==
  ASSUME NEW f, NEW g, Column(f), Column(g),
         \A i \in DOMAIN f : f[i] = 0 \/ (i \in DOMAIN g /\ f[i] <= g[i])
  PROVE  SumOf(f) <= SumOf(g)
<1>1. Units(f) \subseteq Units(g)
  <2>1. ASSUME NEW i \in DOMAIN f, NEW k \in 1..f[i] PROVE i \in DOMAIN g /\ k \in 1..g[i]
    BY DEF Column
  <2> QED BY <2>1, UnitsAre
<1>2. IsFiniteSet(Units(g)) BY SumIsNat
<1> QED BY <1>1, <1>2, FS_Subset DEF SumOf

\* A new row adds what it holds.
LEMMA SumOfOneMore ==
  ASSUME NEW f, NEW g, Column(f), NEW x, NEW n \in Nat, x \notin DOMAIN f,
         g = [i \in DOMAIN f \cup {x} |-> IF i = x THEN n ELSE f[i]]
  PROVE  Column(g) /\ SumOf(g) = SumOf(f) + n
<1> DEFINE X == {x} \X (1..n)
<1>1. Column(g)
  <2>1. IsFiniteSet(DOMAIN f \cup {x}) BY FS_AddElement DEF Column
  <2> QED BY <2>1 DEF Column
<1>2. Units(g) = Units(f) \cup X BY DEF Units
<1>3. Units(f) \cap X = {}
  <2>1. ASSUME NEW u, u \in Units(f), u \in X PROVE FALSE
    <3>1. PICK i \in DOMAIN f : \E k \in 1..f[i] : u = <<i, k>> BY <2>1, UnitsAre
    <3>2. u[1] = i /\ u[1] = x BY <2>1, <3>1
    <3> QED BY <3>2
  <2> QED BY <2>1
<1>4. IsFiniteSet(Units(f)) /\ Cardinality(Units(f)) \in Nat BY SumIsNat DEF SumOf
<1>5. IsFiniteSet(X) /\ Cardinality(X) = n
  <2>1. IsFiniteSet({x}) /\ Cardinality({x}) = 1 BY FS_Singleton
  <2>2. IsFiniteSet(1..n) /\ Cardinality(1..n) = n BY FS_Interval
  <2>3. IsFiniteSet(X) /\ Cardinality(X) = Cardinality({x}) * Cardinality(1..n)
    BY <2>1, <2>2, FS_Product
  <2>4. Cardinality(X) = 1 * n BY <2>1, <2>2, <2>3
  <2> QED BY <2>3, <2>4
<1> HIDE DEF X
<1>6. Cardinality(Units(f) \cup X) = Cardinality(Units(f)) + Cardinality(X) - Cardinality(Units(f) \cap X)
  BY <1>4, <1>5, FS_Union
<1>7. Cardinality(Units(f) \cap X) = 0 BY <1>3, FS_EmptySet
<1>8. PICK a \in Nat : a = Cardinality(Units(f)) BY <1>4
<1>9. Cardinality(Units(f) \cup X) = a + n - 0 BY <1>5, <1>6, <1>7, <1>8
<1>10. a + n - 0 = a + n BY <1>8
<1>11. SumOf(f) = a BY <1>8 DEF SumOf
<1>12. SumOf(g) = a + n BY <1>2, <1>9, <1>10, Zenon DEF SumOf
<1> QED BY <1>1, <1>11, <1>12

\* Rows that move to other places sum to no more than where they went.
LEMMA SumMoved ==
  ASSUME NEW f, NEW g, Column(f), Column(g), NEW h \in Injection(DOMAIN f, DOMAIN g),
         \A i \in DOMAIN f : f[i] = g[h[i]]
  PROVE  SumOf(f) <= SumOf(g)
<1> DEFINE m == [u \in Units(f) |-> <<h[u[1]], u[2]>>]
<1>1. ASSUME NEW u \in Units(f)
      PROVE  /\ u = <<u[1], u[2]>> /\ u[1] \in DOMAIN f /\ u[2] \in 1..f[u[1]]
             /\ h[u[1]] \in DOMAIN g
  BY UnitsAre DEF Injection
<1>2. ASSUME NEW u \in Units(f) PROVE m[u] \in Units(g)
  <2>1. u[2] \in 1..g[h[u[1]]] BY <1>1
  <2> QED BY <1>1, <2>1, UnitsAre
<1>3. ASSUME NEW u \in Units(f), NEW v \in Units(f), m[u] = m[v] PROVE u = v
  <2>1. h[u[1]] = h[v[1]] /\ u[2] = v[2] BY <1>3
  <2>2. u[1] = v[1] BY <1>1, <2>1 DEF Injection, IsInjective
  <2> QED BY <1>1, <2>1, <2>2
<1>4. m \in Injection(Units(f), Units(g)) BY <1>2, <1>3 DEF Injection, IsInjective
<1>5. IsFiniteSet(Units(g)) BY SumIsNat
<1> HIDE DEF m
<1> QED BY <1>4, <1>5, FS_Injection DEF SumOf
=============================================================================
