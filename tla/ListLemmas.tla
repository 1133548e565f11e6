------------------------------ MODULE ListLemmas ------------------------------
(***************************************************************************)
(* Lemmas about lists and numbers that the proofs of several components    *)
(* use: least numbers, pairs, and what FlattenSeq makes of a list of lists. *)
(***************************************************************************)
EXTENDS Integers, Sequences, FiniteSets, SequencesExt, FiniteSetTheorems, SequenceTheorems, TLAPS

(* Every set of numbers has a least one: a beginning 0 .. n of the numbers   *)
(* has no infinite descent into smaller ones.                                *)
LEMMA LeastNumber ==
  ASSUME NEW T \in SUBSET Nat, T # {}
  PROVE  \E x \in T : \A y \in T : x <= y
<1> DEFINE R == StrictSubsetOrdering(Nat)
           U == {0 .. n : n \in T}
<1>1. IsWellFoundedOn(R, FiniteSubsetsOf(Nat))
  BY FS_StrictSubsetOrderingWellFounded
<1>2. U \subseteq FiniteSubsetsOf(Nat) /\ U # {}
  <2>1. ASSUME NEW n \in T PROVE 0 .. n \in FiniteSubsetsOf(Nat)
    <3>1. n \in Int /\ 0 \in Int /\ 0 .. n \in SUBSET Nat
      OBVIOUS
    <3>2. IsFiniteSet(0 .. n)
      BY <3>1, FS_Interval
    <3> QED BY <3>1, <3>2 DEF FiniteSubsetsOf
  <2> QED BY <2>1
<1>3. PICK s \in U : \A t \in U : ~ (<<t, s>> \in R)
  <2> HIDE DEF R, U
  <2> QED BY <1>1, <1>2, WFMin
<1>4. PICK x \in T : s = 0 .. x
  OBVIOUS
<1>5. ASSUME NEW y \in T PROVE x <= y
  <2>1. ~ (<<0 .. y, 0 .. x>> \in R)
    BY <1>3, <1>4
  <2>2. CASE y < x
    <3>1. 0 .. y \in SUBSET Nat /\ 0 .. x \in SUBSET Nat
      OBVIOUS
    <3>2. x \in 0..x /\ x \notin 0..y /\ 0 .. y \subseteq 0..x
      BY <2>2
    <3>3. <<0 .. y, 0 .. x>> \in R
      BY <3>1, <3>2 DEF StrictSubsetOrdering
    <3> QED BY <2>1, <3>3
  <2> QED BY <2>2
<1> QED BY <1>5

------------------------------------------------------------------------------
(* Lists of lists, one after the other. *)

JoinedSoFar(ss) ==
  CHOOSE f : f = [i \in 1 .. Len(ss) |-> IF i = 1 THEN ss[i] ELSE f[i - 1] \o ss[i]]

LEMMA FlattenIsLast ==
  ASSUME NEW ss
  PROVE  FlattenSeq(ss) = IF Len(ss) = 0 THEN ss ELSE JoinedSoFar(ss)[Len(ss)]
BY Zenon DEF FlattenSeq, JoinedSoFar

Joins(f, ss, n) ==
  f = [i \in 1 .. n |-> IF i = 1 THEN ss[i] ELSE f[i - 1] \o ss[i]]

LEMMA JoinsExist ==
  ASSUME NEW S, NEW ss \in Seq(Seq(S)), NEW n \in 0..Len(ss)
  PROVE  \E f \in [1..n -> Seq(S)] : Joins(f, ss, n)
<1>1. Len(ss) \in Nat /\ \A i \in 1..Len(ss) : ss[i] \in Seq(S)
  BY ElementOfSeq
<1> DEFINE T == {k \in 0..Len(ss) : ~\E f \in [1..k -> Seq(S)] : Joins(f, ss, k)}
<1> SUFFICES T = {}
  OBVIOUS
<1> SUFFICES ASSUME T # {} PROVE FALSE
  OBVIOUS
<1>2. T \in SUBSET Nat
  BY <1>1
<1> HIDE DEF T
<1>3. PICK x \in T : \A y \in T : x <= y
  BY <1>2, LeastNumber
<1>4. x \in 0..Len(ss) /\ x \in Nat
  BY <1>1 DEF T
<1>5. x # 0
  <2>1. [i \in 1..0 |-> <<>>] \in [1..0 -> Seq(S)]
    OBVIOUS
  <2>2. Joins([i \in 1..0 |-> <<>>], ss, 0)
    BY DEF Joins
  <2> QED BY <2>1, <2>2 DEF T
<1>6. PICK f \in [1..x - 1 -> Seq(S)] : Joins(f, ss, x - 1)
  <2>1. x - 1 \in 0..Len(ss) /\ x - 1 \notin T
    BY <1>1, <1>3, <1>4, <1>5
  <2> QED BY <2>1 DEF T
<1>7. PICK last \in Seq(S) : last = IF x = 1 THEN ss[1] ELSE f[x - 1] \o ss[x]
  <2>1. CASE x = 1
    BY <1>1, <1>4, <2>1
  <2>2. CASE x # 1
    <3>1. f[x - 1] \in Seq(S) /\ ss[x] \in Seq(S)
      BY <1>1, <1>4, <1>5, <2>2
    <3> QED BY <2>2, <3>1, ConcatProperties
  <2> QED BY <2>1, <2>2
<1> DEFINE g == [i \in 1..x |-> IF i = x THEN last ELSE f[i]]
<1>8. g \in [1..x -> Seq(S)]
  BY <1>4
<1>9. g = [i \in 1..x |-> IF i = 1 THEN ss[i] ELSE g[i - 1] \o ss[i]]
  <2>1. ASSUME NEW i \in 1..x
        PROVE  g[i] = IF i = 1 THEN ss[i] ELSE g[i - 1] \o ss[i]
    <3>1. CASE i = x
      <4>1. x # 1 => g[x - 1] = f[x - 1]
        BY <1>4, <1>5
      <4> QED BY <1>7, <3>1, <4>1
    <3>2. CASE i # x
      <4>1. i \in 1..x - 1 /\ g[i] = f[i]
        BY <1>4, <3>2
      <4>2. f[i] = IF i = 1 THEN ss[i] ELSE f[i - 1] \o ss[i]
        BY <1>6, <4>1 DEF Joins
      <4>3. i # 1 => g[i - 1] = f[i - 1]
        BY <1>4, <4>1
      <4> QED BY <4>1, <4>2, <4>3
    <3> QED BY <3>1, <3>2
  <2> HIDE DEF g
  <2> DEFINE e(i) == IF i = 1 THEN ss[i] ELSE g[i - 1] \o ss[i]
  <2>2. \A i \in 1..x : g[i] = e(i)
    BY <2>1
  <2> HIDE DEF e
  <2>3. g = [i \in 1..x |-> e(i)]
    BY <1>8, <2>2
  <2> QED BY <2>3 DEF e
<1>10. x \notin T
  <2> HIDE DEF g
  <2> QED BY <1>8, <1>9 DEF T, Joins
<1> QED BY <1>3, <1>10

LEMMA JoinsAgree ==
  ASSUME NEW ss, NEW tt, NEW n \in Nat, NEW m \in Nat,
         n <= m, NEW f, NEW g, Joins(f, ss, n), Joins(g, tt, m),
         \A i \in 1..n : ss[i] = tt[i]
  PROVE  \A i \in 1..n : f[i] = g[i]
<1> DEFINE T == {k \in 1..n : f[k] # g[k]}
<1> SUFFICES ASSUME T # {} PROVE FALSE
  OBVIOUS
<1>1. T \in SUBSET Nat
  OBVIOUS
<1> HIDE DEF T
<1>2. PICK x \in T : \A y \in T : x <= y
  BY <1>1, LeastNumber
<1>3. x \in 1..n /\ x \in 1..m /\ f[x] # g[x]
  BY <1>2 DEF T
<1>4. f[x] = IF x = 1 THEN ss[x] ELSE f[x - 1] \o ss[x]
  BY <1>3 DEF Joins
<1>5. g[x] = IF x = 1 THEN tt[x] ELSE g[x - 1] \o tt[x]
  BY <1>3 DEF Joins
<1>6. x # 1 => f[x - 1] = g[x - 1]
  <2> SUFFICES ASSUME x # 1 PROVE f[x - 1] = g[x - 1]
    OBVIOUS
  <2>1. x - 1 \in 1..n /\ x - 1 \notin T
    BY <1>2, <1>3
  <2> QED BY <2>1 DEF T
<1> QED BY <1>3, <1>4, <1>5, <1>6

LEMMA JoinsOfMore ==
  ASSUME NEW ss, NEW tt, NEW n \in Nat, NEW f, NEW g, Joins(f, ss, n), Joins(g, tt, n + 1),
         \A i \in 1..n : ss[i] = tt[i]
  PROVE  \A i \in 1..n : f[i] = g[i]
<1>1. n + 1 \in Nat /\ n <= n + 1
  OBVIOUS
<1> QED BY <1>1, JoinsAgree

LEMMA JoinedSoFarJoins ==
  ASSUME NEW S, NEW ss \in Seq(Seq(S))
  PROVE  Joins(JoinedSoFar(ss), ss, Len(ss)) /\ JoinedSoFar(ss) \in [1..Len(ss) -> Seq(S)]
<1>1. Len(ss) \in 0..Len(ss) /\ Len(ss) \in Nat
  OBVIOUS
<1>2. PICK f \in [1..Len(ss) -> Seq(S)] : Joins(f, ss, Len(ss))
  BY <1>1, JoinsExist
<1>3. Joins(JoinedSoFar(ss), ss, Len(ss))
  BY <1>2 DEF Joins, JoinedSoFar
<1>4. \A i \in 1..Len(ss) : JoinedSoFar(ss)[i] = f[i]
  <2> QED BY <1>1, <1>2, <1>3, JoinsAgree
<1>5. DOMAIN JoinedSoFar(ss) = 1..Len(ss) /\ JoinedSoFar(ss) = [i \in 1..Len(ss) |-> JoinedSoFar(ss)[i]]
  BY <1>3 DEF Joins
<1>6. JoinedSoFar(ss) = f
  BY <1>2, <1>4, <1>5
<1> QED BY <1>2, <1>6

(* What lists of lists give is a list of the same things.                    *)
LEMMA FlattenType ==
  ASSUME NEW S, NEW ss \in Seq(Seq(S))
  PROVE  FlattenSeq(ss) \in Seq(S)
<1>1. CASE Len(ss) = 0
  <2>1. ss = <<>> /\ <<>> \in Seq(S)
    BY <1>1, EmptySeq
  <2> QED BY <1>1, <2>1, FlattenIsLast
<1>2. CASE Len(ss) # 0
  <2>1. Len(ss) \in 1..Len(ss)
    BY <1>2
  <2>2. JoinedSoFar(ss)[Len(ss)] \in Seq(S)
    BY <2>1, JoinedSoFarJoins
  <2> QED BY <1>2, <2>2, FlattenIsLast
<1> QED BY <1>1, <1>2

LEMMA FlattenEmpty == FlattenSeq(<<>>) = <<>>
BY FlattenIsLast

LEMMA FlattenOneMore ==
  ASSUME NEW ss, NEW tt, NEW s, NEW n \in Nat, n # 0, Len(ss) = n, Len(tt) = n + 1,
         tt[n + 1] = s, \A i \in 1..n : ss[i] = tt[i],
         Joins(JoinedSoFar(ss), ss, n), Joins(JoinedSoFar(tt), tt, n + 1)
  PROVE  FlattenSeq(tt) = FlattenSeq(ss) \o s
<1>1. PICK f, g : f = JoinedSoFar(ss) /\ g = JoinedSoFar(tt)
  OBVIOUS
<1>2. Joins(f, ss, n) /\ Joins(g, tt, n + 1)
  BY <1>1
<1>3. g[n + 1] = g[n] \o s
  <2>1. PICK m : m = n + 1 /\ m \in 1..m /\ m # 1 /\ m - 1 = n
    OBVIOUS
  <2>2. Joins(g, tt, m)
    BY <1>2, <2>1
  <2>3. g[m] = g[m - 1] \o tt[m]
    BY <2>1, <2>2 DEF Joins
  <2> QED BY <2>1, <2>3
<1>4. \A i \in 1..n : f[i] = g[i]
  BY <1>2, JoinsOfMore
<1>5. f[n] = g[n] /\ n + 1 # 0
  BY <1>4
<1> QED BY <1>1, <1>3, <1>5, FlattenIsLast

(* One list more is joined to the others.                                    *)
LEMMA FlattenAppend ==
  ASSUME NEW S, NEW ss \in Seq(Seq(S)), NEW s \in Seq(S)
  PROVE  FlattenSeq(Append(ss, s)) = FlattenSeq(ss) \o s
<1>0. PICK n, tt : n = Len(ss) /\ tt = Append(ss, s)
  OBVIOUS
<1>1. /\ tt \in Seq(Seq(S)) /\ Len(tt) = n + 1 /\ tt[n + 1] = s
      /\ \A i \in 1..n : ss[i] = tt[i]
  BY <1>0, AppendProperties
<1>2. n \in Nat /\ Len(ss) = n
  BY <1>0
<1>3. Joins(JoinedSoFar(tt), tt, n + 1) /\ Joins(JoinedSoFar(ss), ss, n)
  <2>1. Joins(JoinedSoFar(tt), tt, Len(tt)) /\ Joins(JoinedSoFar(ss), ss, Len(ss))
    BY <1>1, JoinedSoFarJoins
  <2> QED BY <1>1, <1>2, <2>1
<1>4. CASE n = 0
  <2>1. ss = <<>> /\ FlattenSeq(ss) = <<>>
    BY <1>0, <1>4, EmptySeq, FlattenEmpty
  <2>2. <<>> \o s = s
    BY ConcatEmptySeq
  <2>3. JoinedSoFar(tt)[1] = tt[1]
    <3>1. PICK g : g = JoinedSoFar(tt)
      OBVIOUS
    <3>2. Joins(g, tt, 1)
      BY <1>3, <1>4, <3>1
    <3>3. g[1] = tt[1]
      BY <3>2 DEF Joins
    <3> QED BY <3>1, <3>3
  <2>4. Len(tt) = 1 /\ tt[1] = s
    BY <1>1, <1>4
  <2>5. FlattenSeq(tt) = s
    <3>1. Len(tt) # 0
      BY <2>4
    <3>2. FlattenSeq(tt) = JoinedSoFar(tt)[Len(tt)]
      BY <3>1, FlattenIsLast
    <3> QED BY <2>3, <2>4, <3>2
  <2> QED BY <1>0, <2>1, <2>2, <2>5
<1>5. CASE n # 0
  <2>1. FlattenSeq(tt) = FlattenSeq(ss) \o s
    BY <1>1, <1>2, <1>3, <1>5, FlattenOneMore
  <2> QED BY <1>0, <2>1
<1> QED BY <1>4, <1>5

LEMMA PairIsTwo ==
  ASSUME NEW a, NEW b, a # b
  PROVE  Cardinality({a, b}) = 2
<1>1. IsFiniteSet({a}) /\ Cardinality({a}) = 1 /\ b \notin {a} /\ {a, b} = {a} \cup {b}
  BY FS_Singleton
<1> QED BY <1>1, FS_AddElement
==============================================================================
