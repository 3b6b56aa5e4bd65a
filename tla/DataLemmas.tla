---------------------------- MODULE DataLemmas ----------------------------
(***************************************************************************)
(* Facts about numbers, sequences and sums that the proofs about logging   *)
(* need.                                                                   *)
(*                                                                         *)
(* The induction theorems of the library take the induction hypothesis as  *)
(* an operator, which the provers cannot instantiate.  InductNat takes it  *)
(* as a set: what the recursive FlattenSeq and MapThenSumSet compute is    *)
(* proved with it.                                                         *)
(***************************************************************************)
EXTENDS SequencesExt, SequenceTheorems, FiniteSetTheorems, WellFoundedInduction,
        TLAPS

(* A nonempty set of natural numbers has a least element.                  *)
LEMMA LeastNat ==
  ASSUME NEW S, S \subseteq Nat, S # {}
  PROVE  \E x \in S : \A y \in S : x <= y
<1>1. PICK x \in S : \A y \in S : ~ (<<y, x>> \in OpToRel(<, Nat))
  BY NatLessThanWellFounded, WFMin, Zenon
<1>2. \A y \in S : x <= y
  <2> SUFFICES ASSUME NEW y \in S PROVE x <= y
    OBVIOUS
  <2>1. x \in Nat /\ y \in Nat
    OBVIOUS
  <2>2. y < x => <<y, x>> \in OpToRel(<, Nat)
    BY <2>1 DEF OpToRel
  <2>3. ~ (y < x)
    BY <1>1, <2>2, Zenon
  <2> QED BY <2>1, <2>3
<1> QED BY <1>2

(* Induction over a set of natural numbers.                                *)
LEMMA InductNat ==
  ASSUME NEW S, 0 \in S, \A n \in Nat : n \in S => n + 1 \in S
  PROVE  Nat \subseteq S
<1> SUFFICES ASSUME Nat \ S # {} PROVE FALSE
  OBVIOUS
<1>1. PICK x \in Nat \ S : \A y \in Nat \ S : x <= y
  BY LeastNat, Zenon
<1>2. x # 0 /\ x - 1 \in Nat /\ x - 1 \notin Nat \ S
  BY <1>1
<1> QED BY <1>2

(* f holds the concatenations of the prefixes of s.                        *)
Flattens(f, s) ==
  f = [i \in 1..Len(s) |-> IF i = 1 THEN s[i] ELSE f[i-1] \o s[i]]

LEMMA FlattenDef ==
  ASSUME NEW T, NEW s \in Seq(Seq(T)), Len(s) # 0
  PROVE  FlattenSeq(s) = (CHOOSE f : Flattens(f, s))[Len(s)]
BY Zenon DEF FlattenSeq, Flattens
(* the equations of f, one by one                                          *)
LEMMA FlattensAt ==
  ASSUME NEW f, NEW s, Flattens(f, s), NEW i \in 1..Len(s)
  PROVE  f[i] = IF i = 1 THEN s[i] ELSE f[i-1] \o s[i]
<1> DEFINE F == [j \in 1..Len(s) |-> IF j = 1 THEN s[j] ELSE f[j-1] \o s[j]]
<1>1. f = F
  BY Zenon DEF Flattens
<1>2. F[i] = IF i = 1 THEN s[i] ELSE f[i-1] \o s[i]
  BY Zenon
<1> HIDE DEF F
<1> QED BY <1>1, <1>2, Zenon

(* There is such an f: it is extended one sequence at a time.              *)
LEMMA FlattensExists ==
  ASSUME NEW T, NEW s \in Seq(Seq(T))
  PROVE  \E f \in [1..Len(s) -> Seq(T)] : Flattens(f, s)
<1> DEFINE Good(f, n) == /\ f \in [1..n -> Seq(T)]
                         /\ \A i \in 1..n : f[i] = IF i = 1 THEN s[i] ELSE f[i-1] \o s[i]
           S == {n \in Nat : n <= Len(s) => \E f : Good(f, n)}
<1>0. Len(s) \in Nat /\ \A i \in 1..Len(s) : s[i] \in Seq(T)
  OBVIOUS
<1>1. 0 \in S
  <2>1. Good(<<>>, 0)
    OBVIOUS
  <2> QED BY <2>1
<1> HIDE DEF Good
<1>2. \A n \in Nat : n \in S => n + 1 \in S
  <2> SUFFICES ASSUME NEW n \in Nat, n + 1 <= Len(s), \E f : Good(f, n)
               PROVE  \E g : Good(g, n + 1)
    BY <1>0
  <2>2. PICK f : Good(f, n)
    OBVIOUS
  <2> USE DEF Good
  <2> DEFINE last == IF n = 0 THEN s[n + 1] ELSE f[n] \o s[n + 1]
             g == [i \in 1..n + 1 |-> IF i = n + 1 THEN last ELSE f[i]]
  <2>3. s[n + 1] \in Seq(T)
    BY <1>0
  <2>4. last \in Seq(T)
    <3>1. n # 0 => f[n] \in Seq(T)
      BY <2>2
    <3> QED BY <2>3, <3>1
  <2>5. last = IF n + 1 = 1 THEN s[n + 1] ELSE f[n + 1 - 1] \o s[n + 1]
    OBVIOUS
  <2> HIDE DEF last
  <2>6. g \in [1..n + 1 -> Seq(T)]
    BY <2>2, <2>4
  <2>7. \A i \in 1..n + 1 : g[i] = IF i = 1 THEN s[i] ELSE g[i-1] \o s[i]
    <3> SUFFICES ASSUME NEW i \in 1..n + 1
                 PROVE  g[i] = IF i = 1 THEN s[i] ELSE g[i-1] \o s[i]
      OBVIOUS
    <3>1. i # 1 => i - 1 \in 1..n /\ g[i-1] = f[i-1]
      OBVIOUS
    <3>2. CASE i = n + 1
      BY <2>5, <3>1, <3>2
    <3>3. CASE i # n + 1
      <4>1. i \in 1..n /\ g[i] = f[i]
        BY <3>3
      <4> QED BY <2>2, <3>1, <4>1
    <3> QED BY <3>2, <3>3
  <2> HIDE DEF g
  <2> QED BY <2>6, <2>7
<1> HIDE DEF S
<1>3. Nat \subseteq S
  BY <1>1, <1>2, InductNat, Zenon
<1>4. PICK f : Good(f, Len(s))
  BY <1>0, <1>3 DEF S
<1>5. /\ f \in [1..Len(s) -> Seq(T)]
      /\ \A i \in 1..Len(s) : f[i] = IF i = 1 THEN s[i] ELSE f[i-1] \o s[i]
  BY <1>4 DEF Good
<1>6. f = [i \in 1..Len(s) |-> IF i = 1 THEN s[i] ELSE f[i-1] \o s[i]]
  <2> DEFINE F == [i \in 1..Len(s) |-> IF i = 1 THEN s[i] ELSE f[i-1] \o s[i]]
  <2>1. \A i \in 1..Len(s) : F[i] = f[i]
    BY <1>5, Zenon
  <2>2. DOMAIN F = 1..Len(s) /\ F = [i \in 1..Len(s) |-> F[i]]
    OBVIOUS
  <2> HIDE DEF F
  <2>3. F = f
    BY <1>5, <2>1, <2>2
  <2> QED BY <2>3 DEF F
<1> QED BY <1>5, <1>6 DEF Flattens

LEMMA FlattensAll ==
  ASSUME NEW f, NEW s, Flattens(f, s)
  PROVE  \A i \in 1..Len(s) : f[i] = IF i = 1 THEN s[i] ELSE f[i-1] \o s[i]
BY FlattensAt

(* The concatenations of a longer sequence agree on the prefix.            *)
LEMMA FlattensAgree ==
  ASSUME NEW s, NEW t, NEW f, NEW g, Flattens(f, s), Flattens(g, t),
         Len(s) \in Nat, Len(t) \in Nat,
         Len(s) <= Len(t), \A i \in 1..Len(s) : s[i] = t[i]
  PROVE  \A i \in 1..Len(s) : f[i] = g[i]
<1> DEFINE S == {n \in Nat : n \in 1..Len(s) => f[n] = g[n]}
<1>1. 0 \in S
  OBVIOUS
<1>2. \A n \in Nat : n \in S <=> (n \in 1..Len(s) => f[n] = g[n])
  BY Zenon
<1>3. \A i \in 1..Len(s) : f[i] = IF i = 1 THEN s[i] ELSE f[i-1] \o s[i]
  BY FlattensAll, ZenonT(60)
<1>4. \A i \in 1..Len(t) : g[i] = IF i = 1 THEN t[i] ELSE g[i-1] \o t[i]
  BY FlattensAll, ZenonT(60)
<1> HIDE DEF S
<1>5. \A n \in Nat : n \in S => n + 1 \in S
  <2> SUFFICES ASSUME NEW n \in Nat, n \in S, n + 1 \in 1..Len(s)
               PROVE  f[n + 1] = g[n + 1]
    <3>1. \A n \in Nat : n + 1 \in Nat
      OBVIOUS
    <3> QED BY <1>2, <3>1, Zenon
  <2>1. n + 1 \in 1..Len(t) /\ s[n + 1] = t[n + 1]
    OBVIOUS
  <2>2. f[n + 1] = IF n + 1 = 1 THEN s[n + 1] ELSE f[n + 1 - 1] \o s[n + 1]
    BY <1>3
  <2>3. g[n + 1] = IF n + 1 = 1 THEN t[n + 1] ELSE g[n + 1 - 1] \o t[n + 1]
    BY <1>4, <2>1
  <2>4. n # 0 => f[n] = g[n]
    <3>1. n # 0 => n \in 1..Len(s)
      OBVIOUS
    <3> QED BY <1>2, <3>1, Zenon
  <2>5. n + 1 - 1 = n /\ (n + 1 = 1 <=> n = 0)
    OBVIOUS
  <2> QED BY <2>1, <2>2, <2>3, <2>4, <2>5
<1>6. Nat \subseteq S
  BY <1>1, <1>5, InductNat, Zenon
<1>7. \A i \in 1..Len(s) : i \in Nat
  OBVIOUS
<1> QED BY <1>2, <1>6, <1>7, Zenon

LEMMA FlattenType ==
  ASSUME NEW T, NEW s \in Seq(Seq(T))
  PROVE  FlattenSeq(s) \in Seq(T)
<1>1. CASE Len(s) = 0
  <2>1. s = <<>>
    BY <1>1
  <2>2. FlattenSeq(s) = s
    BY <1>1 DEF FlattenSeq
  <2>3. <<>> \in Seq(T)
    OBVIOUS
  <2> QED BY <2>1, <2>2, <2>3, Zenon
<1>2. CASE Len(s) # 0
  <2>1. PICK f \in [1..Len(s) -> Seq(T)] : Flattens(f, s)
    BY FlattensExists
  <2> DEFINE g == CHOOSE h : Flattens(h, s)
  <2>2. Flattens(g, s)
    BY <2>1, Zenon
  <2> HIDE DEF g
  <2>3. Len(s) \in 1..Len(s)
    BY <1>2
  <2>4. \A i \in 1..Len(s) : g[i] = f[i]
    <3>1. /\ Len(s) \in Nat /\ Len(s) <= Len(s)
          /\ \A i \in 1..Len(s) : s[i] = s[i]
      OBVIOUS
    <3> QED BY <2>1, <2>2, <3>1, FlattensAgree, SMTT(30)
  <2>5. FlattenSeq(s) = g[Len(s)]
    BY <1>2, FlattenDef DEF g
  <2> QED BY <2>1, <2>3, <2>4, <2>5
<1> QED BY <1>1, <1>2

(* What FlattenSeq makes of one more sequence.                             *)
LEMMA FlattenAppend ==
  ASSUME NEW T, NEW s \in Seq(Seq(T)), NEW x \in Seq(T)
  PROVE  FlattenSeq(Append(s, x)) = FlattenSeq(s) \o x
<1> DEFINE t == Append(s, x)
<1>0. /\ t \in Seq(Seq(T)) /\ Len(t) = Len(s) + 1 /\ Len(s) \in Nat
      /\ t[Len(t)] = x /\ \A i \in 1..Len(s) : t[i] = s[i]
  OBVIOUS
<1> HIDE DEF t
<1> DEFINE g == CHOOSE h : Flattens(h, t)
<1>1. Flattens(g, t)
  <2>1. \E f : Flattens(f, t)
    BY <1>0, FlattensExists
  <2> QED BY <2>1, Zenon
<1>2. FlattenSeq(t) = g[Len(t)]
  <2>1. Len(t) # 0
    BY <1>0
  <2> QED BY <1>0, <2>1, FlattenDef, Zenon
<1> HIDE DEF g
<1>3. g[Len(t)] = IF Len(t) = 1 THEN x ELSE g[Len(s)] \o x
  <2>1. Len(t) \in 1..Len(t) /\ Len(t) - 1 = Len(s)
    BY <1>0
  <2>2. g[Len(t)] = IF Len(t) = 1 THEN t[Len(t)] ELSE g[Len(t)-1] \o t[Len(t)]
    BY <1>1, <2>1 DEF Flattens
  <2> QED BY <1>0, <2>1, <2>2
<1>4. CASE Len(s) = 0
  <2>1. s = <<>> /\ FlattenSeq(s) = s
    BY <1>4 DEF FlattenSeq
  <2>2. FlattenSeq(t) = x
    BY <1>0, <1>2, <1>3, <1>4
  <2> QED BY <2>1, <2>2 DEF t
<1>5. CASE Len(s) # 0
  <2> DEFINE f == CHOOSE h : Flattens(h, s)
  <2>1. Flattens(f, s)
    <3>1. \E h : Flattens(h, s)
      BY FlattensExists
    <3> QED BY <3>1, Zenon
  <2>2. FlattenSeq(s) = f[Len(s)]
    BY <1>5, FlattenDef
  <2> HIDE DEF f
  <2>3. \A i \in 1..Len(s) : f[i] = g[i]
    <3>1. Len(s) <= Len(t)
      BY <1>0
    <3>2. \A i \in 1..Len(s) : s[i] = t[i]
      BY <1>0, Zenon
    <3>3. Len(s) \in Nat /\ Len(t) \in Nat
      BY <1>0
    <3> QED BY <1>1, <2>1, <3>1, <3>2, <3>3, FlattensAgree
  <2>4. Len(s) \in 1..Len(s) /\ Len(t) # 1
    BY <1>0, <1>5
  <2> QED BY <1>2, <1>3, <2>2, <2>3, <2>4 DEF t
<1> QED BY <1>4, <1>5

(* FlattenSeq of a prefix is a prefix.                                     *)
LEMMA FlattenPrefix ==
  ASSUME NEW T, NEW s \in Seq(Seq(T)), NEW n \in 0..Len(s)
  PROVE  \E z \in Seq(T) : FlattenSeq(s) = FlattenSeq(SubSeq(s, 1, n)) \o z
<1>a. \A a, b, c \in Seq(T) : (a \o b) \o c = a \o (b \o c)
  OBVIOUS
<1> DEFINE Pre(m) == FlattenSeq(SubSeq(s, 1, m))
           S == {m \in Nat : n + m <= Len(s) => \E z \in Seq(T) : Pre(n + m) = Pre(n) \o z}
<1>0. Len(s) \in Nat /\ n \in Nat /\ n <= Len(s)
  OBVIOUS
<1>1. \A m \in 0..Len(s) : SubSeq(s, 1, m) \in Seq(Seq(T)) /\ Pre(m) \in Seq(T)
  <2> SUFFICES ASSUME NEW m \in 0..Len(s)
               PROVE  SubSeq(s, 1, m) \in Seq(Seq(T)) /\ Pre(m) \in Seq(T)
    OBVIOUS
  <2>1. SubSeq(s, 1, m) \in Seq(Seq(T))
    OBVIOUS
  <2> QED BY <2>1, FlattenType
<1>2. \A m \in Nat : m + 1 <= Len(s) => Pre(m + 1) = Pre(m) \o s[m + 1]
  <2> SUFFICES ASSUME NEW m \in Nat, m + 1 <= Len(s)
               PROVE  Pre(m + 1) = Pre(m) \o s[m + 1]
    OBVIOUS
  <2>1. s[m + 1] \in Seq(T) /\ SubSeq(s, 1, m) \in Seq(Seq(T))
    BY <1>0, <1>1
  <2>2. SubSeq(s, 1, m + 1) = Append(SubSeq(s, 1, m), s[m + 1])
    BY <1>0
  <2> QED BY <2>1, <2>2, FlattenAppend
<1> HIDE DEF Pre
<1>s. \A m \in Nat : m \in S <=> (n + m <= Len(s) =>
                                  \E z \in Seq(T) : Pre(n + m) = Pre(n) \o z)
  BY Zenon
<1> HIDE DEF S
<1>3. 0 \in S
  <2>1. Pre(n) = Pre(n) \o <<>> /\ <<>> \in Seq(T) /\ n + 0 = n
    BY <1>0, <1>1, ConcatEmptySeq
  <2> QED BY <1>s, <2>1
<1>4. \A m \in Nat : m \in S => m + 1 \in S
  <2> SUFFICES ASSUME NEW m \in Nat, m \in S, n + (m + 1) <= Len(s)
               PROVE  \E z \in Seq(T) : Pre(n + (m + 1)) = Pre(n) \o z
    <3>1. \A m \in Nat : m + 1 \in Nat
      OBVIOUS
    <3> QED BY <1>s, <3>1, Zenon
  <2>1. n + m \in Nat /\ n + m + 1 <= Len(s) /\ n + (m + 1) = n + m + 1
    BY <1>0
  <2>2. PICK z \in Seq(T) : Pre(n + m) = Pre(n) \o z
    <3>1. n + m <= Len(s)
      BY <1>0, <2>1
    <3> QED BY <1>s, <3>1, Zenon
  <2>3. Pre(n) \in Seq(T) /\ s[n + m + 1] \in Seq(T)
    <3>1. n + m + 1 \in 1..Len(s)
      BY <1>0, <2>1
    <3>2. \A i \in 1..Len(s) : s[i] \in Seq(T)
      OBVIOUS
    <3> QED BY <1>1, <3>1, <3>2, Zenon
  <2>4. z \o s[n + m + 1] \in Seq(T)
    BY <2>3, ConcatProperties
  <2>5. (Pre(n) \o z) \o s[n + m + 1] = Pre(n) \o (z \o s[n + m + 1])
    BY <1>a, <2>3, Zenon
  <2>6. Pre(n + m + 1) = Pre(n + m) \o s[n + m + 1]
    BY <1>2, <2>1, Zenon
  <2> QED BY <2>1, <2>2, <2>4, <2>5, <2>6
<1>5. Nat \subseteq S
  BY <1>3, <1>4, InductNat, Zenon
<1>6. /\ Len(s) - n \in Nat /\ n + (Len(s) - n) = Len(s)
      /\ n + (Len(s) - n) <= Len(s)
  BY <1>0
<1>7. PICK z \in Seq(T) : Pre(Len(s)) = Pre(n) \o z
  <2>1. Len(s) - n \in S
    BY <1>5, <1>6, Zenon
  <2>2. \E z \in Seq(T) : Pre(n + (Len(s) - n)) = Pre(n) \o z
    BY <1>s, <1>6, <2>1, Zenon
  <2> QED BY <1>6, <2>2, Zenon
<1>8. SubSeq(s, 1, Len(s)) = s
  BY SubSeqFull
<1> QED BY <1>7, <1>8 DEF Pre

-----------------------------------------------------------------------------
(***************************************************************************)
(* Sums over finite sets.  w gives the elements their weight; h holds the  *)
(* sums of the subsets of S, as MapThenSumSet takes them apart.            *)
(***************************************************************************)
Some(s)        == CHOOSE x \in s : TRUE
SumOver(w, S)  == MapThenSumSet(LAMBDA r : w[r], S)
SumsAt(h, w, s) == IF s = {} THEN 0 ELSE w[Some(s)] + h[s \ {Some(s)}]
Sums(h, w, S)  == h = [s \in SUBSET S |-> SumsAt(h, w, s)]

LEMMA SumDef ==
  ASSUME NEW w, NEW S
  PROVE  SumOver(w, S) = (CHOOSE h : Sums(h, w, S))[S]
BY Zenon DEF SumOver, MapThenSumSet, MapThenFoldSet, Sums, SumsAt, Some

LEMMA SomeIn ==
  ASSUME NEW s, s # {}
  PROVE  Some(s) \in s
BY DEF Some

(* taking an element out                                                   *)
LEMMA Without ==
  ASSUME NEW s, IsFiniteSet(s), NEW x \in s, NEW n \in Nat, Cardinality(s) <= n + 1
  PROVE  /\ IsFiniteSet(s \ {x}) /\ Cardinality(s \ {x}) <= n
         /\ Cardinality(s \ {x}) = Cardinality(s) - 1
<1>1. IsFiniteSet(s \ {x}) /\ Cardinality(s \ {x}) = Cardinality(s) - 1
  BY FS_RemoveElement
<1>2. Cardinality(s) \in Nat
  BY FS_CardinalityType
<1> QED BY <1>1, <1>2

(* There is such an h: it is extended one size of subsets at a time.       *)
LEMMA SumsExists ==
  ASSUME NEW S, IsFiniteSet(S), NEW w, \A r \in S : w[r] \in Nat
  PROVE  \E h : Sums(h, w, S) /\ h \in [SUBSET S -> Nat]
<1> DEFINE Sub(n)     == {s \in SUBSET S : Cardinality(s) <= n}
           Good(h, n) == /\ h \in [Sub(n) -> Nat]
                         /\ \A s \in Sub(n) : h[s] = SumsAt(h, w, s)
           I          == {n \in Nat : \E h : Good(h, n)}
<1>0. \A s \in SUBSET S : IsFiniteSet(s) /\ Cardinality(s) \in Nat
  BY FS_Subset, FS_CardinalityType
<1>1. \A n \in Nat : n \in I <=> \E h : Good(h, n)
  BY Zenon
<1>2. \A n, s : s \in Sub(n) <=> s \in SUBSET S /\ Cardinality(s) <= n
  BY Zenon
<1>3. \A h, n : Good(h, n) <=> /\ h \in [Sub(n) -> Nat]
                               /\ \A s \in Sub(n) : h[s] = SumsAt(h, w, s)
  BY Zenon
<1> HIDE DEF Sub, Good, I
<1>4. 0 \in I
  <2> DEFINE h == [s \in Sub(0) |-> 0]
  <2>1. \A s \in Sub(0) : s = {}
    <3> SUFFICES ASSUME NEW s \in Sub(0) PROVE s = {}
      OBVIOUS
    <3>1. IsFiniteSet(s) /\ Cardinality(s) \in Nat /\ Cardinality(s) <= 0
      BY <1>0, <1>2
    <3>2. Cardinality(s) = 0
      BY <3>1
    <3> QED BY <3>1, <3>2, FS_EmptySet
  <2>2. h \in [Sub(0) -> Nat] /\ \A s \in Sub(0) : h[s] = 0
    OBVIOUS
  <2> HIDE DEF h
  <2>3. \A s \in Sub(0) : h[s] = SumsAt(h, w, s)
    BY <2>1, <2>2 DEF SumsAt
  <2>4. Good(h, 0)
    BY <1>3, <2>2, <2>3
  <2> QED BY <1>1, <2>4
<1>5. \A n \in Nat : n \in I => n + 1 \in I
  <2> SUFFICES ASSUME NEW n \in Nat, n \in I PROVE \E g : Good(g, n + 1)
    <3>1. \A n \in Nat : n + 1 \in Nat
      OBVIOUS
    <3> QED BY <1>1, <3>1, Zenon
  <2>1. PICK h : Good(h, n)
    BY <1>1, Zenon
  <2>2. /\ h \in [Sub(n) -> Nat]
        /\ \A s \in Sub(n) : h[s] = SumsAt(h, w, s)
    BY <1>3, <2>1, Zenon
  <2> DEFINE g == [s \in Sub(n + 1) |-> SumsAt(h, w, s)]
  <2>3. \A s \in Sub(n + 1) : s # {} => Some(s) \in S /\ s \ {Some(s)} \in Sub(n)
    <3> SUFFICES ASSUME NEW s \in Sub(n + 1), s # {}
                 PROVE  Some(s) \in S /\ s \ {Some(s)} \in Sub(n)
      OBVIOUS
    <3>1. IsFiniteSet(s) /\ Cardinality(s) <= n + 1 /\ s \in SUBSET S
      BY <1>0, <1>2
    <3>2. Some(s) \in s
      BY SomeIn
    <3>3. Cardinality(s \ {Some(s)}) <= n
      BY <3>1, <3>2, Without
    <3> QED BY <1>2, <3>1, <3>2, <3>3
  <2>4. \A s \in Sub(n + 1) : SumsAt(h, w, s) \in Nat
    <3> SUFFICES ASSUME NEW s \in Sub(n + 1) PROVE SumsAt(h, w, s) \in Nat
      OBVIOUS
    <3>1. CASE s = {}
      BY <3>1 DEF SumsAt
    <3>2. CASE s # {}
      <4>1. w[Some(s)] \in Nat /\ h[s \ {Some(s)}] \in Nat
        BY <2>2, <2>3, <3>2
      <4> QED BY <3>2, <4>1 DEF SumsAt
    <3> QED BY <3>1, <3>2
  <2>5. Sub(n) \subseteq Sub(n + 1)
    <3>1. \A s \in Sub(n) : s \in SUBSET S /\ Cardinality(s) \in Nat /\ Cardinality(s) <= n
      BY <1>0, <1>2
    <3>2. \A s \in Sub(n) : Cardinality(s) <= n + 1
      BY <3>1
    <3> QED BY <1>2, <3>1, <3>2
  <2>6. g \in [Sub(n + 1) -> Nat] /\ \A s \in Sub(n + 1) : g[s] = SumsAt(h, w, s)
    BY <2>4
  <2> HIDE DEF g
  <2>7. \A s \in Sub(n) : g[s] = h[s]
    BY <2>2, <2>5, <2>6
  <2>8. \A s \in Sub(n + 1) : g[s] = SumsAt(g, w, s)
    <3> SUFFICES ASSUME NEW s \in Sub(n + 1) PROVE g[s] = SumsAt(g, w, s)
      OBVIOUS
    <3>1. s # {} => g[s \ {Some(s)}] = h[s \ {Some(s)}]
      BY <2>3, <2>7
    <3> QED BY <2>6, <3>1 DEF SumsAt
  <2> QED BY <1>3, <2>6, <2>8
<1>6. Nat \subseteq I
  BY <1>4, <1>5, InductNat, Zenon
<1>7. PICK h : Good(h, Cardinality(S))
  BY <1>0, <1>1, <1>6
<1>8. Sub(Cardinality(S)) = SUBSET S
  <2>1. \A s \in SUBSET S : Cardinality(s) <= Cardinality(S)
    BY FS_Subset
  <2> QED BY <1>2, <2>1
<1>9. h \in [SUBSET S -> Nat] /\ \A s \in SUBSET S : h[s] = SumsAt(h, w, s)
  BY <1>3, <1>7, <1>8
<1>10. h = [s \in SUBSET S |-> SumsAt(h, w, s)]
  <2> DEFINE g == [s \in SUBSET S |-> SumsAt(h, w, s)]
  <2>1. \A s \in SUBSET S : g[s] = h[s]
    BY <1>9
  <2>2. DOMAIN g = SUBSET S /\ g = [s \in SUBSET S |-> g[s]]
    OBVIOUS
  <2> HIDE DEF g
  <2>3. g = h
    BY <1>9, <2>1, <2>2
  <2> QED BY <2>3 DEF g
<1> QED BY <1>9, <1>10 DEF Sums

LEMMA SumsEach ==
  ASSUME NEW h, NEW w, NEW S, Sums(h, w, S)
  PROVE  \A s \in SUBSET S : h[s] = SumsAt(h, w, s)
<1> DEFINE g == [s \in SUBSET S |-> SumsAt(h, w, s)]
<1>1. h = g
  BY Zenon DEF Sums
<1>2. \A s \in SUBSET S : g[s] = SumsAt(h, w, s)
  BY Zenon
<1> HIDE DEF g
<1> QED BY <1>1, <1>2, Zenon

(* The sums of the subsets do not depend on the set they are subsets of,   *)
(* nor on the weights of other elements.                                   *)
LEMMA SumsAgree ==
  ASSUME NEW S, NEW T, IsFiniteSet(S), IsFiniteSet(T), NEW w, NEW v,
         NEW g, NEW h, Sums(g, w, S), Sums(h, v, T)
  PROVE  \A s \in (SUBSET S) \cap (SUBSET T) :
            (\A r \in s : w[r] = v[r]) => g[s] = h[s]
<1> DEFINE Same(s) == (\A r \in s : w[r] = v[r]) => g[s] = h[s]
           B == (SUBSET S) \cap (SUBSET T)
           I == {n \in Nat : \A s \in B : Cardinality(s) <= n => Same(s)}
<1>0. \A s \in B : IsFiniteSet(s) /\ Cardinality(s) \in Nat
  BY FS_Subset, FS_CardinalityType
<1>1. \A n \in Nat : n \in I <=> \A s \in B : Cardinality(s) <= n => Same(s)
  BY Zenon
<1>2. \A s \in B : g[s] = SumsAt(g, w, s) /\ h[s] = SumsAt(h, v, s)
  BY SumsEach
<1>3. \A s \in B : \A x : s \ {x} \in B
  OBVIOUS
<1>4. \A s : Same(s) <=> ((\A r \in s : w[r] = v[r]) => g[s] = h[s])
  BY Zenon
<1> HIDE DEF B, I, Same
<1>5. \A s \in B : s = {} => Same(s)
  BY <1>2, <1>4 DEF SumsAt
<1>6. 0 \in I
  <2>1. \A s \in B : Cardinality(s) <= 0 => s = {}
    <3> SUFFICES ASSUME NEW s \in B, Cardinality(s) <= 0 PROVE s = {}
      OBVIOUS
    <3>1. Cardinality(s) = 0
      BY <1>0
    <3> QED BY <1>0, <3>1, FS_EmptySet
  <2> QED BY <1>1, <1>5, <2>1
<1>7. \A n \in Nat : n \in I => n + 1 \in I
  <2> SUFFICES ASSUME NEW n \in Nat, n \in I, NEW s \in B, Cardinality(s) <= n + 1,
                      s # {}, \A r \in s : w[r] = v[r]
               PROVE  g[s] = h[s]
    <3>1. \A n \in Nat : n + 1 \in Nat
      OBVIOUS
    <3> QED BY <1>1, <1>4, <1>5, <3>1
  <2>1. Some(s) \in s
    BY SomeIn
  <2> DEFINE t == s \ {Some(s)}
  <2>2. t \in B /\ Cardinality(t) <= n
    BY <1>0, <1>3, <2>1, Without
  <2>3. \A r \in t : w[r] = v[r]
    OBVIOUS
  <2>4. g[t] = h[t]
    BY <1>1, <1>4, <2>2, <2>3
  <2>5. g[s] = w[Some(s)] + g[t] /\ h[s] = v[Some(s)] + h[t]
    BY <1>2 DEF SumsAt
  <2> QED BY <2>1, <2>4, <2>5
<1>8. Nat \subseteq I
  BY <1>6, <1>7, InductNat, Zenon
<1>9. \A s \in B : Same(s)
  <2> SUFFICES ASSUME NEW s \in B PROVE Same(s)
    OBVIOUS
  <2>1. Cardinality(s) \in Nat /\ Cardinality(s) <= Cardinality(s)
    BY <1>0
  <2>2. Cardinality(s) \in I
    BY <1>8, <2>1
  <2> QED BY <1>1, <2>1, <2>2
<1> QED BY <1>4, <1>9 DEF B

(* Taking the chosen element out, until nothing is left.                   *)
LEMMA SumTakes ==
  ASSUME NEW S, IsFiniteSet(S), NEW w, \A r \in S : w[r] \in Nat
  PROVE  /\ SumOver(w, S) \in Nat
         /\ S = {} => SumOver(w, S) = 0
         /\ S # {} => SumOver(w, S) = w[Some(S)] + SumOver(w, S \ {Some(S)})
<1> DEFINE T == S \ {Some(S)}
           g == CHOOSE h : Sums(h, w, S)
           f == CHOOSE h : Sums(h, w, T)
<1>1. IsFiniteSet(T) /\ \A r \in T : w[r] \in Nat
  BY FS_Subset
<1>2. PICK h : Sums(h, w, S) /\ h \in [SUBSET S -> Nat]
  BY SumsExists
<1>3. Sums(g, w, S)
  BY <1>2, Zenon
<1>4. Sums(f, w, T)
  <2>1. \E k : Sums(k, w, T)
    BY <1>1, SumsExists
  <2> QED BY <2>1, Zenon
<1>5. SumOver(w, S) = g[S] /\ SumOver(w, T) = f[T]
  BY SumDef, Zenon
<1> HIDE DEF f, g
<1>6. S \in (SUBSET S) \cap (SUBSET S) /\ T \in (SUBSET T) \cap (SUBSET S)
  OBVIOUS
<1>7. g[S] = h[S] /\ h[S] \in Nat
  BY <1>2, <1>3, <1>6, SumsAgree
<1>8. f[T] = g[T]
  BY <1>1, <1>3, <1>4, <1>6, SumsAgree
<1>9. g[S] = SumsAt(g, w, S)
  BY <1>3, <1>6, SumsEach
<1> QED BY <1>5, <1>7, <1>8, <1>9 DEF SumsAt

(* Any element can be taken out.                                           *)
LEMMA SumRemove ==
  ASSUME NEW S, IsFiniteSet(S), NEW w, \A r \in S : w[r] \in Nat, NEW x \in S
  PROVE  SumOver(w, S) = w[x] + SumOver(w, S \ {x})
<1> DEFINE OneOut(s) == \A y \in s : SumOver(w, s) = w[y] + SumOver(w, s \ {y})
           I == {n \in Nat : \A s \in SUBSET S : Cardinality(s) <= n => OneOut(s)}
<1>0. \A s \in SUBSET S : IsFiniteSet(s) /\ Cardinality(s) \in Nat
  BY FS_Subset, FS_CardinalityType
<1>1. \A n \in Nat : n \in I <=> \A s \in SUBSET S : Cardinality(s) <= n => OneOut(s)
  BY Zenon
<1>2. \A s \in SUBSET S :
         /\ SumOver(w, s) \in Nat
         /\ s # {} => SumOver(w, s) = w[Some(s)] + SumOver(w, s \ {Some(s)})
  BY <1>0, SumTakes
<1>3. \A s : OneOut(s) <=> \A y \in s : SumOver(w, s) = w[y] + SumOver(w, s \ {y})
  BY Zenon
<1> HIDE DEF I, OneOut
<1>4. 0 \in I
  <2>1. \A s \in SUBSET S : Cardinality(s) <= 0 => s = {}
    <3> SUFFICES ASSUME NEW s \in SUBSET S, Cardinality(s) <= 0 PROVE s = {}
      OBVIOUS
    <3>1. Cardinality(s) = 0
      BY <1>0
    <3> QED BY <1>0, <3>1, FS_EmptySet
  <2> QED BY <1>1, <1>3, <2>1
<1>5. \A n \in Nat : n \in I => n + 1 \in I
  <2> SUFFICES ASSUME NEW n \in Nat, n \in I, NEW s \in SUBSET S,
                      Cardinality(s) <= n + 1, NEW y \in s
               PROVE  SumOver(w, s) = w[y] + SumOver(w, s \ {y})
    <3>1. \A n \in Nat : n + 1 \in Nat
      OBVIOUS
    <3> QED BY <1>1, <1>3, <3>1
  <2> DEFINE c == Some(s)
             t == s \ {c}
             u == s \ {y}
             b == t \ {y}
  <2>1. c \in s /\ s # {}
    BY SomeIn
  <2>2. SumOver(w, s) = w[c] + SumOver(w, t)
    BY <1>2, <2>1
  <2>3. CASE y = c
    BY <2>2, <2>3
  <2>4. CASE y # c
    <3>1. y \in t /\ c \in u /\ u \ {c} = b /\ t \in SUBSET S /\ u \in SUBSET S
          /\ b \in SUBSET S
      BY <2>1, <2>4
    <3>2. Cardinality(t) <= n /\ Cardinality(u) <= n
      BY <1>0, <2>1, Without
    <3> HIDE DEF t, u, b, c
    <3>3. SumOver(w, t) = w[y] + SumOver(w, t \ {y})
      BY <1>1, <1>3, <3>1, <3>2
    <3>4. SumOver(w, u) = w[c] + SumOver(w, u \ {c})
      BY <1>1, <1>3, <3>1, <3>2
    <3>5. SumOver(w, t) = w[y] + SumOver(w, b) /\ SumOver(w, u) = w[c] + SumOver(w, b)
      BY <3>1, <3>3, <3>4 DEF b
    <3>6. w[y] \in Nat /\ w[c] \in Nat /\ SumOver(w, b) \in Nat
      BY <1>2, <2>1, <3>1
    <3>7. SumOver(w, s) = w[y] + SumOver(w, u)
      BY <2>2, <3>5, <3>6
    <3> QED BY <3>7 DEF u
  <2> QED BY <2>3, <2>4
<1>6. Nat \subseteq I
  BY <1>4, <1>5, InductNat, Zenon
<1>7. OneOut(S)
  <2>1. S \in SUBSET S /\ Cardinality(S) \in Nat /\ Cardinality(S) <= Cardinality(S)
    BY <1>0
  <2>2. Cardinality(S) \in I
    BY <1>6, <2>1
  <2> QED BY <1>1, <2>1, <2>2
<1> QED BY <1>3, <1>7

LEMMA SumAdd ==
  ASSUME NEW S, IsFiniteSet(S), NEW w, \A r \in S : w[r] \in Nat,
         NEW x, x \notin S, w[x] \in Nat
  PROVE  SumOver(w, S \cup {x}) = w[x] + SumOver(w, S)
<1> DEFINE U == S \cup {x}
<1>1. x \in U /\ U \ {x} = S /\ \A r \in U : w[r] \in Nat
  OBVIOUS
<1>2. IsFiniteSet(U)
  BY FS_AddElement
<1> HIDE DEF U
<1>3. SumOver(w, U) = w[x] + SumOver(w, U \ {x})
  BY <1>1, <1>2, SumRemove
<1> QED BY <1>1, <1>3 DEF U

(* More elements, no smaller a sum.                                        *)
LEMMA SumSubset ==
  ASSUME NEW S, IsFiniteSet(S), NEW w, \A r \in S : w[r] \in Nat, NEW A \in SUBSET S
  PROVE  SumOver(w, A) <= SumOver(w, S)
<1> DEFINE Up(s) == A \subseteq s => SumOver(w, A) <= SumOver(w, s)
           I == {n \in Nat : \A s \in SUBSET S : Cardinality(s) <= n => Up(s)}
<1>0. \A s \in SUBSET S : IsFiniteSet(s) /\ Cardinality(s) \in Nat /\ SumOver(w, s) \in Nat
  BY FS_Subset, FS_CardinalityType, SumTakes
<1>1. \A n \in Nat : n \in I <=> \A s \in SUBSET S : Cardinality(s) <= n => Up(s)
  BY Zenon
<1>2. \A s : Up(s) <=> (A \subseteq s => SumOver(w, A) <= SumOver(w, s))
  BY Zenon
<1> HIDE DEF I, Up
<1>3. \A s \in SUBSET S : s = A => Up(s)
  BY <1>0, <1>2
<1>4. 0 \in I
  <2>1. \A s \in SUBSET S : Cardinality(s) <= 0 => s = {}
    <3> SUFFICES ASSUME NEW s \in SUBSET S, Cardinality(s) <= 0 PROVE s = {}
      OBVIOUS
    <3>1. Cardinality(s) = 0
      BY <1>0
    <3> QED BY <1>0, <3>1, FS_EmptySet
  <2>2. \A s \in SUBSET S : Cardinality(s) <= 0 /\ A \subseteq s => s = A
    BY <2>1
  <2> QED BY <1>1, <1>2, <1>3, <2>2
<1>5. \A n \in Nat : n \in I => n + 1 \in I
  <2> SUFFICES ASSUME NEW n \in Nat, n \in I, NEW s \in SUBSET S,
                      Cardinality(s) <= n + 1, A \subseteq s, s # A
               PROVE  SumOver(w, A) <= SumOver(w, s)
    <3>1. \A n \in Nat : n + 1 \in Nat
      OBVIOUS
    <3> QED BY <1>1, <1>2, <1>3, <3>1
  <2>1. PICK x \in s : x \notin A
    OBVIOUS
  <2> DEFINE t == s \ {x}
  <2>2. t \in SUBSET S /\ A \subseteq t /\ Cardinality(t) <= n
    BY <1>0, <2>1, Without
  <2>3. SumOver(w, s) = w[x] + SumOver(w, t) /\ w[x] \in Nat
    BY <1>0, SumRemove
  <2> HIDE DEF t
  <2>4. SumOver(w, A) <= SumOver(w, t)
    BY <1>1, <1>2, <2>2
  <2>5. SumOver(w, A) \in Nat /\ SumOver(w, t) \in Nat
    BY <1>0, <2>2
  <2> QED BY <2>3, <2>4, <2>5
<1>6. Nat \subseteq I
  BY <1>4, <1>5, InductNat, Zenon
<1>7. Up(S)
  <2>1. S \in SUBSET S /\ Cardinality(S) \in Nat /\ Cardinality(S) <= Cardinality(S)
    BY <1>0
  <2>2. Cardinality(S) \in I
    BY <1>6, <2>1
  <2> QED BY <1>1, <2>1, <2>2
<1> QED BY <1>2, <1>7

(* Weights that agree on the set give the same sum.                        *)
LEMMA SumSame ==
  ASSUME NEW S, IsFiniteSet(S), NEW w, NEW v,
         \A r \in S : w[r] \in Nat, \A r \in S : w[r] = v[r]
  PROVE  SumOver(w, S) = SumOver(v, S)
<1> DEFINE g == CHOOSE h : Sums(h, w, S)
           f == CHOOSE h : Sums(h, v, S)
<1>1. \A r \in S : v[r] \in Nat
  OBVIOUS
<1>2. Sums(g, w, S)
  <2>1. \E h : Sums(h, w, S)
    BY SumsExists
  <2> QED BY <2>1, Zenon
<1>3. Sums(f, v, S)
  <2>1. \E h : Sums(h, v, S)
    BY <1>1, SumsExists
  <2> QED BY <2>1, Zenon
<1>4. SumOver(w, S) = g[S] /\ SumOver(v, S) = f[S]
  BY SumDef, Zenon
<1> HIDE DEF f, g
<1>5. S \in (SUBSET S) \cap (SUBSET S)
  OBVIOUS
<1>6. g[S] = f[S]
  BY <1>2, <1>3, <1>5, SumsAgree
<1> QED BY <1>4, <1>6
=============================================================================
