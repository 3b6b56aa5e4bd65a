-------------------------- MODULE LogFile_proofs ---------------------------
(***************************************************************************)
(* LogFile for every roll size, flush interval, check count, length of the *)
(* day and every history of the clock: type correctness, files that read   *)
(* one after the other have no gap but where a close failed, rolls whose   *)
(* seconds increase, a bound on what a crash loses, on what a file holds   *)
(* of another day and on what goes into it after its second.               *)
(***************************************************************************)
EXTENDS LogFile, DataLemmas, FiniteSetTheorems

(* A file is open once one was made, and it is the last one; the three     *)
(* times mean something only then.                                         *)
Opening ==
  /\ opened <=> files # <<>>
  /\ ~opened => buf = <<>>
  /\ pc # "close" => old = <<>>
  /\ pc = "ctor" => ~opened
  /\ pc \in {"check", "close"} => opened
  /\ opened => /\ files[Len(files)].sec = lastRoll
               /\ lastDay = lastRoll \div Day

(* No close has touched the open file.  While a roll closes the file       *)
(* before it, that one is untouched too and the open one still empty.      *)
Shutting ==
  /\ opened /\ pc \in {"ready", "check", "close"} => files[Len(files)].cut = <<>>
  /\ pc = "close" => /\ buf = <<>> /\ Len(files) > 1
                     /\ files[Len(files)].recs = <<>>
                     /\ files[Len(files) - 1].cut = <<>>

(* The records are numbered through the files and the buffers.             *)
Trail == GoneThrough \o (old \o buf)

Numbered ==
  /\ \A i \in 1..Len(Trail) : Trail[i] = i
  /\ pc # "dead" => Len(Trail) = Len(at)

(* While the clock was never set back: what is in the buffer came after    *)
(* the last flush, and what is in the open file after its roll.            *)
InTime ==
  backs = 0 =>
    /\ \A r \in Records : at[r] <= now
    /\ opened => lastRoll <= lastFlush /\ lastFlush <= now
    /\ \A i \in 1..Len(buf) : lastFlush <= at[buf[i]]
    /\ opened => \A r \in RecordsOf(Len(files)) : lastRoll <= at[r]

(* the records of file i from another day                                  *)
Strays(i) == {r \in RecordsOf(i) : at[r] \div Day # files[i].sec \div Day}

(* The open file has no more strays than count_ knows of.                  *)
StrayCount ==
  backs = 0 =>
    /\ \A i \in 1..Len(files) : Cardinality(Strays(i)) <= CheckPerCount
    /\ opened /\ pc \in {"ready", "close"} => Cardinality(Strays(Len(files))) <= count
    /\ opened /\ pc = "check" => Cardinality(Strays(Len(files))) <= count + 1

(* the records of file i after the second in its name, and their bytes     *)
Late(i)  == {r \in RecordsOf(i) : at[r] > files[i].sec}
Bytes(i) == SumOver(len, Late(i))

(* The open file has no more late bytes than written_bytes_ knows of.      *)
ByteCount ==
  backs = 0 =>
    /\ \A i \in 1..Len(files) : Bytes(i) <= RollSize + MaxLen
    /\ opened /\ pc \in {"ready", "check", "close"} => Bytes(Len(files)) <= written

(* The inductive invariant.                                                *)
LInv == /\ TypeOK /\ Opening /\ Shutting /\ Numbered /\ RollsIncrease
        /\ InTime /\ LossBound /\ StrayCount /\ ByteCount

-----------------------------------------------------------------------------
(***************************************************************************)
(* Numbers                                                                 *)
(***************************************************************************)
LEMMA DivType ==
  ASSUME NEW n \in Nat, NEW d \in Nat \ {0}
  PROVE  n \div d \in Nat /\ n \div d <= n
OBVIOUS

LEMMA DivMonotone ==
  ASSUME NEW m \in Nat, NEW n \in Nat, NEW d \in Nat \ {0}, m <= n
  PROVE  m \div d <= n \div d
OBVIOUS

LEMMA Constants ==
  /\ RollSize \in Nat \ {0} /\ FlushInterval \in Nat \ {0} /\ CheckPerCount \in Nat \ {0}
  /\ Day \in Nat \ {0} /\ MaxLen \in Nat \ {0}
  /\ MaxRecords \in Nat /\ MaxTime \in Nat /\ MaxBack \in Nat
BY LogFileAssumption

-----------------------------------------------------------------------------
(***************************************************************************)
(* Files as sequences.  File(S, T) is a file with a second of S and        *)
(* records of T, Flat(F) what has gone through the files, Put(F, n, r, c)  *)
(* has r more on the disk of file n, which was closed without c.           *)
(***************************************************************************)
Cat(a, b)       == a \o b
File(S, T)      == [sec: S, recs: Seq(T), cut: Seq(T)]
Recs(F)         == [i \in DOMAIN F |-> F[i].recs \o F[i].cut]
Flat(F)         == FlattenSeq(Recs(F))
Put(F, n, r, c) == [F EXCEPT ![n] = [sec  |-> F[n].sec,
                                     recs |-> Cat(F[n].recs, r),
                                     cut  |-> c]]
New(F, s)       == Append(F, [sec |-> s, recs |-> <<>>, cut |-> <<>>])

LEMMA CatType ==
  ASSUME NEW T, NEW a \in Seq(T), NEW b \in Seq(T), NEW c \in Seq(T)
  PROVE  /\ Cat(a, b) \in Seq(T) /\ Cat(a, <<>>) = a /\ Cat(<<>>, a) = a
         /\ Cat(Cat(a, b), c) = Cat(a, Cat(b, c))
BY DEF Cat

LEMMA SplitSeq ==
  ASSUME NEW T, NEW c \in Seq(T), NEW i \in 0..Len(c)
  PROVE  /\ SubSeq(c, 1, i) \in Seq(T) /\ SubSeq(c, i + 1, Len(c)) \in Seq(T)
         /\ Cat(SubSeq(c, 1, i), SubSeq(c, i + 1, Len(c))) = c
<1> DEFINE p == SubSeq(c, 1, i)
           q == SubSeq(c, i + 1, Len(c))
<1>1. /\ p \in Seq(T) /\ Len(p) = i /\ \A j \in 1..i : p[j] = c[j]
      /\ q \in Seq(T) /\ Len(q) = Len(c) - i /\ \A j \in 1..Len(c) - i : q[j] = c[i + j]
      /\ Len(c) \in Nat
  OBVIOUS
<1> HIDE DEF p, q
<1>2. p \o q \in Seq(T) /\ Len(p \o q) = Len(c)
  BY <1>1
<1>3. \A j \in 1..Len(c) : (p \o q)[j] = c[j]
  <2> SUFFICES ASSUME NEW j \in 1..Len(c) PROVE (p \o q)[j] = c[j]
    OBVIOUS
  <2>1. CASE j <= i
    BY <1>1, <2>1
  <2>2. CASE ~ (j <= i)
    <3>1. j - i \in 1..Len(c) - i /\ i + (j - i) = j
      BY <1>1, <2>2
    <3>2. q[j - i] = c[j]
      BY <1>1, <3>1
    <3>3. (p \o q)[j] = q[j - i]
      BY <1>1, <2>2, <3>1
    <3> QED BY <3>2, <3>3
  <2> QED BY <2>1, <2>2
<1>4. p \o q = c
  BY <1>2, <1>3, SeqEqual
<1> QED BY <1>1, <1>4 DEF p, q, Cat

LEMMA FileFields ==
  ASSUME NEW S, NEW T, NEW F \in Seq(File(S, T))
  PROVE  /\ DOMAIN F = 1..Len(F) /\ Len(F) \in Nat
         /\ \A i \in 1..Len(F) :
               /\ F[i] \in File(S, T) /\ F[i].sec \in S
               /\ F[i].recs \in Seq(T) /\ F[i].cut \in Seq(T)
               /\ F[i] = [sec |-> F[i].sec, recs |-> F[i].recs, cut |-> F[i].cut]
<1>1. DOMAIN F = 1..Len(F) /\ Len(F) \in Nat /\ \A i \in 1..Len(F) : F[i] \in File(S, T)
  OBVIOUS
<1>2. \A f \in File(S, T) : /\ f.sec \in S /\ f.recs \in Seq(T) /\ f.cut \in Seq(T)
                            /\ f = [sec |-> f.sec, recs |-> f.recs, cut |-> f.cut]
  BY DEF File
<1> QED BY <1>1, <1>2

LEMMA RecsType ==
  ASSUME NEW S, NEW T, NEW F \in Seq(File(S, T))
  PROVE  /\ Recs(F) \in Seq(Seq(T)) /\ Len(Recs(F)) = Len(F)
         /\ \A i \in 1..Len(F) : Recs(F)[i] = Cat(F[i].recs, F[i].cut)
         /\ Flat(F) \in Seq(T)
<1>1. /\ DOMAIN F = 1..Len(F) /\ Len(F) \in Nat
      /\ \A i \in 1..Len(F) : F[i].recs \in Seq(T) /\ F[i].cut \in Seq(T)
  BY FileFields
<1>2. \A a, b \in Seq(T) : a \o b \in Seq(T)
  OBVIOUS
<1>3. /\ Recs(F) \in [1..Len(F) -> Seq(T)]
      /\ \A i \in 1..Len(F) : Recs(F)[i] = Cat(F[i].recs, F[i].cut)
  BY <1>1, <1>2, Zenon DEF Recs, Cat
<1>4. Recs(F) \in Seq(Seq(T)) /\ Len(Recs(F)) = Len(F)
  BY <1>1, <1>3
<1> QED BY <1>3, <1>4, FlattenType DEF Flat

LEMMA PutFile ==
  ASSUME NEW S, NEW T, NEW F \in Seq(File(S, T)), NEW n \in 1..Len(F),
         NEW r \in Seq(T), NEW c \in Seq(T)
  PROVE  /\ Put(F, n, r, c) \in Seq(File(S, T)) /\ Len(Put(F, n, r, c)) = Len(F)
         /\ \A i \in 1..Len(F) : i # n => Put(F, n, r, c)[i] = F[i]
         /\ Put(F, n, r, c)[n].sec = F[n].sec
         /\ Put(F, n, r, c)[n].recs = Cat(F[n].recs, r)
         /\ Put(F, n, r, c)[n].cut = c
<1>1. F[n].recs \in Seq(T) /\ F[n].sec \in S
  BY FileFields
<1>2. Cat(F[n].recs, r) \in Seq(T)
  BY <1>1, CatType
<1> DEFINE g == [sec |-> F[n].sec, recs |-> Cat(F[n].recs, r), cut |-> c]
<1>3. g \in File(S, T) /\ g.sec = F[n].sec /\ g.recs = Cat(F[n].recs, r) /\ g.cut = c
  BY <1>1, <1>2 DEF File
<1>4. Put(F, n, r, c) = [F EXCEPT ![n] = g]
  BY DEF Put
<1> HIDE DEF g
<1> DEFINE A == File(S, T)
<1>5. F \in Seq(A) /\ g \in A
  BY <1>3
<1> HIDE DEF A
<1>6. /\ [F EXCEPT ![n] = g] \in Seq(A) /\ Len([F EXCEPT ![n] = g]) = Len(F)
      /\ [F EXCEPT ![n] = g][n] = g
      /\ \A i \in 1..Len(F) : i # n => [F EXCEPT ![n] = g][i] = F[i]
  BY <1>5
<1> QED BY <1>3, <1>4, <1>6 DEF A

LEMMA PutAt ==
  ASSUME NEW S, NEW T, NEW F \in Seq(File(S, T)), NEW n \in 1..Len(F), NEW r, NEW c
  PROVE  Put(F, n, r, c)[n].sec = F[n].sec /\ Put(F, n, r, c)[n].cut = c
<1>1. n \in DOMAIN F
  BY FileFields
<1> QED BY <1>1 DEF Put

(* A sequence is its front and its last element.                           *)
LEMMA FrontLast ==
  ASSUME NEW A, NEW s \in Seq(A), NEW n \in Nat, Len(s) = n + 1
  PROVE  /\ SubSeq(s, 1, n) \in Seq(A) /\ Len(SubSeq(s, 1, n)) = n
         /\ \A i \in 1..n : SubSeq(s, 1, n)[i] = s[i]
         /\ s[n + 1] \in A /\ s = Append(SubSeq(s, 1, n), s[n + 1])
<1> DEFINE p == SubSeq(s, 1, n)
<1>1. p \in Seq(A) /\ Len(p) = n /\ (\A i \in 1..n : p[i] = s[i]) /\ s[n + 1] \in A
  OBVIOUS
<1> HIDE DEF p
<1> DEFINE q == Append(p, s[n + 1])
<1>2. /\ q \in Seq(A) /\ Len(q) = n + 1 /\ q[n + 1] = s[n + 1]
      /\ \A i \in 1..n : q[i] = s[i]
  BY <1>1
<1> HIDE DEF q
<1>3. \A i \in 1..Len(s) : s[i] = q[i]
  BY <1>2
<1>4. s = q
  BY <1>2, <1>3, SeqEqual
<1> QED BY <1>1, <1>4 DEF p, q

(* What is put at the end of the last sequence, or of the last but one     *)
(* when the last is empty, is at the end of them all.                      *)
LEMMA LastGrows ==
  ASSUME NEW T, NEW R \in Seq(Seq(T)), NEW Q \in Seq(Seq(T)), NEW n \in Nat,
         Len(R) = n + 1, Len(Q) = n + 1, NEW x \in Seq(T),
         \A i \in 1..n : Q[i] = R[i], Q[n + 1] = Cat(R[n + 1], x)
  PROVE  FlattenSeq(Q) = Cat(FlattenSeq(R), x)
<1> DEFINE p == SubSeq(R, 1, n)
           q == SubSeq(Q, 1, n)
           B == Seq(T)
<1>0. R \in Seq(B) /\ Q \in Seq(B)
  OBVIOUS
<1> HIDE DEF B
<1>1. /\ p \in Seq(B) /\ Len(p) = n /\ \A i \in 1..n : p[i] = R[i]
      /\ R[n + 1] \in B /\ R = Append(p, R[n + 1])
  BY <1>0, FrontLast
<1>2. /\ q \in Seq(B) /\ Len(q) = n /\ \A i \in 1..n : q[i] = Q[i]
      /\ Q[n + 1] \in B /\ Q = Append(q, Q[n + 1])
  BY <1>0, FrontLast
<1> HIDE DEF p, q
<1>3. p = q
  <2>1. Len(p) = Len(q) /\ \A i \in 1..Len(p) : p[i] = q[i]
    BY <1>1, <1>2
  <2> QED BY <1>1, <1>2, <2>1, SeqEqual, Zenon
<1> USE DEF B
<1> DEFINE a == FlattenSeq(p)
           y == R[n + 1]
<1>4. a \in Seq(T) /\ y \in Seq(T)
  BY <1>1, FlattenType
<1>5. FlattenSeq(Append(p, y)) = Cat(a, y)
  BY <1>1, <1>4, FlattenAppend, Zenon DEF Cat
<1>6. FlattenSeq(Append(p, Q[n + 1])) = Cat(a, Q[n + 1])
  BY <1>1, <1>2, FlattenAppend, ZenonT(60) DEF Cat
<1> HIDE DEF a, y
<1>7. Q[n + 1] = Cat(y, x) /\ R = Append(p, y) /\ Q = Append(p, Q[n + 1])
  BY <1>1, <1>2, <1>3 DEF y
<1>8. Cat(a, Cat(y, x)) = Cat(Cat(a, y), x)
  BY <1>4, CatType
<1> QED BY <1>5, <1>6, <1>7, <1>8, Zenon

LEMMA BeforeGrows ==
  ASSUME NEW T, NEW R \in Seq(Seq(T)), NEW Q \in Seq(Seq(T)), NEW n \in Nat,
         Len(R) = n + 2, Len(Q) = n + 2, NEW x \in Seq(T),
         \A i \in 1..n : Q[i] = R[i], Q[n + 1] = Cat(R[n + 1], x),
         R[n + 2] = <<>>, Q[n + 2] = <<>>
  PROVE  FlattenSeq(Q) = Cat(FlattenSeq(R), x)
<1> DEFINE m == n + 1
<1>1. m \in Nat /\ m + 1 = n + 2 /\ n + 1 \in 1..m /\ \A i \in 1..n : i \in 1..m
  OBVIOUS
<1> HIDE DEF m
<1>2. Len(R) = m + 1 /\ Len(Q) = m + 1 /\ R[m + 1] = <<>> /\ Q[m + 1] = <<>>
  BY <1>1
<1> DEFINE p == SubSeq(R, 1, m)
           q == SubSeq(Q, 1, m)
           B == Seq(T)
<1>b. R \in Seq(B) /\ Q \in Seq(B)
  OBVIOUS
<1> HIDE DEF B
<1>3. p \in Seq(B) /\ Len(p) = m /\ (\A i \in 1..m : p[i] = R[i]) /\ R = Append(p, R[m + 1])
  BY <1>b, <1>1, <1>2, FrontLast
<1>4. q \in Seq(B) /\ Len(q) = m /\ (\A i \in 1..m : q[i] = Q[i]) /\ Q = Append(q, Q[m + 1])
  BY <1>b, <1>1, <1>2, FrontLast
<1> HIDE DEF p, q
<1> USE DEF B
<1>5. \A i \in 1..n : q[i] = p[i]
  BY <1>1, <1>3, <1>4
<1>6. Len(p) = n + 1 /\ Len(q) = n + 1 /\ q[n + 1] = Cat(p[n + 1], x)
  BY <1>1, <1>3, <1>4 DEF m
<1>7. FlattenSeq(q) = Cat(FlattenSeq(p), x)
  BY <1>3, <1>4, <1>5, <1>6, LastGrows, ZenonT(60)
<1>8. \A s \in Seq(Seq(T)) : FlattenSeq(Append(s, <<>>)) = FlattenSeq(s)
  <2> SUFFICES ASSUME NEW s \in Seq(Seq(T)) PROVE FlattenSeq(Append(s, <<>>)) = FlattenSeq(s)
    OBVIOUS
  <2>1. <<>> \in Seq(T)
    OBVIOUS
  <2>2. FlattenSeq(Append(s, <<>>)) = FlattenSeq(s) \o <<>>
    BY <2>1, FlattenAppend, Zenon
  <2>3. FlattenSeq(s) \in Seq(T)
    BY FlattenType
  <2> QED BY <2>2, <2>3
<1> QED BY <1>2, <1>3, <1>4, <1>7, <1>8

(* What Put does to the records of each file.                              *)
LEMMA PutRecs ==
  ASSUME NEW S, NEW T, NEW F \in Seq(File(S, T)), NEW n \in 1..Len(F),
         F[n].cut = <<>>, NEW r \in Seq(T), NEW c \in Seq(T)
  PROVE  /\ Recs(Put(F, n, r, c)) \in Seq(Seq(T)) /\ Len(Recs(Put(F, n, r, c))) = Len(F)
         /\ \A i \in 1..Len(F) : i # n => Recs(Put(F, n, r, c))[i] = Recs(F)[i]
         /\ Recs(Put(F, n, r, c))[n] = Cat(Recs(F)[n], Cat(r, c))
<1> DEFINE G == Put(F, n, r, c)
<1>1. G \in Seq(File(S, T))
  BY PutFile
<1>2. /\ Len(G) = Len(F)
      /\ \A i \in 1..Len(F) : i # n => G[i] = F[i]
      /\ G[n].recs = Cat(F[n].recs, r) /\ G[n].cut = c
  BY PutFile
<1> HIDE DEF G
<1>3. /\ Recs(G) \in Seq(Seq(T)) /\ Len(Recs(G)) = Len(G)
      /\ \A i \in 1..Len(G) : Recs(G)[i] = Cat(G[i].recs, G[i].cut)
  BY <1>1, RecsType, SMTT(30)
<1>4. \A i \in 1..Len(F) : Recs(F)[i] = Cat(F[i].recs, F[i].cut)
  BY RecsType
<1>5. F[n].recs \in Seq(T)
  BY FileFields
<1>6. Recs(G)[n] = Cat(Cat(F[n].recs, r), c) /\ Recs(F)[n] = Cat(F[n].recs, <<>>)
  BY <1>2, <1>3, <1>4
<1>7. \A a \in Seq(T) : Cat(a, <<>>) = a /\ Cat(Cat(a, r), c) = Cat(a, Cat(r, c))
  BY CatType
<1>8. Recs(G)[n] = Cat(Recs(F)[n], Cat(r, c))
  BY <1>5, <1>6, <1>7
<1>9. \A i \in 1..Len(F) : i # n => Recs(G)[i] = Recs(F)[i]
  BY <1>2, <1>3, <1>4
<1> QED BY <1>2, <1>3, <1>8, <1>9 DEF G

(* What leaves a buffer follows what has gone through the files, if the    *)
(* file is the last one, or the last but one and the last one empty.       *)
LEMMA PutFlat ==
  ASSUME NEW S, NEW T, NEW F \in Seq(File(S, T)), NEW n \in 1..Len(F),
         F[n].cut = <<>>, NEW r \in Seq(T), NEW c \in Seq(T),
         \/ n = Len(F)
         \/ n = Len(F) - 1 /\ F[Len(F)].recs = <<>> /\ F[Len(F)].cut = <<>>
  PROVE  Flat(Put(F, n, r, c)) = Cat(Flat(F), Cat(r, c))
<1> DEFINE Q == Recs(Put(F, n, r, c))
           R == Recs(F)
           x == Cat(r, c)
<1>4. /\ Q \in Seq(Seq(T)) /\ Len(Q) = Len(F)
      /\ \A i \in 1..Len(F) : i # n => Q[i] = R[i]
      /\ Q[n] = Cat(R[n], x)
  BY PutRecs
<1>5. /\ R \in Seq(Seq(T)) /\ Len(R) = Len(F) /\ Len(F) \in Nat
      /\ \A i \in 1..Len(F) : R[i] = Cat(F[i].recs, F[i].cut)
  BY RecsType, FileFields
<1>6. x \in Seq(T)
  BY CatType
<1> HIDE DEF Q, R, x
<1>7. PICK m : m = n - 1
  OBVIOUS
<1>8. m \in Nat /\ m + 1 = n /\ \A i \in 1..m : i \in 1..Len(F) /\ i # n
  BY <1>5, <1>7
<1>9. /\ \A i \in 1..m : Q[i] = R[i]
      /\ Q[m + 1] = Cat(R[m + 1], x)
  BY <1>4, <1>8
<1>10. CASE n = Len(F)
  <2>1. Len(R) = m + 1 /\ Len(Q) = m + 1
    BY <1>4, <1>5, <1>8, <1>10
  <2>2. FlattenSeq(Q) = Cat(FlattenSeq(R), x)
    BY <1>4, <1>5, <1>6, <1>8, <1>9, <2>1, LastGrows, Zenon
  <2> QED BY <2>2 DEF Flat, Q, R, x
<1>11. CASE n = Len(F) - 1 /\ F[Len(F)].recs = <<>> /\ F[Len(F)].cut = <<>>
  <2>1. Len(R) = m + 2 /\ Len(Q) = m + 2 /\ Len(F) = m + 2 /\ Len(F) \in 1..Len(F)
        /\ Len(F) # n
    BY <1>4, <1>5, <1>8, <1>11, SMTT(30)
  <2>2. Cat(<<>>, <<>>) = <<>>
    BY DEF Cat
  <2>3. R[m + 2] = <<>> /\ Q[m + 2] = <<>>
    BY <1>4, <1>5, <1>11, <2>1, <2>2
  <2>4. FlattenSeq(Q) = Cat(FlattenSeq(R), x)
    BY <1>4, <1>5, <1>6, <1>8, <1>9, <2>1, <2>3, BeforeGrows, ZenonT(60)
  <2> QED BY <2>4 DEF Flat, Q, R, x
<1> QED BY <1>10, <1>11

LEMMA NewFile ==
  ASSUME NEW S, NEW T, NEW F \in Seq(File(S, T)), NEW s \in S
  PROVE  /\ New(F, s) \in Seq(File(S, T)) /\ Len(New(F, s)) = Len(F) + 1
         /\ Len(F) \in Nat
         /\ \A i \in 1..Len(F) : New(F, s)[i] = F[i]
         /\ New(F, s)[Len(F) + 1].sec = s
         /\ New(F, s)[Len(F) + 1].recs = <<>> /\ New(F, s)[Len(F) + 1].cut = <<>>
         /\ Flat(New(F, s)) = Flat(F)
<1>1. PICK e : e = [sec |-> s, recs |-> <<>>, cut |-> <<>>]
  OBVIOUS
<1>2. PICK A : A = File(S, T)
  OBVIOUS
<1>3. PICK G : G = New(F, s)
  OBVIOUS
<1>4. /\ e \in A /\ e.recs = <<>> /\ e.cut = <<>> /\ e.sec = s
  BY <1>1, <1>2 DEF File
<1>5. F \in Seq(A) /\ G = Append(F, e)
  BY <1>1, <1>2, <1>3 DEF New
<1>6. /\ G \in Seq(A) /\ Len(G) = Len(F) + 1 /\ Len(F) \in Nat
      /\ \A i \in 1..Len(F) : G[i] = F[i]
      /\ G[Len(F) + 1] = e
  BY <1>4, <1>5
<1>7. /\ Recs(G) \in Seq(Seq(T)) /\ Len(Recs(G)) = Len(F) + 1
      /\ \A i \in 1..Len(F) + 1 : Recs(G)[i] = Cat(G[i].recs, G[i].cut)
  BY <1>2, <1>6, RecsType
<1>8. /\ Recs(F) \in Seq(Seq(T)) /\ Len(Recs(F)) = Len(F)
      /\ \A i \in 1..Len(F) : Recs(F)[i] = Cat(F[i].recs, F[i].cut)
      /\ Flat(F) \in Seq(T)
  BY RecsType
<1>9. PICK q : q = Append(Recs(F), <<>>)
  OBVIOUS
<1>10. <<>> \in Seq(T) /\ Cat(<<>>, <<>>) = <<>>
  BY DEF Cat
<1>11. /\ q \in Seq(Seq(T)) /\ Len(q) = Len(F) + 1 /\ q[Len(F) + 1] = <<>>
       /\ \A i \in 1..Len(F) : q[i] = Recs(F)[i]
  BY <1>8, <1>9, <1>10
<1>12. \A i \in 1..Len(F) + 1 : Recs(G)[i] = q[i]
  <2>n. Len(F) + 1 \in 1..Len(F) + 1 /\ \A i \in 1..Len(F) : i \in 1..Len(F) + 1
    BY <1>6
  <2>1. Recs(G)[Len(F) + 1] = q[Len(F) + 1]
    BY <1>4, <1>6, <1>7, <1>10, <1>11, <2>n, Zenon
  <2>2. \A i \in 1..Len(F) : Recs(G)[i] = q[i]
    BY <1>6, <1>7, <1>8, <1>11, <2>n, Zenon
  <2> QED BY <1>6, <2>1, <2>2
<1>13. Recs(G) = q
  BY <1>7, <1>11, <1>12, SeqEqual
<1>14. FlattenSeq(Append(Recs(F), <<>>)) = FlattenSeq(Recs(F)) \o <<>>
  BY <1>8, <1>10, FlattenAppend, Zenon
<1>15. Flat(G) = Flat(F)
  BY <1>8, <1>9, <1>13, <1>14 DEF Flat
<1> QED BY <1>2, <1>3, <1>4, <1>6, <1>15

LEMMA FileSubset ==
  ASSUME NEW S, NEW T, NEW U, T \subseteq U, NEW F \in Seq(File(S, T)), NEW b \in Seq(T)
  PROVE  F \in Seq(File(S, U)) /\ b \in Seq(U)
<1>1. \A s \in Seq(T) : s \in Seq(U)
  OBVIOUS
<1>2. \A f \in File(S, T) : f \in File(S, U)
  BY <1>1 DEF File
<1> DEFINE A == File(S, T)
           B == File(S, U)
<1> HIDE DEF A, B
<1>3. A \subseteq B
  BY <1>2 DEF A, B
<1>4. \A s \in Seq(A) : s \in Seq(B)
  BY <1>3
<1> QED BY <1>1, <1>4 DEF A, B

-----------------------------------------------------------------------------
(***************************************************************************)
(* The records of a file: RecordsIn(F, a, b, i) is RecordsOf(i) for the    *)
(* files F with a in the buffer of a closing file and b in the open one's. *)
(***************************************************************************)
RecordsIn(F, a, b, i) == ToSet(F[i].recs) \cup
                         CASE i = Len(F)     -> ToSet(b)
                           [] i = Len(F) - 1 -> ToSet(a)
                           [] OTHER          -> {}

LEMMA ToSetCat ==
  ASSUME NEW T, NEW a \in Seq(T), NEW b \in Seq(T)
  PROVE  ToSet(a \o b) = ToSet(a) \cup ToSet(b)
<1> DEFINE c == a \o b
<1>1. /\ Len(a) \in Nat /\ Len(b) \in Nat /\ Len(c) = Len(a) + Len(b)
      /\ DOMAIN a = 1..Len(a) /\ DOMAIN b = 1..Len(b) /\ DOMAIN c = 1..Len(c)
      /\ \A i \in 1..Len(a) : c[i] = a[i]
      /\ \A i \in 1..Len(b) : c[Len(a) + i] = b[i]
  OBVIOUS
<1> HIDE DEF c
<1>2. \A x : x \in ToSet(c) <=> \E i \in 1..Len(c) : c[i] = x
  BY <1>1, Zenon DEF ToSet
<1>3. /\ \A x : x \in ToSet(a) <=> \E i \in 1..Len(a) : a[i] = x
      /\ \A x : x \in ToSet(b) <=> \E i \in 1..Len(b) : b[i] = x
  BY <1>1, Zenon DEF ToSet
<1>4. ASSUME NEW x \in ToSet(c) PROVE x \in ToSet(a) \cup ToSet(b)
  <2>1. PICK i \in 1..Len(c) : c[i] = x
    BY <1>2, <1>4, Zenon
  <2>2. CASE i <= Len(a)
    <3>1. i \in 1..Len(a) /\ a[i] = x
      BY <1>1, <2>1, <2>2
    <3> QED BY <1>3, <3>1, Zenon
  <2>3. CASE ~ (i <= Len(a))
    <3>1. i - Len(a) \in 1..Len(b) /\ Len(a) + (i - Len(a)) = i
      BY <1>1, <2>1, <2>3
    <3>2. b[i - Len(a)] = x
      BY <1>1, <2>1, <3>1
    <3> QED BY <1>3, <3>1, <3>2, Zenon
  <2> QED BY <2>2, <2>3
<1>5. ASSUME NEW x \in ToSet(a) \cup ToSet(b) PROVE x \in ToSet(c)
  <2>1. CASE x \in ToSet(a)
    <3>1. PICK i \in 1..Len(a) : a[i] = x
      BY <1>3, <2>1, Zenon
    <3>2. i \in 1..Len(c) /\ c[i] = x
      BY <1>1, <3>1
    <3> QED BY <1>2, <3>2, Zenon
  <2>2. CASE x \in ToSet(b)
    <3>1. PICK i \in 1..Len(b) : b[i] = x
      BY <1>3, <2>2, Zenon
    <3>2. Len(a) + i \in 1..Len(c) /\ c[Len(a) + i] = x
      BY <1>1, <3>1
    <3> QED BY <1>2, <3>2, Zenon
  <2> QED BY <1>5, <2>1, <2>2
<1>6. ToSet(c) = ToSet(a) \cup ToSet(b)
  BY <1>4, <1>5
<1> QED BY <1>6 DEF c

LEMMA ToSetEmpty == ToSet(<<>>) = {}
BY DEF ToSet

LEMMA ToSetAppend ==
  ASSUME NEW T, NEW b \in Seq(T), NEW x \in T
  PROVE  ToSet(Append(b, x)) = ToSet(b) \cup {x}
<1> DEFINE y == <<x>>
<1>1. Append(b, x) = b \o y /\ y \in Seq(T)
  OBVIOUS
<1>2. ToSet(y) = {x}
  <2>1. DOMAIN y = {1} /\ y[1] = x
    OBVIOUS
  <2> HIDE DEF y
  <2> QED BY <2>1 DEF ToSet
<1> HIDE DEF y
<1>3. ToSet(b \o y) = ToSet(b) \cup ToSet(y)
  BY <1>1, ToSetCat
<1> QED BY <1>1, <1>2, <1>3

(* What Put and New do to the records of each file.                        *)
LEMMA PutSets ==
  ASSUME NEW S, NEW T, NEW F \in Seq(File(S, T)), NEW n \in 1..Len(F),
         NEW r \in Seq(T), NEW c \in Seq(T)
  PROVE  /\ Len(Put(F, n, r, c)) = Len(F)
         /\ \A i \in 1..Len(F) :
               i # n => ToSet(Put(F, n, r, c)[i].recs) = ToSet(F[i].recs)
         /\ ToSet(Put(F, n, r, c)[n].recs) = ToSet(F[n].recs) \cup ToSet(r)
         /\ ToSet(Cat(r, c)) = ToSet(r) \cup ToSet(c)
<1> DEFINE G == Put(F, n, r, c)
<1>1. /\ Len(G) = Len(F) /\ \A i \in 1..Len(F) : i # n => G[i] = F[i]
      /\ G[n].recs = Cat(F[n].recs, r)
  BY PutFile
<1> HIDE DEF G
<1>2. F[n].recs \in Seq(T)
  BY FileFields
<1>3. /\ ToSet(Cat(F[n].recs, r)) = ToSet(F[n].recs) \cup ToSet(r)
      /\ ToSet(Cat(r, c)) = ToSet(r) \cup ToSet(c)
  BY <1>2, ToSetCat, ZenonT(60) DEF Cat
<1> QED BY <1>1, <1>3 DEF G

LEMMA MoveRecords ==
  ASSUME NEW S, NEW T, NEW F \in Seq(File(S, T)), F # <<>>, NEW a,
         NEW r \in Seq(T), NEW c \in Seq(T)
  PROVE  \A i \in 1..Len(F) :
            RecordsIn(Put(F, Len(F), r, <<>>), a, c, i) = RecordsIn(F, a, Cat(r, c), i)
<1> DEFINE n == Len(F)
           e == <<>>
           G == Put(F, n, r, e)
<1>1. n \in 1..n /\ e \in Seq(T)
  BY FileFields
<1> HIDE DEF e
<1>2. /\ Len(G) = n
      /\ \A i \in 1..n : i # n => ToSet(G[i].recs) = ToSet(F[i].recs)
      /\ ToSet(G[n].recs) = ToSet(F[n].recs) \cup ToSet(r)
  BY <1>1, PutSets
<1>3. ToSet(Cat(r, c)) = ToSet(r) \cup ToSet(c)
  BY ToSetCat DEF Cat
<1> HIDE DEF G
<1>4. ASSUME NEW i \in 1..n PROVE RecordsIn(G, a, c, i) = RecordsIn(F, a, Cat(r, c), i)
  <2>1. CASE i = n
    <3>1. /\ RecordsIn(G, a, c, i) = ToSet(G[n].recs) \cup ToSet(c)
          /\ RecordsIn(F, a, Cat(r, c), i) = ToSet(F[n].recs) \cup ToSet(Cat(r, c))
      BY <1>2, <2>1 DEF RecordsIn
    <3> HIDE DEF n
    <3> QED BY <1>2, <1>3, <3>1, Zenon
  <2>2. CASE i # n
    <3>1. ToSet(G[i].recs) = ToSet(F[i].recs)
      BY <1>2, <2>2
    <3> QED BY <1>2, <2>2, <3>1 DEF RecordsIn
  <2> QED BY <2>1, <2>2
<1> QED BY <1>4 DEF G, e

(* A close leaves some of them out.                                        *)
LEMMA ShutRecords ==
  ASSUME NEW S, NEW T, NEW F \in Seq(File(S, T)), NEW n \in 1..Len(F),
         NEW r \in Seq(T), NEW c \in Seq(T), NEW a, NEW b,
         \/ n = Len(F) /\ b = Cat(r, c)
         \/ n = Len(F) - 1 /\ a = Cat(r, c)
  PROVE  \A i \in 1..Len(F) :
            RecordsIn(Put(F, n, r, c), <<>>, <<>>, i) \subseteq RecordsIn(F, a, b, i)
<1> DEFINE G == Put(F, n, r, c)
<1>1. /\ Len(G) = Len(F)
      /\ \A i \in 1..Len(F) : i # n => ToSet(G[i].recs) = ToSet(F[i].recs)
      /\ ToSet(G[n].recs) = ToSet(F[n].recs) \cup ToSet(r)
      /\ ToSet(Cat(r, c)) = ToSet(r) \cup ToSet(c)
  BY PutSets
<1> HIDE DEF G
<1>2. Len(F) \in Nat
  BY FileFields
<1>3. ASSUME NEW i \in 1..Len(F)
      PROVE  RecordsIn(G, <<>>, <<>>, i) \subseteq RecordsIn(F, a, b, i)
  <2>1. RecordsIn(G, <<>>, <<>>, i) = ToSet(G[i].recs)
    BY ToSetEmpty DEF RecordsIn
  <2>2. ToSet(F[i].recs) \subseteq RecordsIn(F, a, b, i)
    BY DEF RecordsIn
  <2>3. CASE i # n
    BY <1>1, <2>1, <2>2, <2>3
  <2>4. CASE i = n
    <3>1. ToSet(Cat(r, c)) \subseteq RecordsIn(F, a, b, i)
      BY <1>2, <2>4 DEF RecordsIn
    <3> QED BY <1>1, <2>1, <2>2, <2>4, <3>1
  <2> QED BY <2>3, <2>4
<1> QED BY <1>3 DEF G

LEMMA NewRecords ==
  ASSUME NEW S, NEW T, NEW F \in Seq(File(S, T)), NEW s \in S, NEW b
  PROVE  /\ \A i \in 1..Len(F) :
               RecordsIn(New(F, s), b, <<>>, i) = RecordsIn(F, <<>>, b, i)
         /\ RecordsIn(New(F, s), b, <<>>, Len(F) + 1) = {}
<1>1. /\ Len(New(F, s)) = Len(F) + 1 /\ Len(F) \in Nat
      /\ \A i \in 1..Len(F) : New(F, s)[i] = F[i]
      /\ New(F, s)[Len(F) + 1].recs = <<>>
  BY NewFile
<1> QED BY <1>1, ToSetEmpty DEF RecordsIn

-----------------------------------------------------------------------------
(***************************************************************************)
(* What the operations of FileAppender do to files and buffer              *)
(***************************************************************************)
Secs == 0..MaxTime

LEMMA FileTypes ==
  ASSUME TypeOK, Opening
  PROVE  /\ files \in Seq(File(Secs, Records))
         /\ buf \in Seq(Records) /\ old \in Seq(Records)
         /\ Len(files) \in Nat /\ Len(at) \in Nat
         /\ opened => files # <<>>
         /\ ~opened => files = <<>> /\ buf = <<>> /\ Len(files) = 0
         /\ Flat(files) \in Seq(Records)
<1>1. /\ files \in Seq(File(Secs, Records)) /\ at \in Seq(0..MaxTime)
      /\ buf \in Seq(Records) /\ old \in Seq(Records)
  BY DEF TypeOK, File, Secs
<1>2. Flat(files) \in Seq(Records)
  BY <1>1, RecsType
<1>3. Len(files) \in Nat /\ Len(at) \in Nat
  BY <1>1
<1> QED BY <1>1, <1>2, <1>3 DEF Opening

LEMMA RecordsAre ==
  /\ Trail = Cat(Flat(files), Cat(old, buf))
  /\ Trail' = Cat(Flat(files'), Cat(old', buf'))
  /\ \A i : RecordsOf(i) = RecordsIn(files, old, buf, i)
  /\ \A i : RecordsOf(i)' = RecordsIn(files', old', buf', i)
  /\ RecordsOf(Len(files))' = RecordsIn(files', old', buf', Len(files'))
<1>1. GoneThrough = Flat(files) /\ GoneThrough' = Flat(files')
  BY DEF GoneThrough, Flat, Recs, Cat
<1>2. \A i : RecordsOf(i) = RecordsIn(files, old, buf, i)
  BY Zenon DEF RecordsOf, RecordsIn
<1>3. \A i : RecordsOf(i)' = RecordsIn(files', old', buf', i)
  BY Zenon DEF RecordsOf, RecordsIn
<1>4. RecordsOf(Len(files))' = RecordsIn(files', old', buf', Len(files'))
  BY Zenon DEF RecordsOf, RecordsIn
<1> QED BY <1>1, <1>2, <1>3, <1>4 DEF Trail, Cat

LEMMA FieldUpdate ==
  ASSUME NEW S, NEW T, NEW f \in File(S, T), NEW u
  PROVE  [f EXCEPT !.recs = u] = [sec |-> f.sec, recs |-> u, cut |-> f.cut]
BY DEF File

LEMMA FieldsUpdate ==
  ASSUME NEW S, NEW T, NEW f \in File(S, T), NEW u, NEW v
  PROVE  [f EXCEPT !.recs = u, !.cut = v] = [sec |-> f.sec, recs |-> u, cut |-> v]
<1> DEFINE U == Seq(T)
           g == [f EXCEPT !.recs = u]
           V == {u}
<1>1. u \in V
  OBVIOUS
<1> HIDE DEF V
<1>2. g = [sec |-> f.sec, recs |-> u, cut |-> f.cut]
  BY FieldUpdate
<1>3. f.sec \in S /\ f.cut \in U
  BY DEF File
<1> HIDE DEF U
<1>4. [sec |-> f.sec, recs |-> u, cut |-> f.cut] \in [sec: S, recs: V, cut: U]
  BY <1>1, <1>3
<1>5. g \in [sec: S, recs: V, cut: U] /\ g.sec = f.sec /\ g.recs = u
  BY <1>2, <1>4
<1>6. [f EXCEPT !.recs = u, !.cut = v] = [g EXCEPT !.cut = v]
  OBVIOUS
<1> HIDE DEF g
<1>7. [g EXCEPT !.cut = v] = [sec |-> g.sec, recs |-> g.recs, cut |-> v]
  BY <1>5
<1> QED BY <1>2, <1>5, <1>6, <1>7 DEF g

(* ToDisk is Put for a file that no close has touched.                     *)
LEMMA ToDiskPut ==
  ASSUME NEW T, files \in Seq(File(Secs, T)), files # <<>>,
         files[Len(files)].cut = <<>>, NEW r
  PROVE  ToDisk(r) = Put(files, Len(files), r, <<>>)
<1> DEFINE n == Len(files)
           f == files[n]
<1>1. f \in File(Secs, T) /\ f.cut = <<>>
  <2>1. n \in 1..n
    BY FileFields
  <2> QED BY <2>1, FileFields
<1>2. [f EXCEPT !.recs = f.recs \o r] = [sec |-> f.sec, recs |-> f.recs \o r, cut |-> <<>>]
  <2> HIDE DEF f
  <2>1. \A u : [f EXCEPT !.recs = u] = [sec |-> f.sec, recs |-> u, cut |-> f.cut]
    BY <1>1, FieldUpdate
  <2> QED BY <1>1, <2>1, Zenon
<1>3. ToDisk(r) = [files EXCEPT ![n] = [f EXCEPT !.recs = f.recs \o r]]
  BY DEF ToDisk
<1> QED BY <1>2, <1>3 DEF Put, Cat

(* shutFile is Put of some part of the buffer.                             *)
LEMMA ShutPut ==
  ASSUME NEW T, files \in Seq(File(Secs, T)), NEW n \in 1..Len(files),
         NEW b \in Seq(T), shutFile(n, b)
  PROVE  \E r, c \in Seq(T) : Cat(r, c) = b /\ files' = Put(files, n, r, c)
<1> DEFINE f == files[n]
<1>1. PICK i \in 0..Len(b) :
         files' = [files EXCEPT ![n].recs = @ \o SubSeq(b, 1, i),
                                ![n].cut  = SubSeq(b, i + 1, Len(b))]
  BY DEF shutFile
<1> DEFINE r == SubSeq(b, 1, i)
           c == SubSeq(b, i + 1, Len(b))
<1>2. r \in Seq(T) /\ c \in Seq(T) /\ Cat(r, c) = b
  BY SplitSeq
<1>3. files' = [files EXCEPT ![n].recs = @ \o r, ![n].cut = c]
  BY <1>1
<1> HIDE DEF r, c
<1>4. f \in File(Secs, T)
  BY FileFields
<1>5. [f EXCEPT !.recs = f.recs \o r, !.cut = c]
        = [sec |-> f.sec, recs |-> f.recs \o r, cut |-> c]
  <2> HIDE DEF f
  <2>1. \A u, v : [f EXCEPT !.recs = u, !.cut = v] = [sec |-> f.sec, recs |-> u, cut |-> v]
    BY <1>4, FieldsUpdate
  <2> QED BY <2>1, Zenon
<1>6. files' = [files EXCEPT ![n] = [f EXCEPT !.recs = f.recs \o r, !.cut = c]]
  BY <1>3, FileFields
<1>7. files' = Put(files, n, r, c)
  BY <1>5, <1>6 DEF Put, Cat
<1> QED BY <1>2, <1>7

(* The records b leave the buffer, c stay in it.                           *)
LEMMA MoveFacts ==
  ASSUME NEW T, files \in Seq(File(Secs, T)), files # <<>>,
         files[Len(files)].cut = <<>>, NEW b \in Seq(T), NEW c \in Seq(T),
         files' = ToDisk(b), buf' = c, old' = <<>>
  PROVE  /\ files' \in Seq(File(Secs, T)) /\ files' # <<>> /\ Len(files') = Len(files)
         /\ \A i \in 1..Len(files) : files'[i].sec = files[i].sec
         /\ files'[Len(files')].cut = <<>>
         /\ \A i \in 1..Len(files) : RecordsOf(i)' = RecordsIn(files, <<>>, Cat(b, c), i)
         /\ Trail' = Cat(Flat(files), Cat(b, c))
<1> DEFINE n == Len(files)
<1>e. n \in 1..n /\ n \in Nat /\ <<>> \in Seq(T)
  BY FileFields
<1>p. files' = Put(files, n, b, <<>>)
  BY ToDiskPut
<1>1. /\ files' \in Seq(File(Secs, T)) /\ Len(files') = n
      /\ \A i \in 1..n : i # n => files'[i] = files[i]
      /\ files'[n].sec = files[n].sec /\ files'[n].cut = <<>>
  <2> DEFINE e == <<>>
  <2>1. n \in 1..Len(files) /\ e \in Seq(T)
    BY <1>e
  <2> HIDE DEF e, n
  <2> DEFINE G == Put(files, n, b, e)
  <2>2. G \in Seq(File(Secs, T))
    BY <2>1, PutFile
  <2>3. Len(G) = Len(files) /\ \A i \in 1..Len(files) : i # n => G[i] = files[i]
    BY <2>1, PutFile
  <2>4. G[n].sec = files[n].sec /\ G[n].cut = e
    BY <2>1, PutAt
  <2> HIDE DEF G
  <2> QED BY <1>p, <2>2, <2>3, <2>4 DEF G, e, n
<1>2. \A i \in 1..n : files'[i].sec = files[i].sec
  BY <1>1
<1>3. \A i \in 1..n : RecordsOf(i)' = RecordsIn(files, <<>>, Cat(b, c), i)
  <2>1. \A i \in 1..n :
           RecordsIn(Put(files, n, b, <<>>), <<>>, c, i) = RecordsIn(files, <<>>, Cat(b, c), i)
    BY MoveRecords
  <2> QED BY <1>p, <2>1, RecordsAre, Zenon
<1>4. Flat(Put(files, n, b, <<>>)) = Cat(Flat(files), Cat(b, <<>>)) /\ Flat(files) \in Seq(T)
  <2>1. Flat(files) \in Seq(T)
    BY RecsType
  <2> DEFINE e == <<>>
  <2>2. e \in Seq(T)
    OBVIOUS
  <2> HIDE DEF e
  <2>3. Flat(Put(files, n, b, e)) = Cat(Flat(files), Cat(b, e))
    BY <1>e, <2>2, PutFlat
  <2> QED BY <2>1, <2>3 DEF e
<1>5. /\ \A a \in Seq(T) : Cat(Cat(a, b), c) = Cat(a, Cat(b, c))
      /\ Cat(b, <<>>) = b /\ Cat(<<>>, c) = c
  <2>1. \A a \in Seq(T) : /\ Cat(Cat(a, b), c) = Cat(a, Cat(b, c))
                          /\ Cat(a, <<>>) = a /\ Cat(<<>>, a) = a
    BY CatType, SMTT(30)
  <2> QED BY <2>1
<1>6. Trail' = Cat(Cat(Flat(files), b), c)
  BY <1>p, <1>4, <1>5, RecordsAre
<1>7. files' # <<>>
  BY <1>1
<1> QED BY <1>1, <1>2, <1>3, <1>4, <1>5, <1>6, <1>7

(* When no file is being closed, the open one is as no close has left it.  *)
LEMMA OpenFile ==
  ASSUME TypeOK, Opening, Shutting, opened, pc \in {"ready", "check"}
  PROVE  /\ files \in Seq(File(Secs, Records)) /\ files # <<>>
         /\ buf \in Seq(Records) /\ old = <<>>
         /\ files[Len(files)].cut = <<>>
BY FileTypes DEF Opening, Shutting

LEMMA FlushFacts ==
  ASSUME TypeOK, Opening, Shutting, opened, pc \in {"ready", "check"}, flushFile
  PROVE  /\ files' \in Seq(File(Secs, Records)) /\ buf' = <<>> /\ old' = <<>>
         /\ files' # <<>> /\ Len(files') = Len(files)
         /\ \A i \in 1..Len(files) : files'[i].sec = files[i].sec
         /\ files'[Len(files')].cut = <<>>
         /\ \A i \in 1..Len(files) : RecordsOf(i)' = RecordsOf(i)
         /\ Trail' = Trail
<1>1. /\ files \in Seq(File(Secs, Records)) /\ files # <<>> /\ buf \in Seq(Records)
      /\ old = <<>> /\ files[Len(files)].cut = <<>> /\ <<>> \in Seq(Records)
  BY OpenFile
<1>2. files' = ToDisk(buf) /\ buf' = <<>> /\ old' = <<>>
  BY <1>1 DEF flushFile
<1>3. Cat(buf, <<>>) = buf /\ Cat(<<>>, buf) = buf
  BY <1>1, CatType
<1>4. /\ files' \in Seq(File(Secs, Records)) /\ files' # <<>> /\ Len(files') = Len(files)
      /\ \A i \in 1..Len(files) : files'[i].sec = files[i].sec
      /\ files'[Len(files')].cut = <<>>
      /\ \A i \in 1..Len(files) : RecordsOf(i)' = RecordsIn(files, <<>>, Cat(buf, <<>>), i)
      /\ Trail' = Cat(Flat(files), Cat(buf, <<>>))
  BY <1>1, <1>2, MoveFacts
<1> QED BY <1>1, <1>2, <1>3, <1>4, RecordsAre

LEMMA OpenFacts ==
  ASSUME TypeOK, Opening, pc # "close", NEW s \in Secs, openFile(s)
  PROVE  /\ files' \in Seq(File(Secs, Records)) /\ buf' = <<>> /\ old' = buf
         /\ files' # <<>> /\ Len(files') = Len(files) + 1 /\ Len(files) \in Nat
         /\ \A i \in 1..Len(files) : files'[i] = files[i]
         /\ files'[Len(files) + 1].sec = s
         /\ files'[Len(files) + 1].recs = <<>> /\ files'[Len(files) + 1].cut = <<>>
         /\ \A i \in 1..Len(files) : RecordsOf(i)' = RecordsOf(i)
         /\ RecordsOf(Len(files))' = {}
         /\ Trail' = Trail
<1>1. /\ files \in Seq(File(Secs, Records)) /\ buf \in Seq(Records)
      /\ Flat(files) \in Seq(Records) /\ old = <<>>
  BY FileTypes DEF Opening
<1>2. files' = New(files, s) /\ buf' = <<>> /\ old' = buf
  BY DEF openFile, New
<1>3. /\ files' \in Seq(File(Secs, Records)) /\ Len(files') = Len(files) + 1
      /\ Len(files) \in Nat
      /\ \A i \in 1..Len(files) : files'[i] = files[i]
      /\ files'[Len(files) + 1].sec = s
      /\ files'[Len(files) + 1].recs = <<>> /\ files'[Len(files) + 1].cut = <<>>
      /\ Flat(files') = Flat(files)
  BY <1>1, <1>2, NewFile
<1>4. /\ \A i \in 1..Len(files) : RecordsIn(files', buf, <<>>, i) = RecordsIn(files, <<>>, buf, i)
      /\ RecordsIn(files', buf, <<>>, Len(files) + 1) = {}
  BY <1>1, <1>2, NewRecords
<1>5. files' # <<>>
  BY <1>3
<1>6. Cat(buf, <<>>) = buf /\ Cat(<<>>, buf) = buf
  BY <1>1, CatType
<1>7. Trail' = Trail
  BY <1>1, <1>2, <1>3, <1>6, RecordsAre
<1>8. /\ \A i \in 1..Len(files) : RecordsOf(i)' = RecordsOf(i)
      /\ RecordsOf(Len(files))' = {}
  BY <1>1, <1>2, <1>3, <1>4, RecordsAre
<1> QED BY <1>2, <1>3, <1>5, <1>7, <1>8

LEMMA WriteFacts ==
  ASSUME TypeOK, Opening, Shutting, opened, pc = "ready",
         NEW k, k = Len(at) + 1, NEW l, writeFile(k, l)
  PROVE  /\ files' \in Seq(File(Secs, 1..k)) /\ buf' \in Seq(1..k)
         /\ old' = <<>> /\ files' # <<>> /\ Len(files') = Len(files)
         /\ \A i \in 1..Len(files) : files'[i].sec = files[i].sec
         /\ files'[Len(files')].cut = <<>>
         /\ \A i \in 1..Len(files) : i # Len(files) => RecordsOf(i)' = RecordsOf(i)
         /\ RecordsOf(Len(files))' = RecordsOf(Len(files)) \cup {k}
         /\ Trail' = Append(Trail, k)
         /\ \A i \in 1..Len(buf') :
               buf'[i] = k \/ \E j \in 1..Len(buf) : buf'[i] = buf[j]
<1>1. /\ files \in Seq(File(Secs, Records)) /\ files # <<>> /\ buf \in Seq(Records)
      /\ Len(files) \in Nat /\ Len(at) \in Nat
      /\ old = <<>> /\ old' = <<>> /\ files[Len(files)].cut = <<>>
  BY FileTypes, OpenFile DEF writeFile
<1>2. Records \subseteq 1..k /\ k \in 1..k /\ k \in Nat
  BY <1>1 DEF Records
<1>3. files \in Seq(File(Secs, 1..k)) /\ buf \in Seq(1..k)
  BY <1>1, <1>2, FileSubset
<1> DEFINE c == Append(buf, k)
<1>4. /\ c \in Seq(1..k) /\ Len(c) = Len(buf) + 1 /\ Len(buf) \in Nat
      /\ \A j \in 1..Len(c) : c[j] = k \/ (j \in 1..Len(buf) /\ c[j] = buf[j])
  BY <1>2, <1>3
<1>5. PICK i \in 0..Len(c) : /\ files' = ToDisk(SubSeq(c, 1, i))
                             /\ buf' = SubSeq(c, i + 1, Len(c))
  BY <1>4 DEF writeFile
<1>6. ToSet(c) = ToSet(buf) \cup {k}
  <2>1. buf \in Seq(1..k) /\ k \in 1..k
    BY <1>2, <1>3
  <2> QED BY <2>1, ToSetAppend, SMTT(30)
<1>7. Cat(Flat(files), c) = Append(Trail, k)
  <2>1. Flat(files) \in Seq(1..k)
    BY <1>3, RecsType
  <2> DEFINE a == Flat(files)
  <2> HIDE DEF a
  <2>2. a \o Append(buf, k) = Append(a \o buf, k)
    BY <1>2, <1>3, <2>1, SMTT(30) DEF a
  <2>3. Trail = a \o buf
    <3>1. Cat(<<>>, buf) = buf
      BY <1>3, CatType
    <3> QED BY <1>1, <3>1, RecordsAre DEF Cat, a
  <2> QED BY <2>2, <2>3 DEF a, Cat
<1> HIDE DEF c
<1>8. /\ SubSeq(c, 1, i) \in Seq(1..k) /\ SubSeq(c, i + 1, Len(c)) \in Seq(1..k)
      /\ Cat(SubSeq(c, 1, i), SubSeq(c, i + 1, Len(c))) = c
  BY <1>4, <1>5, SplitSeq
<1>9. /\ files' \in Seq(File(Secs, 1..k)) /\ files' # <<>> /\ Len(files') = Len(files)
      /\ \A j \in 1..Len(files) : files'[j].sec = files[j].sec
      /\ files'[Len(files')].cut = <<>>
      /\ \A j \in 1..Len(files) : RecordsOf(j)' = RecordsIn(files, <<>>, c, j)
      /\ Trail' = Cat(Flat(files), c)
  <2> DEFINE p == SubSeq(c, 1, i)
             q == SubSeq(c, i + 1, Len(c))
  <2> HIDE DEF p, q
  <2>1. /\ files' \in Seq(File(Secs, 1..k)) /\ files' # <<>> /\ Len(files') = Len(files)
        /\ \A j \in 1..Len(files) : files'[j].sec = files[j].sec
        /\ files'[Len(files')].cut = <<>>
        /\ \A j \in 1..Len(files) : RecordsOf(j)' = RecordsIn(files, <<>>, Cat(p, q), j)
        /\ Trail' = Cat(Flat(files), Cat(p, q))
    BY <1>1, <1>3, <1>5, <1>8, MoveFacts, ZenonT(60) DEF p, q
  <2>2. Cat(p, q) = c
    BY <1>8 DEF p, q
  <2> QED BY <2>1, <2>2
<1>10. \A j \in 1..Len(files) : j # Len(files) => RecordsOf(j)' = RecordsOf(j)
  <2>1. \A j : RecordsOf(j) = RecordsIn(files, <<>>, buf, j)
    BY <1>1, RecordsAre
  <2> QED BY <1>9, <2>1 DEF RecordsIn
<1>11. RecordsOf(Len(files))' = RecordsOf(Len(files)) \cup {k}
  <2>1. Len(files) \in 1..Len(files)
    BY <1>1
  <2>2. RecordsOf(Len(files))' = ToSet(files[Len(files)].recs) \cup ToSet(c)
    BY <1>9, <2>1 DEF RecordsIn
  <2>3. RecordsOf(Len(files)) = ToSet(files[Len(files)].recs) \cup ToSet(buf)
    BY <1>1 DEF RecordsOf
  <2> QED BY <1>6, <2>2, <2>3
<1>12. Trail' = Append(Trail, k)
  BY <1>7, <1>9, RecordsAre
<1>13. \A j \in 1..Len(buf') : buf'[j] = k \/ \E h \in 1..Len(buf) : buf'[j] = buf[h]
  <2> SUFFICES ASSUME NEW j \in 1..Len(buf')
               PROVE  buf'[j] = k \/ \E h \in 1..Len(buf) : buf'[j] = buf[h]
    OBVIOUS
  <2>1. i + j \in 1..Len(c) /\ buf'[j] = c[i + j]
    BY <1>4, <1>5
  <2> QED BY <1>4, <2>1
<1> QED BY <1>1, <1>5, <1>8, <1>9, <1>10, <1>11, <1>12, <1>13

-----------------------------------------------------------------------------
(***************************************************************************)
(* The kinds of steps, by what they do to files, buffer and histories      *)
(***************************************************************************)
Quiet ==
  /\ pc \in {"close", "closed", "dead"} \/ pc' \in {"ctor", "check", "close"} => pc' = pc
  /\ UNCHANGED <<lastDay, lastRoll, lastFlush, opened, buf, old, files, at>>

Drop ==
  /\ buf' = <<>> /\ old' = <<>> /\ pc' = "dead"
  /\ UNCHANGED <<lastDay, lastRoll, lastFlush, opened, files, at>>

Flush ==
  /\ opened /\ pc \in {"ready", "check"} /\ pc' = "ready"
  /\ flushFile
  /\ lastFlush' \in {lastFlush, now}
  /\ UNCHANGED <<lastDay, lastRoll, at>>

Open ==
  /\ pc \in {"ctor", "check"} /\ now > lastRoll
  /\ openFile(now)
  /\ lastRoll' = now /\ lastFlush' = now /\ lastDay' = now \div Day
  /\ UNCHANGED at

Write ==
  /\ opened /\ pc = "ready" /\ pc' = "check"
  /\ \E l : writeFile(Len(at) + 1, l)
  /\ at' = Append(at, now)
  /\ UNCHANGED <<lastDay, lastRoll, lastFlush>>

(* A close, of the open file by the destructor or of the one before it at  *)
(* the end of a roll.                                                      *)
Shut ==
  /\ \/ pc = "ready" /\ opened /\ shutFile(Len(files), buf) /\ pc' = "closed"
     \/ pc = "close" /\ shutFile(Len(files) - 1, old) /\ pc' = "ready"
  /\ buf' = <<>> /\ old' = <<>>
  /\ UNCHANGED <<lastDay, lastRoll, lastFlush, opened, at>>

LEMMA ShutFacts ==
  ASSUME TypeOK, Opening, Shutting, Shut
  PROVE  /\ opened
         /\ files' \in Seq(File(Secs, Records)) /\ buf' = <<>> /\ old' = <<>>
         /\ files' # <<>> /\ Len(files') = Len(files)
         /\ \A i \in 1..Len(files) : files'[i].sec = files[i].sec
         /\ pc = "close" => files'[Len(files')].cut = <<>>
         /\ \A i \in 1..Len(files) : RecordsOf(i)' \subseteq RecordsOf(i)
         /\ Trail' = Trail
<1>1. /\ files \in Seq(File(Secs, Records)) /\ buf \in Seq(Records) /\ old \in Seq(Records)
      /\ Flat(files) \in Seq(Records) /\ opened /\ files # <<>>
      /\ buf' = <<>> /\ old' = <<>>
  BY FileTypes DEF Opening, Shut
<1>2. Len(files) \in Nat /\ Len(files) \in 1..Len(files)
  BY <1>1, FileFields
<1>3. PICK n \in 1..Len(files), b \in Seq(Records) :
         /\ shutFile(n, b) /\ files[n].cut = <<>> /\ Cat(old, buf) = b
         /\ \/ n = Len(files) /\ b = buf /\ pc = "ready"
            \/ /\ n = Len(files) - 1 /\ b = old /\ pc = "close"
               /\ files[Len(files)].recs = <<>> /\ files[Len(files)].cut = <<>>
  <2>1. CASE pc = "ready"
    <3>1. /\ shutFile(Len(files), buf) /\ files[Len(files)].cut = <<>> /\ old = <<>>
      BY <1>1, <2>1 DEF Shut, Opening, Shutting
    <3>2. Cat(<<>>, buf) = buf
      BY <1>1, CatType
    <3> QED BY <1>1, <1>2, <2>1, <3>1, <3>2
  <2>2. CASE pc = "close"
    <3>1. /\ shutFile(Len(files) - 1, old) /\ files[Len(files)].cut = <<>>
          /\ files[Len(files)].recs = <<>> /\ files[Len(files) - 1].cut = <<>>
          /\ Len(files) > 1 /\ buf = <<>>
      BY <1>1, <2>2 DEF Shut, Opening, Shutting
    <3>2. Cat(old, <<>>) = old
      BY <1>1, CatType
    <3>3. Len(files) - 1 \in 1..Len(files)
      BY <1>2, <3>1
    <3> QED BY <1>1, <2>2, <3>1, <3>2, <3>3
  <2> QED BY <2>1, <2>2 DEF Shut
<1>4. PICK r \in Seq(Records), c \in Seq(Records) :
         Cat(r, c) = b /\ files' = Put(files, n, r, c)
  BY <1>1, <1>3, ShutPut, Zenon
<1>5. /\ files' \in Seq(File(Secs, Records)) /\ Len(files') = Len(files)
      /\ \A i \in 1..Len(files) : i # n => files'[i] = files[i]
      /\ files'[n].sec = files[n].sec
  <2> DEFINE F == files
             T == Records
             G == Put(F, n, r, c)
  <2>1. F \in Seq(File(Secs, T)) /\ n \in 1..Len(F) /\ r \in Seq(T) /\ c \in Seq(T)
    BY <1>1
  <2> HIDE DEF F, T
  <2>2. /\ G \in Seq(File(Secs, T)) /\ Len(G) = Len(F)
        /\ \A i \in 1..Len(F) : i # n => G[i] = F[i]
        /\ G[n].sec = F[n].sec
    <3>1. G \in Seq(File(Secs, T))
      BY <2>1, PutFile
    <3>2. Len(G) = Len(F) /\ \A i \in 1..Len(F) : i # n => G[i] = F[i]
      BY <2>1, PutFile
    <3>3. G[n].sec = F[n].sec
      BY <2>1, PutAt
    <3> QED BY <3>1, <3>2, <3>3
  <2> HIDE DEF G
  <2> QED BY <1>4, <2>2 DEF F, G, T
<1>6. Flat(files') = Cat(Flat(files), Cat(r, c))
  BY <1>1, <1>3, <1>4, PutFlat
<1>7. Trail' = Trail
  <2>1. Trail' = Cat(Flat(files'), Cat(<<>>, <<>>)) /\ Trail = Cat(Flat(files), b)
    BY <1>1, <1>3, RecordsAre
  <2>2. Cat(<<>>, <<>>) = <<>>
    BY DEF Cat
  <2>3. Flat(files') \in Seq(Records)
    BY <1>5, RecsType
  <2>4. Cat(Flat(files'), <<>>) = Flat(files')
    BY <2>3, CatType
  <2> QED BY <1>4, <1>6, <2>1, <2>2, <2>4
<1>8. \A i \in 1..Len(files) : RecordsOf(i)' \subseteq RecordsOf(i)
  <2>1. \A i \in 1..Len(files) :
           RecordsIn(Put(files, n, r, c), <<>>, <<>>, i) \subseteq RecordsIn(files, old, buf, i)
    BY <1>1, <1>3, <1>4, ShutRecords
  <2> QED BY <1>1, <1>4, <2>1, RecordsAre
<1>9. \A i \in 1..Len(files) : files'[i].sec = files[i].sec
  BY <1>5
<1>10. files' # <<>>
  BY <1>2, <1>5
<1>11. pc = "close" => files'[Len(files')].cut = <<>>
  <2> SUFFICES ASSUME pc = "close" PROVE files'[Len(files')].cut = <<>>
    OBVIOUS
  <2>1. n # Len(files) /\ files[Len(files)].cut = <<>>
    BY <1>2, <1>3
  <2> QED BY <1>2, <1>5, <2>1
<1> QED BY <1>1, <1>5, <1>7, <1>8, <1>9, <1>10, <1>11

LEMMA RollKind ==
  ASSUME NEW bytes, rollFile(bytes), UNCHANGED at, pc \in {"ctor", "check"}
  PROVE  \/ Quiet /\ ~ (now > lastRoll) /\ written' = bytes /\ pc' = "ready"
         \/ Open /\ written' = 0 /\ pc' \in {"ready", "close"}
BY DEF rollFile, Quiet, Open, openFile, rollVars

LEMMA LookKind ==
  ASSUME Opening, lookAtClock
  PROVE  \/ Open /\ written' = 0 /\ pc' \in {"ready", "close"}
         \/ /\ Quiet /\ written' = written /\ pc' = "ready"
            /\ now \div Day # lastDay /\ ~ (now > lastRoll)
         \/ /\ Flush /\ written' = written /\ pc' = "ready"
            /\ now \div Day = lastDay
         \/ /\ Quiet /\ written' = written /\ pc' = "ready"
            /\ now \div Day = lastDay /\ ~ (now >= lastFlush + FlushInterval)
<1>0. dayOrFlush /\ opened /\ UNCHANGED at /\ pc = "check"
  BY DEF lookAtClock, Opening
<1>1. CASE now \div Day # lastDay
  <2>1. rollFile(written)
    BY <1>0, <1>1 DEF dayOrFlush
  <2> QED BY <1>0, <1>1, <2>1, RollKind
<1>2. CASE now \div Day = lastDay /\ now >= lastFlush + FlushInterval
  BY <1>0, <1>2 DEF dayOrFlush, Flush, flushFile
<1>3. CASE now \div Day = lastDay /\ ~ (now >= lastFlush + FlushInterval)
  BY <1>0, <1>3 DEF dayOrFlush, Quiet, rollVars, fileVars
<1> QED BY <1>1, <1>2, <1>3

(* the ends of the process and of the LogFile                              *)
Ending == nullFile \/ destroy \/ openFails \/ writeFails \/ killed

LEMMA EndKind ==
  ASSUME Opening, Ending
  PROVE  /\ Quiet \/ Drop \/ Shut
         /\ pc \notin {"closed", "dead"} /\ pc' \in {"closed", "dead"}
         /\ UNCHANGED <<now, backs, count, opened, written, len, at, checked>>
<1>1. CASE nullFile
  BY <1>1 DEF nullFile, Quiet, clockVars, rollVars, fileVars, histVars
<1>2. CASE destroy
  <2>1. /\ pc = "ready" /\ pc' = "closed" /\ old = <<>> /\ old' = <<>> /\ buf' = <<>>
        /\ UNCHANGED <<now, backs, lastDay, lastRoll, lastFlush, count, opened, written,
                       len, at, checked>>
    BY <1>2 DEF destroy, Opening, clockVars, rollVars, histVars
  <2>2. CASE opened
    BY <1>2, <2>1, <2>2 DEF destroy, Shut
  <2>3. CASE ~opened
    BY <1>2, <2>1, <2>3 DEF destroy, Opening, Quiet
  <2> QED BY <2>1, <2>2, <2>3
<1>3. CASE openFails \/ writeFails \/ killed
  BY <1>3 DEF openFails, writeFails, killed, dies, Drop, clockVars, rollVars, histVars
<1> QED BY <1>1, <1>2, <1>3 DEF Ending

LEMMA CloseKind ==
  ASSUME Shutting, closeFile
  PROVE  /\ Shut /\ pc = "close" /\ pc' = "ready"
         /\ UNCHANGED <<now, backs, count, opened, written, len, at, checked>>
BY DEF Shutting, closeFile, Shut, clockVars, rollVars, histVars

LEMMA StepShape ==
  ASSUME LInv, [Next]_vars
  PROVE  /\ Quiet \/ Drop \/ Flush \/ Open \/ Write \/ Shut
         /\ backs' = 0 => backs = 0 /\ now' >= now
<1>0. Opening /\ Shutting /\ now \in Nat /\ backs \in Nat
  BY Constants DEF LInv, TypeOK
<1>1. CASE construct \/ rollSize
  <2>1. /\ rollFile(0) /\ UNCHANGED at /\ now' = now /\ backs' = backs
        /\ pc \in {"ctor", "check"}
    BY <1>1 DEF construct, rollSize, clockVars, histVars
  <2> QED BY <1>0, <2>1, RollKind
<1>2. CASE Ending
  BY <1>0, <1>2, EndKind
<1>3. ASSUME NEW l \in 1..MaxLen, append(l)
      PROVE  Write /\ now' = now /\ backs' = backs
  BY <1>3 DEF append, Write, clockVars, rollVars
<1>4. CASE closeFile
  BY <1>0, <1>4, CloseKind
<1>5. CASE countOn
  BY <1>0, <1>5 DEF countOn, Quiet, clockVars, rollVars, fileVars, histVars
<1>6. CASE lookAtClock
  <2>1. now' = now /\ backs' = backs
    BY <1>6 DEF lookAtClock, clockVars
  <2>2. Quiet \/ Flush \/ Open
    BY <1>0, <1>6, LookKind
  <2> QED BY <1>0, <2>1, <2>2
<1>7. CASE flush
  BY <1>0, <1>7 DEF flush, Flush, clockVars, rollVars, histVars
<1>8. CASE tick \/ setBack
  <2>1. Quiet
    BY <1>8 DEF tick, setBack, Quiet, rollVars, fileVars, histVars
  <2>2. backs' = 0 => backs = 0 /\ now' >= now
    BY <1>0, <1>8 DEF tick, setBack
  <2> QED BY <2>1, <2>2
<1>9. CASE UNCHANGED vars
  BY <1>0, <1>9 DEF Quiet, vars, clockVars, rollVars, fileVars, histVars
<1> QED
  BY <1>0, <1>1, <1>2, <1>3, <1>4, <1>5, <1>6, <1>7, <1>8, <1>9 DEF Next, Ending

-----------------------------------------------------------------------------
(***************************************************************************)
(* Type correctness                                                        *)
(***************************************************************************)

(* the part of TypeOK that the kinds of steps decide                       *)
FilesTyped ==
  /\ {lastDay, lastRoll, lastFlush} \subseteq 0..MaxTime
  /\ opened \in BOOLEAN
  /\ buf \in Seq(Records) /\ old \in Seq(Records)
  /\ files \in Seq([sec: 0..MaxTime, recs: Seq(Records), cut: Seq(Records)])
  /\ at \in Seq(0..MaxTime)

LEMMA FilesTypedStep ==
  ASSUME LInv, [Next]_vars
  PROVE  FilesTyped'
<1>0. /\ TypeOK /\ Opening /\ Shutting /\ now \in Secs /\ opened \in BOOLEAN
      /\ {lastDay, lastRoll, lastFlush} \subseteq 0..MaxTime
      /\ buf \in Seq(Records) /\ old \in Seq(Records)
      /\ files \in Seq([sec: 0..MaxTime, recs: Seq(Records), cut: Seq(Records)])
      /\ at \in Seq(0..MaxTime) /\ Len(at) \in Nat
  BY FileTypes DEF LInv, TypeOK, Secs
<1>1. File(Secs, Records) = [sec: 0..MaxTime, recs: Seq(Records), cut: Seq(Records)]
  BY DEF File, Secs
<1>2. UNCHANGED at => Records' = Records
  BY DEF Records
<1>3. CASE Quiet
  BY <1>0, <1>2, <1>3 DEF Quiet, FilesTyped
<1>4. CASE Drop
  BY <1>0, <1>2, <1>4 DEF Drop, FilesTyped
<1>5. CASE Flush
  <2>1. files' \in Seq(File(Secs, Records)) /\ buf' = <<>> /\ old' = <<>>
    BY <1>0, <1>5, FlushFacts DEF Flush
  <2>2. opened' = opened /\ lastFlush' \in 0..MaxTime
    BY <1>0, <1>5 DEF Flush, flushFile, Secs
  <2>3. buf' \in Seq(Records) /\ old' \in Seq(Records)
    BY <2>1
  <2>4. UNCHANGED <<lastDay, lastRoll, at>>
    BY <1>5 DEF Flush
  <2> QED BY <1>0, <1>1, <1>2, <2>1, <2>2, <2>3, <2>4 DEF FilesTyped
<1>6. CASE Open
  <2>1. files' \in Seq(File(Secs, Records)) /\ buf' = <<>> /\ old' = buf
    BY <1>0, <1>6, OpenFacts DEF Open
  <2>2. opened' = TRUE
    BY <1>6 DEF Open, openFile
  <2>3. buf' \in Seq(Records) /\ old' \in Seq(Records)
    BY <1>0, <2>1
  <2>4. /\ lastRoll' \in 0..MaxTime /\ lastFlush' \in 0..MaxTime
        /\ lastDay' \in 0..MaxTime /\ at' = at
    <3>1. now \in Nat /\ now <= MaxTime /\ MaxTime \in Nat /\ Day \in Nat \ {0}
      BY <1>0, Constants DEF Secs
    <3>2. now \div Day \in Nat /\ now \div Day <= now
      BY <3>1, DivType
    <3>3. now \div Day \in 0..MaxTime /\ now \in 0..MaxTime
      BY <3>1, <3>2
    <3> QED BY <1>6, <3>3 DEF Open
  <2> QED BY <1>0, <1>1, <1>2, <2>1, <2>2, <2>3, <2>4 DEF FilesTyped
<1>7. CASE Write
  <2>1. PICK l : writeFile(Len(at) + 1, l)
    BY <1>7 DEF Write
  <2>2. /\ files' \in Seq(File(Secs, 1..Len(at) + 1)) /\ buf' \in Seq(1..Len(at) + 1)
        /\ old' = <<>>
    BY <1>0, <1>7, <2>1, WriteFacts DEF Write
  <2>3. /\ at' \in Seq(0..MaxTime) /\ Len(at') = Len(at) + 1
    BY <1>0, <1>7 DEF Write, Secs
  <2>4. Records' = 1..Len(at) + 1
    BY <2>3 DEF Records
  <2>5. opened' = opened /\ UNCHANGED <<lastDay, lastRoll, lastFlush>>
    BY <1>7, <2>1 DEF Write, writeFile
  <2>6. File(Secs, 1..Len(at) + 1) = [sec: 0..MaxTime, recs: Seq(1..Len(at) + 1),
                                      cut: Seq(1..Len(at) + 1)]
    BY DEF File, Secs
  <2>7. <<>> \in Seq(Records')
    OBVIOUS
  <2> QED BY <1>0, <2>2, <2>3, <2>4, <2>5, <2>6, <2>7 DEF FilesTyped
<1>8. CASE Shut
  <2>1. files' \in Seq(File(Secs, Records)) /\ buf' = <<>> /\ old' = <<>>
    BY <1>0, <1>8, ShutFacts
  <2>2. <<>> \in Seq(Records)
    OBVIOUS
  <2>3. UNCHANGED <<lastDay, lastRoll, lastFlush, opened, at>>
    BY <1>8 DEF Shut
  <2> QED BY <1>0, <1>1, <1>2, <2>1, <2>2, <2>3 DEF FilesTyped
<1> QED BY <1>3, <1>4, <1>5, <1>6, <1>7, <1>8, StepShape

(* and the rest of it                                                      *)
RestTyped ==
  /\ now \in 0..MaxTime /\ backs \in 0..MaxBack
  /\ pc \in {"ctor", "ready", "check", "close", "closed", "dead"}
  /\ count \in 0..CheckPerCount - 1
  /\ written \in 0..RollSize + MaxLen
  /\ pc \in {"ready", "close"} => written <= RollSize
  /\ len \in Seq(1..MaxLen) /\ Len(len) = Len(at)
  /\ checked.upto \in 0..Len(at) /\ checked.time \in 0..MaxTime

LEMMA TypeParts == (TypeOK <=> FilesTyped /\ RestTyped)
                   /\ (TypeOK' <=> FilesTyped' /\ RestTyped')
BY DEF TypeOK, FilesTyped, RestTyped

LEMMA RestTypedStep ==
  ASSUME LInv, [Next]_vars
  PROVE  RestTyped'
<1>0. /\ RestTyped /\ Opening /\ Shutting /\ Len(at) \in Nat /\ at \in Seq(0..MaxTime)
  BY TypeParts, FileTypes DEF LInv, FilesTyped
<1>c. /\ RollSize \in Nat \ {0} /\ CheckPerCount \in Nat \ {0} /\ MaxLen \in Nat \ {0}
      /\ MaxTime \in Nat /\ MaxBack \in Nat
  BY Constants
<1> USE DEF RestTyped
<1>1. CASE construct \/ rollSize
  <2>1. /\ rollFile(0) /\ UNCHANGED <<clockVars, count, histVars>> /\ pc \in {"ctor", "check"}
    BY <1>1 DEF construct, rollSize
  <2>2. written' = 0 /\ pc' \in {"ready", "close"}
    BY <2>1, RollKind DEF histVars
  <2> QED BY <1>0, <1>c, <2>1, <2>2 DEF clockVars, histVars
<1>2. CASE Ending
  <2>1. /\ pc' \in {"closed", "dead"}
        /\ UNCHANGED <<now, backs, count, opened, written, len, at, checked>>
    BY <1>0, <1>2, EndKind
  <2> QED BY <1>0, <2>1
<1>3. ASSUME NEW l \in 1..MaxLen, append(l) PROVE RestTyped'
  <2>1. /\ pc = "ready" /\ pc' = "check" /\ written' = written + l
        /\ len' = Append(len, l) /\ at' = Append(at, now)
        /\ UNCHANGED <<now, backs, count, checked>>
    BY <1>3 DEF append, writeFile, clockVars
  <2>2. written' \in 0..RollSize + MaxLen
    BY <1>0, <1>c, <2>1
  <2>3. /\ len' \in Seq(1..MaxLen) /\ Len(len') = Len(len) + 1
        /\ Len(at') = Len(at) + 1
    BY <1>0, <2>1
  <2>4. checked'.upto \in 0..Len(at') /\ checked'.time \in 0..MaxTime
    BY <1>0, <2>1, <2>3
  <2> QED BY <1>0, <2>1, <2>2, <2>3, <2>4
<1>4. CASE closeFile
  <2>1. /\ pc = "close" /\ pc' = "ready"
        /\ UNCHANGED <<now, backs, count, opened, written, len, at, checked>>
    BY <1>0, <1>4, CloseKind
  <2> QED BY <1>0, <2>1
<1>5. CASE countOn
  BY <1>0, <1>c, <1>5 DEF countOn, clockVars, fileVars, histVars
<1>6. CASE lookAtClock
  <2>1. /\ written <= RollSize /\ count' = 0
        /\ checked' = [upto |-> Len(at), time |-> now]
        /\ UNCHANGED <<now, backs, len, at>>
    BY <1>6 DEF lookAtClock, clockVars
  <2>2. written' \in {0, written} /\ pc' \in {"ready", "close"}
    BY <1>0, <1>6, LookKind
  <2>3. checked'.upto \in 0..Len(at') /\ checked'.time \in 0..MaxTime
    BY <1>0, <2>1
  <2> QED BY <1>0, <1>c, <2>1, <2>2, <2>3
<1>7. CASE flush
  BY <1>0, <1>7 DEF flush, flushFile, clockVars, histVars
<1>10. CASE tick \/ setBack
  <2>1. UNCHANGED <<pc, count, written, len, at, checked>>
    BY <1>10 DEF tick, setBack, fileVars, histVars
  <2>2. now' \in 0..MaxTime /\ backs' \in 0..MaxBack
    BY <1>0, <1>c, <1>10, SMTT(30) DEF tick, setBack
  <2> QED BY <1>0, <2>1, <2>2
<1>11. CASE UNCHANGED vars
  BY <1>0, <1>11 DEF vars, clockVars, fileVars, histVars
<1> QED BY <1>1, <1>2, <1>3, <1>4, <1>5, <1>6, <1>7, <1>10, <1>11 DEF Next, Ending

-----------------------------------------------------------------------------
(***************************************************************************)
(* The files and their numbering                                           *)
(***************************************************************************)
LEMMA OpeningStep ==
  ASSUME LInv, [Next]_vars
  PROVE  Opening'
<1>0. TypeOK /\ Opening /\ Shutting /\ now \in Secs /\ Len(files) \in Nat
  BY FileTypes DEF LInv, TypeOK, Secs
<1> DEFINE Core == /\ opened' <=> files' # <<>>
                   /\ ~opened' => buf' = <<>>
                   /\ opened' => /\ files'[Len(files')].sec = lastRoll'
                                 /\ lastDay' = lastRoll' \div Day
<1>1. CASE Quiet
  BY <1>0, <1>1 DEF Quiet, Opening
<1>2. CASE Drop
  BY <1>0, <1>2 DEF Drop, Opening
<1>3. CASE Len(files') = Len(files) /\ (Flush \/ Write \/ Shut)
  <2>1. /\ files' # <<>> /\ opened /\ old' = <<>>
        /\ \A i \in 1..Len(files) : files'[i].sec = files[i].sec
    <3>1. CASE Flush
      BY <1>0, <3>1, FlushFacts DEF Flush
    <3>2. CASE Write
      <4>1. PICK l : writeFile(Len(at) + 1, l)
        BY <3>2 DEF Write
      <4> QED BY <1>0, <3>2, <4>1, WriteFacts DEF Write
    <3>3. CASE Shut
      BY <1>0, <3>3, ShutFacts
    <3> QED BY <1>3, <3>1, <3>2, <3>3
  <2>2. opened' = opened /\ UNCHANGED <<lastDay, lastRoll>> /\ pc' \notin {"ctor", "close"}
    BY <1>3 DEF Flush, flushFile, Write, writeFile, Shut
  <2>3. Len(files) \in 1..Len(files)
    BY <1>0, <2>1, FileTypes
  <2>4. Core
    BY <1>0, <1>3, <2>1, <2>2, <2>3 DEF Opening
  <2> QED BY <2>1, <2>2, <2>4 DEF Opening
<1>4. CASE Open
  <2>1. /\ files' # <<>> /\ Len(files') = Len(files) + 1
        /\ files'[Len(files) + 1].sec = now /\ old' = buf
    BY <1>0, <1>4, OpenFacts DEF Open
  <2>2. /\ opened' /\ lastRoll' = now /\ lastDay' = now \div Day
        /\ pc' = IF opened THEN "close" ELSE "ready"
    BY <1>4 DEF Open, openFile
  <2>3. pc' # "close" => old' = <<>>
    BY <1>0, <2>1, <2>2 DEF Opening
  <2> QED BY <2>1, <2>2, <2>3 DEF Opening
<1>5. Flush \/ Write \/ Shut => Len(files') = Len(files)
  <2>1. CASE Flush
    BY <1>0, <2>1, FlushFacts DEF Flush
  <2>2. CASE Write
    <3>1. PICK l : writeFile(Len(at) + 1, l)
      BY <2>2 DEF Write
    <3> QED BY <1>0, <2>2, <3>1, WriteFacts DEF Write
  <2>3. CASE Shut
    BY <1>0, <2>3, ShutFacts
  <2> QED BY <2>1, <2>2, <2>3
<1> QED BY <1>1, <1>2, <1>3, <1>4, <1>5, StepShape

LEMMA ShuttingStep ==
  ASSUME LInv, [Next]_vars
  PROVE  Shutting'
<1>0. TypeOK /\ Opening /\ Shutting /\ now \in Secs /\ Len(files) \in Nat
  BY FileTypes DEF LInv, TypeOK, Secs
<1>1. CASE Quiet
  <2>1. /\ UNCHANGED <<opened, buf, files>>
        /\ pc \in {"close", "closed", "dead"} \/ pc' \in {"ctor", "check", "close"} => pc' = pc
    BY <1>1 DEF Quiet
  <2>2. opened => pc \in {"ready", "check", "close", "closed", "dead"}
    BY <1>0 DEF TypeOK, Opening
  <2>3. opened /\ pc' \in {"ready", "check", "close"} => pc \in {"ready", "check", "close"}
    BY <2>1, <2>2
  <2>4. pc' = "close" => pc = "close"
    BY <2>1
  <2> QED BY <1>0, <2>1, <2>3, <2>4 DEF Shutting
<1>2. CASE Drop
  BY <1>2 DEF Drop, Shutting
<1>3. CASE Flush
  <2>1. files'[Len(files')].cut = <<>> /\ pc' = "ready"
    BY <1>0, <1>3, FlushFacts DEF Flush
  <2> QED BY <2>1 DEF Shutting
<1>4. CASE Open
  <2>1. /\ Len(files') = Len(files) + 1 /\ buf' = <<>>
        /\ \A i \in 1..Len(files) : files'[i] = files[i]
        /\ files'[Len(files) + 1].recs = <<>> /\ files'[Len(files) + 1].cut = <<>>
    BY <1>0, <1>4, OpenFacts DEF Open
  <2>2. pc \in {"ctor", "check"} /\ pc' = IF opened THEN "close" ELSE "ready"
    BY <1>4 DEF Open, openFile
  <2>3. pc' = "close" => opened /\ files[Len(files)].cut = <<>>
    BY <1>0, <2>2 DEF Opening, Shutting
  <2>4. pc' = "close" => Len(files) \in 1..Len(files) /\ Len(files) + 1 > 1
    BY <1>0, <2>3, FileTypes
  <2>5. Len(files') - 1 = Len(files)
    BY <1>0, <2>1
  <2> QED BY <2>1, <2>3, <2>4, <2>5 DEF Shutting
<1>5. CASE Write
  <2>1. PICK l : writeFile(Len(at) + 1, l)
    BY <1>5 DEF Write
  <2>2. files'[Len(files')].cut = <<>> /\ pc' = "check"
    BY <1>0, <1>5, <2>1, WriteFacts DEF Write
  <2> QED BY <2>2 DEF Shutting
<1>6. CASE Shut
  <2>1. pc = "close" => files'[Len(files')].cut = <<>>
    BY <1>0, <1>6, ShutFacts
  <2>2. \/ pc = "ready" /\ pc' = "closed"
        \/ pc = "close" /\ pc' = "ready"
    BY <1>6 DEF Shut
  <2> QED BY <2>1, <2>2 DEF Shutting
<1> QED BY <1>1, <1>2, <1>3, <1>4, <1>5, <1>6, StepShape

LEMMA NumberedStep ==
  ASSUME LInv, [Next]_vars
  PROVE  Numbered'
<1>0. /\ TypeOK /\ Opening /\ Shutting /\ Numbered /\ now \in Secs
      /\ Len(at) \in Nat /\ at \in Seq(0..MaxTime)
  BY FileTypes DEF LInv, TypeOK, Secs
<1>1. Flat(files) \in Seq(Records) /\ buf \in Seq(Records) /\ old \in Seq(Records)
  BY <1>0, FileTypes
<1>2. /\ Trail \in Seq(Records) /\ Trail = Flat(files) \o Cat(old, buf)
      /\ Cat(old, buf) \in Seq(Records)
  <2>1. Cat(old, buf) \in Seq(Records)
    BY <1>1, CatType
  <2>2. Cat(Flat(files), Cat(old, buf)) \in Seq(Records)
    BY <1>1, <2>1, CatType
  <2> QED BY <2>1, <2>2, RecordsAre DEF Cat
<1>3. pc = "dead" => pc' = "dead"
  BY StepShape DEF Quiet, Drop, Flush, Open, Write, Shut
<1>4. CASE Trail' = Trail /\ at' = at
  BY <1>0, <1>3, <1>4 DEF Numbered
<1>5. CASE Quiet
  <2>1. Trail' = Trail /\ at' = at
    BY <1>5, RecordsAre DEF Quiet
  <2> QED BY <1>4, <2>1
<1>6. CASE Drop
  <2>1. Trail' = Cat(Flat(files), <<>>)
    <3>1. Cat(<<>>, <<>>) = <<>>
      BY DEF Cat
    <3> QED BY <1>6, <3>1, RecordsAre DEF Drop
  <2>2. Trail' = Flat(files)
    BY <1>1, <2>1, CatType
  <2>3. \A i \in 1..Len(Flat(files)) : i \in 1..Len(Trail) /\ Trail[i] = Flat(files)[i]
    BY <1>1, <1>2
  <2>4. pc' = "dead"
    BY <1>6 DEF Drop
  <2> QED BY <1>0, <2>2, <2>3, <2>4 DEF Numbered
<1>7. CASE Flush
  <2>1. Trail' = Trail /\ at' = at
    BY <1>0, <1>7, FlushFacts DEF Flush
  <2> QED BY <1>4, <2>1
<1>8. CASE Open
  <2>1. Trail' = Trail /\ at' = at
    BY <1>0, <1>8, OpenFacts DEF Open
  <2> QED BY <1>4, <2>1
<1>9. CASE Write
  <2> DEFINE k == Len(at) + 1
  <2>1. PICK l : writeFile(k, l)
    BY <1>9 DEF Write
  <2>2. Trail' = Append(Trail, k)
    BY <1>0, <1>9, <2>1, WriteFacts DEF Write
  <2>3. at' = Append(at, now)
    BY <1>9 DEF Write
  <2>4. Len(at') = Len(at) + 1
    BY <1>0, <2>3
  <2>5. pc # "dead"
    BY <1>9 DEF Write
  <2>6. Len(Trail) = Len(at)
    BY <1>0, <2>5 DEF Numbered
  <2>7. /\ Len(Trail') = Len(Trail) + 1
        /\ \A i \in 1..Len(Trail') : Trail'[i] = IF i = Len(Trail) + 1 THEN k ELSE Trail[i]
    BY <1>2, <2>2
  <2>8. \A i \in 1..Len(Trail') : Trail'[i] = i
    BY <1>0, <2>6, <2>7 DEF Numbered
  <2> QED BY <2>4, <2>6, <2>7, <2>8 DEF Numbered
<1>10. CASE Shut
  <2>1. Trail' = Trail /\ at' = at
    BY <1>0, <1>10, ShutFacts DEF Shut
  <2> QED BY <1>4, <2>1
<1> QED BY <1>5, <1>6, <1>7, <1>8, <1>9, <1>10, StepShape

LEMMA RollsStep ==
  ASSUME LInv, [Next]_vars
  PROVE  RollsIncrease'
<1>0. /\ TypeOK /\ Opening /\ Shutting /\ RollsIncrease /\ now \in Secs
      /\ files \in Seq(File(Secs, Records)) /\ Len(files) \in Nat
      /\ lastRoll \in 0..MaxTime /\ MaxTime \in Nat
  BY FileTypes, Constants DEF LInv, TypeOK, Secs
<1>1. \A i, j \in 1..Len(files) : i < j => files[i].sec < files[j].sec
  BY <1>0 DEF RollsIncrease
<1>2. CASE /\ files' \in Seq(File(Secs, Records')) /\ Len(files') = Len(files)
           /\ \A i \in 1..Len(files) : files'[i].sec = files[i].sec
  <2>1. DOMAIN files' = 1..Len(files)
    BY <1>2
  <2> QED BY <1>1, <1>2, <2>1 DEF RollsIncrease
<1>3. CASE Quiet \/ Drop
  BY <1>0, <1>3 DEF RollsIncrease, Quiet, Drop
<1>4. CASE Flush
  <2>1. Records' = Records
    BY <1>4 DEF Flush, Records
  <2> QED BY <1>0, <1>2, <1>4, <2>1, FlushFacts DEF Flush
<1>7. CASE Shut
  <2>1. Records' = Records
    BY <1>7 DEF Shut, Records
  <2> QED BY <1>0, <1>2, <1>7, <2>1, ShutFacts
<1>5. CASE Open
  <2>1. /\ files' \in Seq(File(Secs, Records)) /\ Len(files') = Len(files) + 1
        /\ \A i \in 1..Len(files) : files'[i] = files[i]
        /\ files'[Len(files) + 1].sec = now
    BY <1>0, <1>5, OpenFacts DEF Open
  <2>2. now > lastRoll
    BY <1>5 DEF Open
  <2>3. DOMAIN files' = 1..Len(files) + 1
    BY <2>1
  <2>4. \A i \in 1..Len(files) : files[i].sec <= lastRoll /\ files[i].sec \in Nat
    <3>1. \A i \in 1..Len(files) : files[i].sec \in Secs
      <4>1. \A f \in File(Secs, Records) : f.sec \in Secs
        BY DEF File
      <4> QED BY <1>0, <4>1
    <3>2. Len(files) # 0 => Len(files) \in 1..Len(files) /\ files[Len(files)].sec = lastRoll
      BY <1>0 DEF Opening
    <3> QED BY <1>0, <1>1, <3>1, <3>2 DEF Secs
  <2>5. ASSUME NEW i \in 1..Len(files) + 1, NEW j \in 1..Len(files) + 1, i < j
        PROVE  files'[i].sec < files'[j].sec
    <3>1. i \in 1..Len(files)
      BY <1>0, <2>5
    <3>2. CASE j = Len(files) + 1
      BY <1>0, <2>1, <2>2, <2>4, <3>1, <3>2 DEF Secs
    <3>3. CASE j \in 1..Len(files)
      BY <1>1, <2>1, <2>5, <3>1, <3>3
    <3> QED BY <1>0, <3>2, <3>3
  <2> QED BY <2>3, <2>5 DEF RollsIncrease
<1>6. CASE Write
  <2>1. PICK l : writeFile(Len(at) + 1, l)
    BY <1>6 DEF Write
  <2>2. /\ files' \in Seq(File(Secs, 1..Len(at) + 1)) /\ Len(files') = Len(files)
        /\ \A i \in 1..Len(files) : files'[i].sec = files[i].sec
    BY <1>0, <1>6, <2>1, WriteFacts DEF Write
  <2>3. DOMAIN files' = 1..Len(files)
    BY <2>2
  <2> QED BY <1>1, <2>2, <2>3 DEF RollsIncrease
<1> QED BY <1>3, <1>4, <1>5, <1>6, <1>7, StepShape

-----------------------------------------------------------------------------
(***************************************************************************)
(* The times of the records                                                *)
(***************************************************************************)
LEMMA RecordsBounded ==
  ASSUME TypeOK, Opening
  PROVE  \A i \in 1..Len(files) : RecordsOf(i) \subseteq Records
<1>1. files \in Seq(File(Secs, Records)) /\ buf \in Seq(Records) /\ old \in Seq(Records)
  BY FileTypes
<1>2. \A s \in Seq(Records) : ToSet(s) \subseteq Records
  BY DEF ToSet
<1>3. \A f \in File(Secs, Records) : f.recs \in Seq(Records)
  BY DEF File
<1>4. \A i \in 1..Len(files) : files[i].recs \in Seq(Records)
  BY <1>1, <1>3
<1>5. /\ ToSet(buf) \subseteq Records /\ ToSet(old) \subseteq Records
      /\ \A i \in 1..Len(files) : ToSet(files[i].recs) \subseteq Records
  BY <1>1, <1>2, <1>4
<1> QED BY <1>5 DEF RecordsOf

LEMMA DropRecords ==
  ASSUME Drop
  PROVE  \A i : RecordsOf(i)' \subseteq RecordsOf(i)
<1>1. \A i : RecordsIn(files, <<>>, <<>>, i) \subseteq RecordsIn(files, old, buf, i)
  BY ToSetEmpty DEF RecordsIn
<1> QED BY <1>1, RecordsAre DEF Drop

LEMMA InTimeStep ==
  ASSUME LInv, [Next]_vars
  PROVE  InTime'
<1> SUFFICES ASSUME backs' = 0
             PROVE  /\ \A r \in Records' : at'[r] <= now'
                    /\ opened' => lastRoll' <= lastFlush' /\ lastFlush' <= now'
                    /\ \A i \in 1..Len(buf') : lastFlush' <= at'[buf'[i]]
                    /\ opened' => \A r \in RecordsOf(Len(files))' : lastRoll' <= at'[r]
  BY DEF InTime
<1>0. /\ TypeOK /\ Opening /\ Shutting /\ now \in Secs /\ now \in Nat /\ now' \in Nat
      /\ at \in Seq(0..MaxTime) /\ Len(at) \in Nat /\ Len(files) \in Nat
      /\ lastRoll \in Nat /\ lastFlush \in Nat
  <2>1. now' \in 0..MaxTime
    BY RestTypedStep DEF RestTyped
  <2>2. TypeOK /\ Opening /\ Shutting
    BY DEF LInv
  <2> QED BY <2>1, <2>2, FileTypes, Constants DEF TypeOK, Secs
<1>1. now' >= now /\ backs = 0
  BY StepShape
<1>2. /\ \A r \in Records : at[r] <= now
      /\ opened => lastRoll <= lastFlush /\ lastFlush <= now
      /\ \A i \in 1..Len(buf) : lastFlush <= at[buf[i]]
      /\ opened => \A r \in RecordsOf(Len(files)) : lastRoll <= at[r]
  BY <1>1 DEF LInv, InTime
<1>3. \A r \in Records : at[r] \in Nat /\ at[r] <= now
  BY <1>0, <1>2, Constants DEF Records
<1>4. CASE Quiet
  <2>1. /\ Records' = Records /\ RecordsOf(Len(files))' = RecordsOf(Len(files))
        /\ UNCHANGED <<lastRoll, lastFlush, opened, buf, at>>
    BY <1>4, RecordsAre DEF Quiet, Records
  <2> QED BY <1>0, <1>1, <1>2, <1>3, <2>1
<1>5. CASE Drop
  <2>1. /\ Records' = Records
        /\ UNCHANGED <<lastRoll, lastFlush, opened, at>> /\ buf' = <<>>
    BY <1>5 DEF Drop, Records
  <2>2. RecordsOf(Len(files))' \subseteq RecordsOf(Len(files))
    <3>1. Len(files') = Len(files)
      BY <1>5 DEF Drop
    <3> QED BY <1>5, <3>1, DropRecords, RecordsAre
  <2> QED BY <1>0, <1>1, <1>2, <1>3, <2>1, <2>2
<1>6. CASE Flush
  <2>1. /\ Len(files') = Len(files) /\ buf' = <<>>
        /\ \A i \in 1..Len(files) : RecordsOf(i)' = RecordsOf(i)
    BY <1>0, <1>6, FlushFacts DEF Flush
  <2>2. /\ opened' = opened /\ opened /\ lastRoll' = lastRoll /\ at' = at
        /\ lastFlush' \in {lastFlush, now}
    BY <1>6 DEF Flush, flushFile
  <2>3. Len(files) \in 1..Len(files)
    BY <1>0, <2>2, FileTypes
  <2>4. RecordsOf(Len(files))' = RecordsOf(Len(files))
    BY <2>1, <2>3, RecordsAre
  <2>5. Records' = Records
    BY <2>2 DEF Records
  <2>6. lastRoll' <= lastFlush' /\ lastFlush' <= now'
    BY <1>0, <1>1, <1>2, <2>2
  <2>7. \A r \in Records : at[r] <= now'
    BY <1>0, <1>1, <1>3
  <2> QED BY <1>2, <2>1, <2>2, <2>4, <2>5, <2>6, <2>7
<1>7. CASE Open
  <2>1. buf' = <<>> /\ RecordsOf(Len(files))' = {}
    BY <1>0, <1>7, OpenFacts DEF Open
  <2>2. lastRoll' = now /\ lastFlush' = now /\ at' = at
    BY <1>7 DEF Open
  <2>3. Records' = Records
    BY <2>2 DEF Records
  <2>4. \A r \in Records : at[r] <= now'
    BY <1>0, <1>1, <1>3
  <2>5. lastRoll' <= lastFlush' /\ lastFlush' <= now'
    BY <1>0, <1>1, <2>2
  <2> QED BY <2>1, <2>2, <2>3, <2>4, <2>5
<1>8. CASE Write
  <2> DEFINE k == Len(at) + 1
  <2>1. PICK l : writeFile(k, l)
    BY <1>8 DEF Write
  <2>2. /\ Len(files') = Len(files)
        /\ RecordsOf(Len(files))' = RecordsOf(Len(files)) \cup {k}
        /\ \A i \in 1..Len(buf') :
              buf'[i] = k \/ \E j \in 1..Len(buf) : buf'[i] = buf[j]
    BY <1>0, <1>8, <2>1, WriteFacts DEF Write
  <2>3. /\ opened /\ opened' /\ at' = Append(at, now)
        /\ UNCHANGED <<lastRoll, lastFlush>>
    BY <1>8, <2>1 DEF Write, writeFile
  <2>4. /\ Len(at') = k /\ at'[k] = now /\ k \in Nat
        /\ \A r \in Records : at'[r] = at[r]
    BY <1>0, <2>3 DEF Records
  <2>5. \A r \in Records' : r = k \/ r \in Records
    BY <1>0, <2>4 DEF Records
  <2>6. RecordsOf(Len(files)) \subseteq Records /\ \A j \in 1..Len(buf) : buf[j] \in Records
    <3>1. Len(files) \in 1..Len(files)
      BY <1>0, <2>3, FileTypes
    <3>2. buf \in Seq(Records)
      BY <1>0, FileTypes
    <3> QED BY <1>0, <3>1, <3>2, RecordsBounded
  <2> HIDE DEF k
  <2>7. \A r \in Records' : at'[r] <= now'
    BY <1>0, <1>1, <1>3, <2>4, <2>5
  <2>8. lastRoll' <= lastFlush' /\ lastFlush' <= now'
    BY <1>0, <1>1, <1>2, <2>3
  <2>9. \A i \in 1..Len(buf') : lastFlush' <= at'[buf'[i]]
    <3> SUFFICES ASSUME NEW i \in 1..Len(buf') PROVE lastFlush' <= at'[buf'[i]]
      OBVIOUS
    <3>1. CASE buf'[i] = k
      BY <1>2, <2>3, <2>4, <3>1
    <3>2. ASSUME NEW j \in 1..Len(buf), buf'[i] = buf[j]
          PROVE  lastFlush' <= at'[buf'[i]]
      BY <1>2, <2>3, <2>4, <2>6, <3>2
    <3> QED BY <2>2, <3>1, <3>2
  <2>10. \A r \in RecordsOf(Len(files))' : lastRoll' <= at'[r]
    <3>1. lastRoll <= now
      BY <1>0, <1>2, <2>3
    <3>2. \A r \in RecordsOf(Len(files)) : lastRoll <= at[r] /\ at'[r] = at[r]
      BY <1>2, <2>3, <2>4, <2>6
    <3> QED BY <2>2, <2>3, <2>4, <3>1, <3>2
  <2> QED BY <2>7, <2>8, <2>9, <2>10
<1>9. CASE Shut
  <2>1. /\ Records' = Records
        /\ UNCHANGED <<lastRoll, lastFlush, opened, at>> /\ buf' = <<>>
    BY <1>9 DEF Shut, Records
  <2>2. /\ opened /\ Len(files') = Len(files)
        /\ \A i \in 1..Len(files) : RecordsOf(i)' \subseteq RecordsOf(i)
    BY <1>0, <1>9, ShutFacts
  <2>3. Len(files) \in 1..Len(files)
    BY <1>0, <2>2, FileTypes
  <2>4. RecordsOf(Len(files))' \subseteq RecordsOf(Len(files))
    BY <2>2, <2>3, RecordsAre
  <2> QED BY <1>0, <1>1, <1>2, <1>3, <2>1, <2>4
<1> QED BY <1>4, <1>5, <1>6, <1>7, <1>8, <1>9, StepShape

(* Only the look at the clock changes what LossBound compares with.        *)
LEMMA LossStep ==
  ASSUME LInv, [Next]_vars
  PROVE  LossBound'
<1> SUFFICES ASSUME backs' = 0, NEW i \in 1..Len(buf'), buf'[i] <= checked'.upto
             PROVE  checked'.time < at'[buf'[i]] + FlushInterval
  <2>1. buf' \in Seq(Records')
    BY FilesTypedStep DEF FilesTyped
  <2>2. DOMAIN buf' = 1..Len(buf')
    BY <2>1
  <2> QED BY <2>2 DEF LossBound
<1>0. /\ TypeOK /\ Opening /\ Shutting /\ InTime /\ now \in Secs /\ now \in Nat
      /\ at \in Seq(0..MaxTime) /\ Len(at) \in Nat
      /\ lastRoll \in Nat /\ lastFlush \in Nat
      /\ buf \in Seq(Records) /\ checked.upto \in 0..Len(at)
  BY FileTypes, Constants DEF LInv, TypeOK, Secs
<1>1. backs = 0
  BY StepShape
<1>2. \A j \in 1..Len(buf) :
         buf[j] <= checked.upto => checked.time < at[buf[j]] + FlushInterval
  BY <1>0, <1>1 DEF LInv, LossBound
<1>3. buf' # <<>>
  OBVIOUS
<1>4. Quiet \/ Write
  <2>1. Flush => buf' = <<>>
    BY DEF Flush, flushFile
  <2>2. Open => buf' = <<>>
    BY DEF Open, openFile
  <2> QED BY <1>3, <2>1, <2>2, StepShape DEF Drop, Shut
<1>5. CASE lookAtClock
  <2>1. checked' = [upto |-> Len(at), time |-> now]
    BY <1>5 DEF lookAtClock
  <2>2. Open => buf' = <<>>
    BY DEF Open, openFile
  <2>3. Flush => buf' = <<>>
    BY DEF Flush, flushFile
  <2>4. CASE /\ Quiet /\ now \div Day # lastDay /\ ~ (now > lastRoll)
    <3>1. opened
      BY <1>0, <1>5 DEF Opening, lookAtClock
    <3>2. now = lastRoll
      BY <1>0, <1>1, <2>4, <3>1 DEF InTime
    <3>3. lastDay = lastRoll \div Day
      BY <1>0, <3>1 DEF Opening
    <3> QED BY <2>4, <3>2, <3>3
  <2>5. CASE Quiet /\ ~ (now >= lastFlush + FlushInterval)
    <3>1. buf' = buf /\ at' = at
      BY <2>5 DEF Quiet
    <3>2. lastFlush <= at[buf[i]]
      BY <1>0, <1>1, <3>1 DEF InTime
    <3>3. buf[i] \in Records
      BY <1>0, <3>1
    <3>4. at[buf[i]] \in Nat
      BY <1>0, <3>3, Constants, SMTT(30) DEF Records
    <3> QED BY <1>0, <2>1, <2>5, <3>1, <3>2, <3>4, Constants
  <2> QED BY <1>0, <1>3, <1>5, <2>2, <2>3, <2>4, <2>5, LookKind
<1>6. CASE ~lookAtClock
  <2>1. checked' = checked
    <3>1. Ending => checked' = checked
      BY <1>0, EndKind
    <3>2. closeFile => checked' = checked
      BY <1>0, CloseKind
    <3> QED BY <1>6, <3>1, <3>2 DEF Next, Ending, vars, construct, append, rollSize,
               countOn, flush, tick, setBack, histVars
  <2>2. CASE Quiet
    BY <1>2, <2>1, <2>2 DEF Quiet
  <2>3. CASE Write
    <3> DEFINE k == Len(at) + 1
    <3>1. PICK l : writeFile(k, l)
      BY <2>3 DEF Write
    <3>2. buf'[i] = k \/ \E j \in 1..Len(buf) : buf'[i] = buf[j]
      BY <1>0, <2>3, <3>1, WriteFacts DEF Write
    <3>3. buf'[i] # k
      BY <1>0, <2>1
    <3>4. PICK j \in 1..Len(buf) : buf'[i] = buf[j]
      BY <3>2, <3>3
    <3>5. buf[j] \in Records /\ at' = Append(at, now)
      BY <1>0, <2>3 DEF Write
    <3>6. at'[buf[j]] = at[buf[j]]
      BY <1>0, <3>5 DEF Records
    <3> QED BY <1>2, <2>1, <3>4, <3>6
  <2> QED BY <1>4, <2>2, <2>3
<1> QED BY <1>5, <1>6

-----------------------------------------------------------------------------
(***************************************************************************)
(* The records of another day                                              *)
(***************************************************************************)
LEMMA StraysFinite ==
  ASSUME TypeOK, Opening, NEW i \in 1..Len(files)
  PROVE  IsFiniteSet(Strays(i)) /\ Cardinality(Strays(i)) \in Nat
<1>1. Strays(i) \subseteq 1..Len(at) /\ Len(at) \in Nat
  BY FileTypes, RecordsBounded DEF Strays, Records
<1>2. IsFiniteSet(1..Len(at))
  BY <1>1, FS_Interval
<1>3. IsFiniteSet(Strays(i))
  BY <1>1, <1>2, FS_Subset
<1> QED BY <1>3, FS_CardinalityType

(* While the clock is still at the day of the open file, all its records   *)
(* are of that day.                                                        *)
LEMMA NoStrays ==
  ASSUME LInv, backs = 0, opened, now \div Day = lastDay
  PROVE  Cardinality(Strays(Len(files))) = 0
<1>0. /\ TypeOK /\ Opening /\ Shutting /\ InTime /\ now \in Nat /\ lastRoll \in Nat
      /\ at \in Seq(0..MaxTime) /\ Day \in Nat \ {0}
  BY Constants DEF LInv, TypeOK
<1>1. Len(files) \in 1..Len(files) /\ RecordsOf(Len(files)) \subseteq Records
  <2>1. Len(files) \in 1..Len(files)
    BY <1>0, FileTypes
  <2> QED BY <1>0, <2>1, RecordsBounded
<1>2. files[Len(files)].sec = lastRoll /\ lastDay = lastRoll \div Day
  BY <1>0 DEF Opening
<1>3. ASSUME NEW r \in RecordsOf(Len(files))
      PROVE  at[r] \div Day = files[Len(files)].sec \div Day
  <2>1. lastRoll <= at[r] /\ at[r] <= now /\ at[r] \in Nat
    BY <1>0, <1>1, Constants DEF InTime, Records
  <2> DEFINE t == at[r]
  <2> HIDE DEF t
  <2>2. lastRoll \div Day <= t \div Day /\ t \div Day <= now \div Day
    BY <1>0, <2>1, DivMonotone DEF t
  <2>3. t \div Day \in Nat /\ lastRoll \div Day \in Nat /\ now \div Day \in Nat
    BY <1>0, <2>1, DivType DEF t
  <2>4. t \div Day = lastRoll \div Day
    BY <1>2, <2>2, <2>3
  <2> QED BY <1>2, <2>4 DEF t
<1>4. Strays(Len(files)) = {}
  BY <1>3 DEF Strays
<1> QED BY <1>4, FS_EmptySet

(* The strays after a step of each kind.                                   *)
LEMMA StraysKinds ==
  ASSUME LInv, [Next]_vars
  PROVE  /\ Quiet => /\ Len(files') = Len(files)
                     /\ \A i : Strays(i)' = Strays(i)
         /\ Drop \/ Flush \/ Shut =>
               /\ Len(files') = Len(files)
               /\ \A i \in 1..Len(files) : Strays(i)' \subseteq Strays(i)
         /\ Open => /\ Len(files') = Len(files) + 1
                    /\ \A i \in 1..Len(files) : Strays(i)' = Strays(i)
                    /\ Strays(Len(files))' = {}
         /\ Write => /\ Len(files') = Len(files) /\ opened
                     /\ \A i \in 1..Len(files) : i # Len(files) => Strays(i)' = Strays(i)
                     /\ Strays(Len(files))' \subseteq Strays(Len(files)) \cup {Len(at) + 1}
<1>0. /\ TypeOK /\ Opening /\ Shutting /\ now \in Secs /\ at \in Seq(0..MaxTime)
      /\ Len(at) \in Nat /\ Len(files) \in Nat
  BY FileTypes DEF LInv, TypeOK, Secs
<1>r. \A i \in 1..Len(files) : RecordsOf(i) \subseteq Records
  BY <1>0, RecordsBounded
<1>s. /\ \A i : Strays(i) = {r \in RecordsOf(i) : at[r] \div Day # files[i].sec \div Day}
      /\ \A i : Strays(i)' = {r \in RecordsOf(i)' : at'[r] \div Day # files'[i].sec \div Day}
  BY DEF Strays
<1>1. ASSUME Quiet
      PROVE  Len(files') = Len(files) /\ \A i : Strays(i)' = Strays(i)
  <2>1. \A i : RecordsOf(i)' = RecordsOf(i)
    BY <1>1, RecordsAre DEF Quiet
  <2> QED BY <1>1, <1>s, <2>1 DEF Quiet
<1>2. ASSUME Drop
      PROVE  /\ Len(files') = Len(files)
             /\ \A i \in 1..Len(files) : Strays(i)' \subseteq Strays(i)
  <2>1. \A i : RecordsOf(i)' \subseteq RecordsOf(i)
    BY <1>2, DropRecords
  <2>2. at' = at /\ files' = files
    BY <1>2 DEF Drop
  <2> QED BY <1>s, <2>1, <2>2
<1>3. ASSUME Flush
      PROVE  /\ Len(files') = Len(files)
             /\ \A i \in 1..Len(files) : Strays(i)' = Strays(i)
  <2>1. /\ Len(files') = Len(files)
        /\ \A i \in 1..Len(files) : files'[i].sec = files[i].sec
        /\ \A i \in 1..Len(files) : RecordsOf(i)' = RecordsOf(i)
        /\ at' = at
    BY <1>0, <1>3, FlushFacts DEF Flush
  <2> QED BY <1>s, <2>1
<1>4. ASSUME Open
      PROVE  /\ Len(files') = Len(files) + 1
             /\ \A i \in 1..Len(files) : Strays(i)' = Strays(i)
             /\ Strays(Len(files))' = {}
  <2>1. /\ Len(files') = Len(files) + 1
        /\ \A i \in 1..Len(files) : files'[i].sec = files[i].sec
        /\ \A i \in 1..Len(files) : RecordsOf(i)' = RecordsOf(i)
        /\ RecordsOf(Len(files))' = {}
        /\ at' = at
    BY <1>0, <1>4, OpenFacts DEF Open
  <2>2. Strays(Len(files))' = {}
    BY <2>1 DEF Strays
  <2>3. \A i \in 1..Len(files) : Strays(i)' = Strays(i)
    BY <1>s, <2>1
  <2> QED BY <2>1, <2>2, <2>3
<1>5. ASSUME Write
      PROVE  /\ Len(files') = Len(files) /\ opened
             /\ \A i \in 1..Len(files) : i # Len(files) => Strays(i)' = Strays(i)
             /\ Strays(Len(files))' \subseteq Strays(Len(files)) \cup {Len(at) + 1}
  <2> DEFINE k == Len(at) + 1
             n == Len(files)
  <2>1. PICK l : writeFile(k, l)
    BY <1>5 DEF Write
  <2>2. /\ Len(files') = n
        /\ \A i \in 1..n : files'[i].sec = files[i].sec
        /\ \A i \in 1..n : i # n => RecordsOf(i)' = RecordsOf(i)
        /\ RecordsOf(Len(files))' = RecordsOf(n) \cup {k}
    BY <1>0, <1>5, <2>1, WriteFacts DEF Write
  <2>3. opened /\ at' = Append(at, now)
    BY <1>5 DEF Write
  <2>4. \A r \in Records : at'[r] = at[r]
    BY <1>0, <2>3 DEF Records
  <2>5. n \in 1..n
    BY <1>0, <2>3, FileTypes
  <2> HIDE DEF k
  <2>6. \A i \in 1..n : i # n => Strays(i)' = Strays(i)
    BY <1>r, <1>s, <2>2, <2>4
  <2>7. Strays(Len(files))' =
          {r \in RecordsOf(Len(files))' : at'[r] \div Day # files'[Len(files')].sec \div Day}
    BY DEF Strays
  <2>8. Strays(Len(files))' \subseteq Strays(n) \cup {k}
    <3>1. \A r \in RecordsOf(n) : at'[r] = at[r]
      BY <1>r, <2>4, <2>5
    <3>2. files'[Len(files')].sec = files[n].sec
      BY <2>2, <2>5
    <3> HIDE DEF n
    <3> QED BY <1>s, <2>2, <2>7, <3>1, <3>2
  <2> QED BY <2>2, <2>3, <2>6, <2>8 DEF k
<1>6. ASSUME Shut
      PROVE  /\ Len(files') = Len(files)
             /\ \A i \in 1..Len(files) : Strays(i)' \subseteq Strays(i)
  <2>1. /\ Len(files') = Len(files)
        /\ \A i \in 1..Len(files) : files'[i].sec = files[i].sec
        /\ \A i \in 1..Len(files) : RecordsOf(i)' \subseteq RecordsOf(i)
        /\ at' = at
    BY <1>0, <1>6, ShutFacts DEF Shut
  <2> QED BY <1>s, <2>1
<1> QED BY <1>1, <1>2, <1>3, <1>4, <1>5, <1>6

(* How many strays there can be after a step, file by file.                *)
LEMMA StraysBound ==
  ASSUME LInv, [Next]_vars, backs = 0
  PROVE  /\ Quiet \/ Drop \/ Flush \/ Shut =>
               /\ \A i \in 1..Len(files') : Cardinality(Strays(i)') <= CheckPerCount
               /\ opened => /\ Cardinality(Strays(Len(files))') \in Nat
                            /\ Cardinality(Strays(Len(files))')
                                 <= Cardinality(Strays(Len(files)))
         /\ Open =>
               /\ \A i \in 1..Len(files') : Cardinality(Strays(i)') <= CheckPerCount
               /\ Cardinality(Strays(Len(files))') = 0
         /\ Write /\ pc = "ready" =>
               /\ \A i \in 1..Len(files') : Cardinality(Strays(i)') <= CheckPerCount
               /\ Cardinality(Strays(Len(files))') <= count + 1
<1>0. /\ TypeOK /\ Opening /\ Len(files) \in Nat /\ count \in 0..CheckPerCount - 1
      /\ CheckPerCount \in Nat
  BY FileTypes, Constants DEF LInv, TypeOK
<1>1. /\ \A i \in 1..Len(files) : Cardinality(Strays(i)) <= CheckPerCount
      /\ opened /\ pc = "ready" => Cardinality(Strays(Len(files))) <= count
  BY DEF LInv, StrayCount
<1>2. \A i \in 1..Len(files) : IsFiniteSet(Strays(i)) /\ Cardinality(Strays(i)) \in Nat
  BY <1>0, StraysFinite
<1>3. opened => Len(files) \in 1..Len(files)
  BY <1>0, FileTypes
<1>4. \A A, B : IsFiniteSet(B) /\ A \subseteq B =>
         /\ Cardinality(A) <= Cardinality(B)
         /\ Cardinality(A) \in Nat /\ Cardinality(B) \in Nat
  BY FS_Subset, FS_CardinalityType
<1>l. \A n : n = Len(files') => Strays(Len(files))' = Strays(n)'
  BY DEF Strays, RecordsOf
<1>5. ASSUME Quiet \/ Drop \/ Flush \/ Shut
      PROVE  /\ \A i \in 1..Len(files') : Cardinality(Strays(i)') <= CheckPerCount
             /\ opened => /\ Cardinality(Strays(Len(files))') \in Nat
                          /\ Cardinality(Strays(Len(files))')
                               <= Cardinality(Strays(Len(files)))
  <2>1. /\ Len(files') = Len(files)
        /\ \A i \in 1..Len(files) : Strays(i)' \subseteq Strays(i)
    BY <1>5, StraysKinds
  <2>2. \A i \in 1..Len(files) :
           /\ Cardinality(Strays(i)') <= Cardinality(Strays(i))
           /\ Cardinality(Strays(i)') \in Nat /\ Cardinality(Strays(i)) \in Nat
    BY <1>2, <1>4, <2>1
  <2>3. \A i \in 1..Len(files) : Cardinality(Strays(i)') <= CheckPerCount
    BY <1>0, <1>1, <2>2
  <2>4. opened => /\ Cardinality(Strays(Len(files))') \in Nat
                  /\ Cardinality(Strays(Len(files))') <= Cardinality(Strays(Len(files)))
    BY <1>3, <1>l, <2>1, <2>2
  <2> QED BY <2>1, <2>3, <2>4
<1>6. ASSUME Open
      PROVE  /\ \A i \in 1..Len(files') : Cardinality(Strays(i)') <= CheckPerCount
             /\ Cardinality(Strays(Len(files))') = 0
  <2>1. /\ Len(files') = Len(files) + 1
        /\ \A i \in 1..Len(files) : Strays(i)' = Strays(i)
        /\ Strays(Len(files))' = {}
    BY <1>6, StraysKinds
  <2>2. Cardinality(Strays(Len(files))') = 0
    BY <2>1, FS_EmptySet
  <2>3. ASSUME NEW i \in 1..Len(files') PROVE Cardinality(Strays(i)') <= CheckPerCount
    <3>1. CASE i = Len(files')
      BY <1>0, <1>l, <2>2, <3>1
    <3>2. CASE i \in 1..Len(files)
      BY <1>1, <2>1, <3>2
    <3> QED BY <1>0, <2>1, <3>1, <3>2
  <2> QED BY <2>2, <2>3
<1>7. ASSUME Write, pc = "ready"
      PROVE  /\ \A i \in 1..Len(files') : Cardinality(Strays(i)') <= CheckPerCount
             /\ Cardinality(Strays(Len(files))') <= count + 1
  <2> DEFINE n == Len(files)
             k == Len(at) + 1
  <2>1. /\ Len(files') = n /\ opened
        /\ \A i \in 1..n : i # n => Strays(i)' = Strays(i)
        /\ Strays(Len(files))' \subseteq Strays(n) \cup {k}
    BY <1>7, StraysKinds
  <2>2. n \in 1..n /\ IsFiniteSet(Strays(n)) /\ Cardinality(Strays(n)) \in Nat
    BY <1>2, <1>3, <2>1
  <2>3. Cardinality(Strays(n)) <= count
    BY <1>1, <1>7, <2>1
  <2> HIDE DEF k
  <2>4. /\ IsFiniteSet(Strays(n) \cup {k})
        /\ Cardinality(Strays(n) \cup {k}) <= Cardinality(Strays(n)) + 1
    <3>1. /\ IsFiniteSet(Strays(n) \cup {k})
          /\ Cardinality(Strays(n) \cup {k}) =
                IF k \in Strays(n) THEN Cardinality(Strays(n))
                                   ELSE Cardinality(Strays(n)) + 1
      BY <2>2, FS_AddElement
    <3> QED BY <2>2, <3>1
  <2>5. /\ Cardinality(Strays(Len(files))') <= Cardinality(Strays(n) \cup {k})
        /\ Cardinality(Strays(Len(files))') \in Nat
        /\ Cardinality(Strays(n) \cup {k}) \in Nat
    BY <1>4, <2>1, <2>4
  <2>6. Cardinality(Strays(Len(files))') <= count + 1
    BY <1>0, <2>2, <2>3, <2>4, <2>5
  <2>7. ASSUME NEW i \in 1..n PROVE Cardinality(Strays(i)') <= CheckPerCount
    <3>1. CASE i = n
      BY <1>0, <1>l, <2>1, <2>5, <2>6, <3>1
    <3>2. CASE i # n
      BY <1>1, <2>1, <3>2
    <3> QED BY <3>1, <3>2
  <2> QED BY <2>1, <2>6, <2>7
<1> QED BY <1>5, <1>6, <1>7

LEMMA StrayStep ==
  ASSUME LInv, [Next]_vars
  PROVE  StrayCount'
<1> SUFFICES ASSUME backs' = 0
             PROVE  /\ \A i \in 1..Len(files') : Cardinality(Strays(i)') <= CheckPerCount
                    /\ opened' /\ pc' \in {"ready", "close"} =>
                          Cardinality(Strays(Len(files))') <= count'
                    /\ opened' /\ pc' = "check" =>
                          Cardinality(Strays(Len(files))') <= count' + 1
  BY DEF StrayCount
<1>0. /\ TypeOK /\ Opening /\ Shutting /\ InTime /\ count \in 0..CheckPerCount - 1
      /\ CheckPerCount \in Nat /\ now \in Nat /\ lastRoll \in Nat
  BY FileTypes, Constants DEF LInv, TypeOK
<1>1. backs = 0
  BY StepShape
<1> DEFINE N == Cardinality(Strays(Len(files)))
           Old == \A i \in 1..Len(files) : Cardinality(Strays(i)) <= CheckPerCount
<1>2. /\ opened /\ pc \in {"ready", "close"} => N <= count
      /\ opened /\ pc = "check" => N <= count + 1
      /\ opened => N \in Nat
  <2>1. opened => Len(files) \in 1..Len(files)
    BY <1>0, FileTypes
  <2> QED BY <1>0, <1>1, <2>1, StraysFinite DEF LInv, StrayCount
<1>3. /\ Quiet \/ Drop \/ Flush \/ Shut => Old' /\ (opened => N' \in Nat /\ N' <= N)
      /\ Open => Old' /\ N' = 0
      /\ Write /\ pc = "ready" => Old' /\ N' <= count + 1
  BY <1>1, StraysBound
<1> HIDE DEF N, Old
<1> SUFFICES /\ Old'
             /\ opened' /\ pc' \in {"ready", "close"} => N' <= count'
             /\ opened' /\ pc' = "check" => N' <= count' + 1
  BY DEF N, Old
<1>5. CASE construct
  <2>1. /\ rollFile(0) /\ UNCHANGED at /\ pc = "ctor" /\ count' = count
    BY <1>5 DEF construct, histVars
  <2>2. (Quiet \/ Open) /\ pc' \in {"ready", "close"}
    BY <2>1, RollKind
  <2>3. CASE Quiet
    <3>1. ~opened'
      BY <1>0, <2>1, <2>3 DEF Opening, Quiet
    <3> QED BY <1>3, <2>3, <3>1
  <2>4. CASE Open
    BY <1>0, <1>3, <2>1, <2>2, <2>4
  <2> QED BY <2>2, <2>3, <2>4
<1>6. CASE Ending
  <2>1. pc' \notin {"ready", "check", "close"} /\ (Quiet \/ Drop \/ Shut)
    BY <1>0, <1>6, EndKind
  <2> QED BY <1>3, <2>1
<1>12. CASE closeFile
  <2>1. /\ Shut /\ pc = "close" /\ pc' = "ready" /\ count' = count /\ opened' = opened
    BY <1>0, <1>12, CloseKind
  <2> QED BY <1>0, <1>2, <1>3, <2>1
<1>7. ASSUME NEW l \in 1..MaxLen, append(l)
      PROVE  /\ Old'
             /\ opened' /\ pc' \in {"ready", "close"} => N' <= count'
             /\ opened' /\ pc' = "check" => N' <= count' + 1
  <2>1. Write /\ pc = "ready" /\ pc' = "check" /\ count' = count
    BY <1>7 DEF append, Write, rollVars
  <2> QED BY <1>3, <2>1
<1>8. CASE rollSize
  <2>1. /\ rollFile(0) /\ UNCHANGED at /\ pc = "check" /\ count' = count
    BY <1>8 DEF rollSize, histVars
  <2>2. CASE Open /\ pc' \in {"ready", "close"}
    BY <1>0, <1>3, <2>1, <2>2
  <2>3. CASE Quiet /\ ~ (now > lastRoll) /\ pc' = "ready"
    <3>1. opened /\ lastDay = lastRoll \div Day
      BY <1>0, <2>1 DEF Opening
    <3>2. now = lastRoll
      BY <1>0, <1>1, <2>3, <3>1 DEF InTime, TypeOK
    <3>3. N = 0
      BY <1>1, <3>1, <3>2, NoStrays DEF N
    <3> QED BY <1>0, <1>3, <2>1, <2>3, <3>1, <3>3
  <2> QED BY <2>1, <2>2, <2>3, RollKind
<1>9. CASE countOn
  <2>1. Quiet /\ pc = "check" /\ pc' = "ready" /\ count' = count + 1
    BY <1>9 DEF countOn, Quiet, rollVars, fileVars, histVars
  <2>2. opened /\ N <= count + 1
    BY <1>0, <1>2, <2>1 DEF Opening
  <2> QED BY <1>0, <1>2, <1>3, <2>1, <2>2
<1>10. CASE lookAtClock
  <2>1. pc = "check" /\ count' = 0
    BY <1>10 DEF lookAtClock
  <2>2. opened /\ lastDay = lastRoll \div Day
    BY <1>0, <2>1 DEF Opening
  <2>3. CASE Open /\ pc' \in {"ready", "close"}
    BY <1>3, <2>1, <2>3
  <2>4. CASE Quiet /\ now \div Day # lastDay /\ ~ (now > lastRoll)
    <3>1. now = lastRoll
      BY <1>0, <1>1, <2>2, <2>4 DEF InTime, TypeOK
    <3> QED BY <2>2, <2>4, <3>1
  <2>5. CASE (Flush \/ Quiet) /\ now \div Day = lastDay /\ pc' = "ready"
    <3>1. N = 0
      BY <1>1, <2>2, <2>5, NoStrays DEF N
    <3> QED BY <1>3, <2>1, <2>2, <2>5, <3>1
  <2> QED BY <1>0, <1>10, <2>3, <2>4, <2>5, LookKind
<1>11. CASE flush \/ tick \/ setBack \/ UNCHANGED vars
  <2>1. pc' = pc /\ count' = count /\ opened' = opened /\ (Quiet \/ Flush)
    BY <1>11 DEF flush, tick, setBack, Quiet, Flush, flushFile, vars,
                 clockVars, rollVars, fileVars, histVars
  <2> QED BY <1>0, <1>2, <1>3, <2>1
<1> QED BY <1>5, <1>6, <1>7, <1>8, <1>9, <1>10, <1>11, <1>12 DEF Next, Ending

-----------------------------------------------------------------------------
(***************************************************************************)
(* The bytes after the second of the file's name                           *)
(***************************************************************************)
LEMMA LateFinite ==
  ASSUME TypeOK, Opening, NEW i \in 1..Len(files)
  PROVE  /\ Late(i) \subseteq Records /\ IsFiniteSet(Late(i))
         /\ \A r \in Records : len[r] \in Nat
         /\ Bytes(i) \in Nat
<1>1. Late(i) \subseteq Records /\ Len(at) \in Nat
  BY FileTypes, RecordsBounded DEF Late
<1>2. IsFiniteSet(Records)
  BY <1>1, FS_Interval DEF Records
<1>3. IsFiniteSet(Late(i))
  BY <1>1, <1>2, FS_Subset
<1>4. \A r \in Records : len[r] \in Nat
  <2>1. len \in Seq(1..MaxLen) /\ Len(len) = Len(at) /\ MaxLen \in Nat
    BY Constants DEF TypeOK
  <2>2. \A r \in 1..Len(len) : len[r] \in 1..MaxLen
    BY <2>1
  <2> QED BY <2>1, <2>2 DEF Records
<1>5. \A r \in Late(i) : len[r] \in Nat
  BY <1>1, <1>4
<1> QED BY <1>1, <1>3, <1>4, <1>5, SumTakes DEF Bytes

LEMMA NoLate ==
  ASSUME LInv, backs = 0, opened, ~ (now > lastRoll)
  PROVE  Bytes(Len(files)) = 0
<1>0. /\ TypeOK /\ Opening /\ Shutting /\ InTime /\ now \in Nat /\ lastRoll \in Nat
      /\ at \in Seq(0..MaxTime) /\ MaxTime \in Nat
  BY Constants DEF LInv, TypeOK
<1>1. Len(files) \in 1..Len(files) /\ RecordsOf(Len(files)) \subseteq Records
  <2>1. Len(files) \in 1..Len(files)
    BY <1>0, FileTypes
  <2> QED BY <1>0, <2>1, RecordsBounded
<1>2. files[Len(files)].sec = lastRoll
  BY <1>0 DEF Opening
<1>3. \A r \in RecordsOf(Len(files)) : ~ (at[r] > files[Len(files)].sec)
  <2>1. \A r \in Records : at[r] <= now /\ at[r] \in Nat
    BY <1>0 DEF InTime, Records
  <2> QED BY <1>0, <1>1, <1>2, <2>1
<1>4. Late(Len(files)) = {}
  BY <1>3 DEF Late
<1>5. Late(Len(files)) \subseteq Records /\ IsFiniteSet(Late(Len(files)))
  BY <1>0, <1>1, LateFinite
<1> QED BY <1>4, <1>5, SumTakes DEF Bytes

LEMMA LateKinds ==
  ASSUME LInv, [Next]_vars
  PROVE  /\ Quiet \/ Drop \/ Flush \/ Shut =>
               /\ Len(files') = Len(files)
               /\ \A i \in 1..Len(files) : Late(i)' \subseteq Late(i)
         /\ Open => /\ Len(files') = Len(files) + 1
                    /\ \A i \in 1..Len(files) : Late(i)' = Late(i)
                    /\ Late(Len(files))' = {}
         /\ Write => /\ Len(files') = Len(files) /\ opened
                     /\ \A i \in 1..Len(files) : i # Len(files) => Late(i)' = Late(i)
                     /\ Late(Len(files))' \subseteq Late(Len(files)) \cup {Len(at) + 1}
<1>0. /\ TypeOK /\ Opening /\ Shutting /\ now \in Secs /\ at \in Seq(0..MaxTime)
      /\ Len(at) \in Nat /\ Len(files) \in Nat
  BY FileTypes DEF LInv, TypeOK, Secs
<1>r. \A i \in 1..Len(files) : RecordsOf(i) \subseteq Records
  BY <1>0, RecordsBounded
<1>s. /\ \A i : Late(i) = {r \in RecordsOf(i) : at[r] > files[i].sec}
      /\ \A i : Late(i)' = {r \in RecordsOf(i)' : at'[r] > files'[i].sec}
  BY DEF Late
<1>1. ASSUME Quiet \/ Drop
      PROVE  /\ Len(files') = Len(files)
             /\ \A i \in 1..Len(files) : Late(i)' \subseteq Late(i)
  <2>1. \A i : RecordsOf(i)' \subseteq RecordsOf(i)
    BY <1>1, DropRecords, RecordsAre DEF Quiet
  <2>2. at' = at /\ files' = files
    BY <1>1 DEF Quiet, Drop
  <2> QED BY <1>s, <2>1, <2>2
<1>2. ASSUME Flush
      PROVE  /\ Len(files') = Len(files)
             /\ \A i \in 1..Len(files) : Late(i)' = Late(i)
  <2>1. /\ Len(files') = Len(files)
        /\ \A i \in 1..Len(files) : files'[i].sec = files[i].sec
        /\ \A i \in 1..Len(files) : RecordsOf(i)' = RecordsOf(i)
        /\ at' = at
    BY <1>0, <1>2, FlushFacts DEF Flush
  <2> QED BY <1>s, <2>1
<1>3. ASSUME Open
      PROVE  /\ Len(files') = Len(files) + 1
             /\ \A i \in 1..Len(files) : Late(i)' = Late(i)
             /\ Late(Len(files))' = {}
  <2>1. /\ Len(files') = Len(files) + 1
        /\ \A i \in 1..Len(files) : files'[i].sec = files[i].sec
        /\ \A i \in 1..Len(files) : RecordsOf(i)' = RecordsOf(i)
        /\ RecordsOf(Len(files))' = {}
        /\ at' = at
    BY <1>0, <1>3, OpenFacts DEF Open
  <2>2. Late(Len(files))' = {}
    BY <2>1 DEF Late
  <2>3. \A i \in 1..Len(files) : Late(i)' = Late(i)
    BY <1>s, <2>1
  <2> QED BY <2>1, <2>2, <2>3
<1>4. ASSUME Write
      PROVE  /\ Len(files') = Len(files) /\ opened
             /\ \A i \in 1..Len(files) : i # Len(files) => Late(i)' = Late(i)
             /\ Late(Len(files))' \subseteq Late(Len(files)) \cup {Len(at) + 1}
  <2> DEFINE k == Len(at) + 1
             n == Len(files)
  <2>1. PICK l : writeFile(k, l)
    BY <1>4 DEF Write
  <2>2. /\ Len(files') = n
        /\ \A i \in 1..n : files'[i].sec = files[i].sec
        /\ \A i \in 1..n : i # n => RecordsOf(i)' = RecordsOf(i)
        /\ RecordsOf(Len(files))' = RecordsOf(n) \cup {k}
    BY <1>0, <1>4, <2>1, WriteFacts DEF Write
  <2>3. opened /\ at' = Append(at, now)
    BY <1>4 DEF Write
  <2>4. \A r \in Records : at'[r] = at[r]
    BY <1>0, <2>3 DEF Records
  <2>5. n \in 1..n
    BY <1>0, <2>3, FileTypes
  <2> HIDE DEF k
  <2>6. \A i \in 1..n : i # n => Late(i)' = Late(i)
    BY <1>r, <1>s, <2>2, <2>4
  <2>7. Late(Len(files))' =
          {r \in RecordsOf(Len(files))' : at'[r] > files'[Len(files')].sec}
    BY DEF Late
  <2>8. Late(Len(files))' \subseteq Late(n) \cup {k}
    <3>1. \A r \in RecordsOf(n) : at'[r] = at[r]
      BY <1>r, <2>4, <2>5
    <3>2. files'[Len(files')].sec = files[n].sec
      BY <2>2, <2>5
    <3> HIDE DEF n
    <3> QED BY <1>s, <2>2, <2>7, <3>1, <3>2
  <2> QED BY <2>2, <2>3, <2>6, <2>8 DEF k
<1>5. ASSUME Shut
      PROVE  /\ Len(files') = Len(files)
             /\ \A i \in 1..Len(files) : Late(i)' \subseteq Late(i)
  <2>1. /\ Len(files') = Len(files)
        /\ \A i \in 1..Len(files) : files'[i].sec = files[i].sec
        /\ \A i \in 1..Len(files) : RecordsOf(i)' \subseteq RecordsOf(i)
        /\ at' = at
    BY <1>0, <1>5, ShutFacts DEF Shut
  <2> QED BY <1>s, <2>1
<1> QED BY <1>1, <1>2, <1>3, <1>4, <1>5

(* How many late bytes there can be after a step that does not append.     *)
LEMMA BytesOld ==
  ASSUME LInv, [Next]_vars, backs = 0, len' = len
  PROVE  /\ Quiet \/ Drop \/ Flush \/ Shut =>
               /\ \A i \in 1..Len(files') : Bytes(i)' <= RollSize + MaxLen
               /\ opened => /\ Bytes(Len(files))' \in Nat
                            /\ Bytes(Len(files))' <= Bytes(Len(files))
         /\ Open =>
               /\ \A i \in 1..Len(files') : Bytes(i)' <= RollSize + MaxLen
               /\ Bytes(Len(files))' = 0
<1>0. /\ TypeOK /\ Opening /\ Len(files) \in Nat /\ RollSize \in Nat /\ MaxLen \in Nat
  BY FileTypes, Constants DEF LInv
<1>1. \A i \in 1..Len(files) : Bytes(i) <= RollSize + MaxLen
  BY DEF LInv, ByteCount
<1>2. \A i \in 1..Len(files) :
         /\ IsFiniteSet(Late(i)) /\ \A r \in Late(i) : len[r] \in Nat
         /\ Bytes(i) \in Nat
  BY <1>0, LateFinite
<1>3. opened => Len(files) \in 1..Len(files)
  BY <1>0, FileTypes
<1>4. \A i : Bytes(i)' = SumOver(len, Late(i)')
  BY DEF Bytes
<1>l. \A n : n = Len(files') => Bytes(Len(files))' = Bytes(n)'
  BY DEF Bytes, Late, RecordsOf
<1>5. ASSUME Quiet \/ Drop \/ Flush \/ Shut
      PROVE  /\ \A i \in 1..Len(files') : Bytes(i)' <= RollSize + MaxLen
             /\ opened => /\ Bytes(Len(files))' \in Nat
                          /\ Bytes(Len(files))' <= Bytes(Len(files))
  <2>1. /\ Len(files') = Len(files)
        /\ \A i \in 1..Len(files) : Late(i)' \subseteq Late(i)
    BY <1>5, LateKinds
  <2>2. ASSUME NEW i \in 1..Len(files)
        PROVE  Bytes(i)' <= Bytes(i) /\ Bytes(i)' \in Nat /\ Bytes(i) \in Nat
    <3> DEFINE B == Late(i)
               A == Late(i)'
    <3>1. /\ IsFiniteSet(B) /\ (\A r \in B : len[r] \in Nat) /\ A \in SUBSET B
      BY <1>2, <2>1
    <3>2. IsFiniteSet(A) /\ \A r \in A : len[r] \in Nat
      BY <3>1, FS_Subset
    <3> HIDE DEF A, B
    <3>3. SumOver(len, A) <= SumOver(len, B)
      BY <3>1, SumSubset
    <3>4. SumOver(len, A) \in Nat
      BY <3>2, SumTakes
    <3> QED BY <1>2, <1>4, <3>3, <3>4 DEF A, B, Bytes
  <2>3. \A i \in 1..Len(files) : Bytes(i)' <= RollSize + MaxLen
    BY <1>0, <1>1, <2>2
  <2>4. opened => Bytes(Len(files))' \in Nat /\ Bytes(Len(files))' <= Bytes(Len(files))
    BY <1>3, <1>l, <2>1, <2>2
  <2> QED BY <2>1, <2>3, <2>4
<1>6. ASSUME Open
      PROVE  /\ \A i \in 1..Len(files') : Bytes(i)' <= RollSize + MaxLen
             /\ Bytes(Len(files))' = 0
  <2>1. /\ Len(files') = Len(files) + 1
        /\ \A i \in 1..Len(files) : Late(i)' = Late(i)
        /\ Late(Len(files))' = {}
    BY <1>6, LateKinds
  <2>2. SumOver(len, {}) = 0
    <3>1. IsFiniteSet({})
      BY FS_EmptySet
    <3> QED BY <3>1, SumTakes
  <2>3. Bytes(Len(files))' = 0
    <3>1. Bytes(Len(files))' = SumOver(len', Late(Len(files))')
      BY DEF Bytes
    <3> QED BY <2>1, <2>2, <3>1
  <2>4. ASSUME NEW i \in 1..Len(files') PROVE Bytes(i)' <= RollSize + MaxLen
    <3>1. CASE i = Len(files')
      BY <1>0, <1>l, <2>3, <3>1
    <3>2. CASE i \in 1..Len(files)
      <4>1. Bytes(i)' = Bytes(i)
        BY <1>4, <2>1, <3>2 DEF Bytes
      <4> QED BY <1>1, <3>2, <4>1
    <3> QED BY <1>0, <2>1, <3>1, <3>2
  <2> QED BY <2>3, <2>4
<1> QED BY <1>5, <1>6

(* A record adds at most its length.                                       *)
LEMMA BytesAppend ==
  ASSUME LInv, [Next]_vars, backs = 0, NEW l \in 1..MaxLen, append(l)
  PROVE  /\ \A i \in 1..Len(files') : Bytes(i)' <= RollSize + MaxLen
         /\ Bytes(Len(files))' <= written'
<1> DEFINE n == Len(files)
           k == Len(at) + 1
<1>0. /\ TypeOK /\ Opening /\ n \in Nat /\ RollSize \in Nat /\ MaxLen \in Nat
      /\ written \in Nat /\ written <= RollSize /\ Len(at) \in Nat
      /\ len \in Seq(1..MaxLen) /\ Len(len) = Len(at)
  BY FileTypes, Constants DEF LInv, TypeOK, append
<1>1. /\ Write /\ written' = written + l /\ len' = Append(len, l) /\ opened /\ pc = "ready"
  BY DEF append, writeFile, Write, rollVars
<1>2. /\ Len(files') = n
      /\ \A i \in 1..n : i # n => Late(i)' = Late(i)
      /\ Late(Len(files))' \subseteq Late(n) \cup {k}
  BY <1>1, LateKinds
<1>3. n \in 1..n
  BY <1>0, <1>1, FileTypes
<1>4. \A i \in 1..n : /\ Late(i) \subseteq Records /\ IsFiniteSet(Late(i))
                      /\ \A r \in Late(i) : len[r] \in Nat
                      /\ Bytes(i) \in Nat
  BY <1>0, LateFinite
<1>5. len'[k] = l /\ k \notin Records /\ \A r \in Records : len'[r] = len[r]
  BY <1>0, <1>1 DEF Records
<1> HIDE DEF k
<1>6. \A i \in 1..n : SumOver(len', Late(i)) = Bytes(i)
  <2> SUFFICES ASSUME NEW i \in 1..n PROVE SumOver(len', Late(i)) = Bytes(i)
    OBVIOUS
  <2> DEFINE A == Late(i)
             v == len'
  <2>1. IsFiniteSet(A) /\ (\A r \in A : len[r] \in Nat) /\ \A r \in A : len[r] = v[r]
    BY <1>4, <1>5
  <2> HIDE DEF A, v
  <2>2. SumOver(len, A) = SumOver(v, A)
    BY <2>1, SumSame
  <2> QED BY <2>2 DEF A, v, Bytes
<1>7. \A i : Bytes(i)' = SumOver(len', Late(i)')
  BY DEF Bytes
<1>8. Bytes(Len(files))' <= Bytes(n) + l /\ Bytes(Len(files))' \in Nat
  <2> DEFINE A == Late(n)
             U == Late(n) \cup {k}
             B == Late(Len(files))'
             v == len'
  <2>1. IsFiniteSet(A) /\ k \notin A /\ (\A r \in A : v[r] \in Nat) /\ v[k] \in Nat
    BY <1>3, <1>4, <1>5
  <2>2. IsFiniteSet(U) /\ (\A r \in U : v[r] \in Nat) /\ U = A \cup {k}
    BY <2>1, FS_AddElement
  <2>3. B \in SUBSET U
    BY <1>2
  <2>4. Bytes(Len(files))' = SumOver(v, B) /\ SumOver(v, A) = Bytes(n) /\ v[k] = l
    BY <1>3, <1>5, <1>6 DEF Bytes
  <2>5. IsFiniteSet(B) /\ \A r \in B : v[r] \in Nat
    BY <2>2, <2>3, FS_Subset
  <2> HIDE DEF A, U, B, v
  <2>6. SumOver(v, A \cup {k}) = v[k] + SumOver(v, A)
    BY <2>1, SumAdd
  <2>7. SumOver(v, B) <= SumOver(v, U)
    BY <2>2, <2>3, SumSubset
  <2>8. SumOver(v, B) \in Nat
    BY <2>5, SumTakes
  <2>9. Bytes(n) \in Nat
    BY <1>3, <1>4
  <2>10. SumOver(v, U) = l + Bytes(n)
    BY <2>2, <2>4, <2>6
  <2> QED BY <2>4, <2>7, <2>8, <2>9, <2>10
<1>9. Bytes(n) <= written /\ Bytes(n) \in Nat
  BY <1>1, <1>3, <1>4 DEF LInv, ByteCount
<1>10. Bytes(Len(files))' <= written'
  BY <1>0, <1>1, <1>8, <1>9
<1>11. ASSUME NEW i \in 1..n PROVE Bytes(i)' <= RollSize + MaxLen
  <2>1. CASE i = n
    <3>1. Bytes(Len(files))' = Bytes(i)'
      BY <1>2, <2>1 DEF Bytes, Late, RecordsOf
    <3> QED BY <1>0, <1>1, <1>8, <1>10, <3>1
  <2>2. CASE i # n
    <3>1. Bytes(i)' = Bytes(i)
      BY <1>2, <1>6, <1>7, <2>2
    <3> QED BY <3>1 DEF LInv, ByteCount
  <2> QED BY <2>1, <2>2
<1> QED BY <1>2, <1>10, <1>11

LEMMA ByteStep ==
  ASSUME LInv, [Next]_vars
  PROVE  ByteCount'
<1> SUFFICES ASSUME backs' = 0
             PROVE  /\ \A i \in 1..Len(files') : Bytes(i)' <= RollSize + MaxLen
                    /\ opened' /\ pc' \in {"ready", "check", "close"} =>
                          Bytes(Len(files))' <= written'
  BY DEF ByteCount
<1>0. TypeOK /\ Opening /\ Shutting /\ written \in Nat
  BY Constants DEF LInv, TypeOK
<1>1. backs = 0
  BY StepShape
<1> DEFINE N == Bytes(Len(files))
           Old == \A i \in 1..Len(files) : Bytes(i) <= RollSize + MaxLen
<1>2. /\ opened /\ pc \in {"ready", "check", "close"} => N <= written
      /\ opened => N \in Nat
  <2>1. opened => Len(files) \in 1..Len(files)
    BY <1>0, FileTypes
  <2> QED BY <1>0, <1>1, <2>1, LateFinite DEF LInv, ByteCount
<1>3. len' = len => /\ Quiet \/ Drop \/ Flush \/ Shut => Old' /\ (opened => N' \in Nat /\ N' <= N)
                    /\ Open => Old' /\ N' = 0
  BY <1>1, BytesOld
<1>4. \A l \in 1..MaxLen : append(l) => Old' /\ N' <= written'
  BY <1>1, BytesAppend
<1>5. opened /\ ~ (now > lastRoll) => N = 0
  BY <1>1, NoLate
<1> HIDE DEF N, Old
<1> SUFFICES Old' /\ (opened' /\ pc' \in {"ready", "check", "close"} => N' <= written')
  BY DEF N, Old
<1>6. CASE construct \/ rollSize
  <2>1. rollFile(0) /\ UNCHANGED <<at, len>> /\ pc \in {"ctor", "check"}
    BY <1>6 DEF construct, rollSize, histVars
  <2>2. CASE Open /\ written' = 0
    BY <1>3, <2>1, <2>2
  <2>3. CASE Quiet /\ ~ (now > lastRoll) /\ written' = 0
    <3>1. opened' = opened
      BY <2>3 DEF Quiet
    <3>2. opened' => N = 0 /\ N' <= N /\ N' \in Nat
      BY <1>3, <1>5, <2>1, <2>3, <3>1
    <3> QED BY <1>3, <2>1, <2>3, <3>2
  <2> QED BY <2>1, <2>2, <2>3, RollKind
<1>7. CASE Ending
  <2>1. /\ pc' \notin {"ready", "check", "close"} /\ len' = len
        /\ Quiet \/ Drop \/ Shut
    BY <1>0, <1>7, EndKind
  <2> QED BY <1>3, <2>1
<1>10. CASE closeFile
  <2>1. /\ Shut /\ pc = "close" /\ len' = len /\ written' = written /\ opened' = opened
    BY <1>0, <1>10, CloseKind
  <2> QED BY <1>0, <1>2, <1>3, <2>1
<1>8. CASE lookAtClock
  <2>1. pc = "check" /\ len' = len
    BY <1>8 DEF lookAtClock
  <2>2. opened
    BY <1>0, <2>1 DEF Opening
  <2>3. CASE Open /\ written' = 0
    BY <1>3, <2>1, <2>3
  <2>4. CASE (Quiet \/ Flush) /\ written' = written
    BY <1>0, <1>2, <1>3, <2>1, <2>2, <2>4
  <2> QED BY <1>0, <1>8, <2>3, <2>4, LookKind
<1>9. CASE countOn \/ flush \/ tick \/ setBack \/ UNCHANGED vars
  <2>1. /\ pc' \in {"ready", "check", "close"} => pc \in {"ready", "check", "close"}
        /\ written' = written /\ opened' = opened /\ len' = len /\ (Quiet \/ Flush)
    BY <1>9 DEF countOn, flush, tick, setBack, Quiet, Flush, flushFile, vars,
                clockVars, rollVars, fileVars, histVars
  <2> QED BY <1>0, <1>2, <1>3, <2>1
<1> QED BY <1>4, <1>6, <1>7, <1>8, <1>9, <1>10 DEF Next, Ending

-----------------------------------------------------------------------------
(***************************************************************************)
(* The theorems                                                            *)
(***************************************************************************)
LEMMA LInvInit == Init => LInv
<1> SUFFICES ASSUME Init PROVE LInv
  OBVIOUS
<1>c. /\ RollSize \in Nat /\ CheckPerCount \in Nat \ {0} /\ MaxLen \in Nat
      /\ MaxTime \in Nat \ {0} /\ MaxBack \in Nat
  BY LogFileAssumption
<1>0. /\ files = <<>> /\ buf = <<>> /\ old = <<>> /\ at = <<>> /\ len = <<>> /\ ~opened
      /\ pc = "ctor" /\ Len(at) = 0 /\ Len(len) = 0
  BY DEF Init
<1>1. FilesTyped
  <2>1. {lastDay, lastRoll, lastFlush} \subseteq 0..MaxTime
    BY <1>c DEF Init
  <2>2. /\ <<>> \in Seq(Records) /\ <<>> \in Seq(0..MaxTime)
        /\ <<>> \in Seq([sec: 0..MaxTime, recs: Seq(Records), cut: Seq(Records)])
    OBVIOUS
  <2>3. opened \in BOOLEAN
    BY DEF Init
  <2> QED BY <1>0, <2>1, <2>2, <2>3 DEF FilesTyped
<1>2. RestTyped
  BY <1>c, <1>0 DEF Init, RestTyped
<1>3. TypeOK /\ Opening /\ Shutting /\ RollsIncrease
  BY <1>0, <1>1, <1>2, TypeParts DEF Init, Opening, Shutting, RollsIncrease
<1>4. Trail = <<>>
  <2>1. GoneThrough = <<>>
    <3>1. [i \in DOMAIN files |-> files[i].recs \o files[i].cut] = <<>>
      BY <1>0
    <3>2. FlattenSeq(<<>>) = <<>>
      BY DEF FlattenSeq
    <3> QED BY <3>1, <3>2 DEF GoneThrough
  <2> QED BY <1>0, <2>1 DEF Trail
<1>5. Numbered
  BY <1>0, <1>4 DEF Numbered
<1>6. InTime /\ LossBound /\ StrayCount /\ ByteCount
  BY <1>0 DEF InTime, LossBound, StrayCount, ByteCount, Records
<1> QED BY <1>3, <1>5, <1>6 DEF LInv

LEMMA LInvNext == LInv /\ [Next]_vars => LInv'
<1> SUFFICES ASSUME LInv, [Next]_vars PROVE LInv'
  OBVIOUS
<1>1. TypeOK'
  BY FilesTypedStep, RestTypedStep, TypeParts
<1> QED
  BY <1>1, OpeningStep, ShuttingStep, NumberedStep, RollsStep, InTimeStep, LossStep, StrayStep,
     ByteStep DEF LInv

LEMMA LInvAlways == Spec => []LInv
BY LInvInit, LInvNext, PTL DEF Spec

(* The fields of LogFile and FileAppender keep their types; count_ stays   *)
(* below check_per_count_, and written_bytes_ is at most roll_size_        *)
(* whenever append() can be called.                                        *)
THEOREM TypeCorrect == Spec => []TypeOK
<1>1. LInv => TypeOK
  BY DEF LInv
<1> QED BY <1>1, LInvAlways, PTL

(* For every way stdio writes its buffer, every roll and close, whether or *)
(* not the close can write the buffer, and every moment of a crash: what   *)
(* the files hold, with what a close failed to write put at the end of its *)
(* file, are the records up to some point without a gap, and while the     *)
(* process runs nothing else that was appended is missing from files and   *)
(* buffers.                                                                *)
THEOREM DiskHasNoGap == Spec => []NoGap
<1>1. LInv => NoGap
  <2> SUFFICES ASSUME LInv PROVE NoGap
    OBVIOUS
  <2>1. TypeOK /\ Opening /\ Numbered
    BY DEF LInv
  <2>2. GoneThrough \in Seq(Records) /\ old \in Seq(Records) /\ buf \in Seq(Records)
    <3>1. GoneThrough = Flat(files)
      BY DEF GoneThrough, Flat, Recs, Cat
    <3> QED BY <2>1, <3>1, FileTypes
  <2>3. old \o buf \in Seq(Records) /\ Len(old \o buf) = Len(old) + Len(buf)
    BY <2>2
  <2>4. /\ Len(Trail) = Len(GoneThrough) + Len(old \o buf)
        /\ DOMAIN GoneThrough = 1..Len(GoneThrough)
        /\ \A i \in 1..Len(GoneThrough) : i \in 1..Len(Trail) /\ Trail[i] = GoneThrough[i]
    <3> DEFINE b == old \o buf
    <3>1. b \in Seq(Records)
      BY <2>3
    <3> HIDE DEF b
    <3>2. Trail = GoneThrough \o b
      BY DEF Trail, b
    <3>3. /\ Len(Trail) = Len(GoneThrough) + Len(b)
          /\ DOMAIN GoneThrough = 1..Len(GoneThrough)
          /\ \A i \in 1..Len(GoneThrough) : i \in 1..Len(Trail) /\ Trail[i] = GoneThrough[i]
      BY <2>2, <3>1, <3>2
    <3> QED BY <3>3 DEF b
  <2>5. Len(GoneThrough) + (Len(old) + Len(buf)) = Len(GoneThrough) + Len(old) + Len(buf)
    BY <2>2
  <2> QED BY <2>1, <2>3, <2>4, <2>5 DEF Numbered, NoGap
<1> QED BY <1>1, LInvAlways, PTL

(* The seconds of the rolls increase, however the clock is set.            *)
THEOREM RollsGoUp == Spec => []RollsIncrease
<1>1. LInv => RollsIncrease
  BY DEF LInv
<1> QED BY <1>1, LInvAlways, PTL

(* While the clock runs forward, no record that a look at the clock leaves *)
(* in the buffer is flush_interval_ old: the bound on what a crash loses.  *)
THEOREM CrashLossBounded == Spec => []LossBound
<1>1. LInv => LossBound
  BY DEF LInv
<1> QED BY <1>1, LInvAlways, PTL

(* While the clock runs forward, a file holds at most check_per_count_     *)
(* records of a day other than its own.                                    *)
THEOREM DaysAreSplit == Spec => []DaySplit
<1>1. LInv => DaySplit
  <2> SUFFICES ASSUME LInv PROVE DaySplit
    OBVIOUS
  <2>1. files \in Seq(File(Secs, Records))
    BY FileTypes DEF LInv
  <2>2. DOMAIN files = 1..Len(files)
    BY <2>1
  <2> QED BY <2>2 DEF LInv, StrayCount, Strays, DaySplit
<1> QED BY <1>1, LInvAlways, PTL

(* While the clock runs forward, what goes into a file after the second in *)
(* its name is at most roll_size_ and one record.                          *)
THEOREM SizeIsBounded == Spec => []SizeBound
<1>1. LInv => SizeBound
  <2> SUFFICES ASSUME LInv PROVE SizeBound
    OBVIOUS
  <2>1. files \in Seq(File(Secs, Records))
    BY FileTypes DEF LInv
  <2>2. DOMAIN files = 1..Len(files)
    BY <2>1
  <2>3. \A i : Bytes(i) = MapThenSumSet(LAMBDA r : len[r],
                             {r \in RecordsOf(i) : at[r] > files[i].sec})
    BY Zenon DEF Bytes, Late, SumOver
  <2> QED BY <2>2, <2>3, Zenon DEF LInv, ByteCount, SizeBound
<1> QED BY <1>1, LInvAlways, PTL
=============================================================================
