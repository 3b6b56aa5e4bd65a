------------------------ MODULE AsyncLogging_proofs ------------------------
(***************************************************************************)
(* AsyncLogging for every set of messages, every buffer size and every     *)
(* drop limit: type correctness, no push into a buffer that was moved      *)
(* away, no message lost, doubled or moved before buffers are dropped, and *)
(* the order of the file even when they are.                               *)
(*                                                                         *)
(* The messages that were accepted and not dropped are seen as one line    *)
(* from the file to the current buffer.  A push adds to its end, the swap  *)
(* and the write only move the borders, and a drop cuts a piece out.       *)
(***************************************************************************)
EXTENDS AsyncLogging, DataLemmas

(* the spare buffers: empty, and there when they are needed                *)
Spares ==
  /\ next.ctxs = <<>> /\ new1.ctxs = <<>> /\ new2.ctxs = <<>>
  /\ cur.ok
  /\ next.ok \/ bufs # <<>>
  /\ wpc # "write" => new1.ok /\ new2.ok /\ toWrite = <<>>
  /\ wpc = "write" => toWrite # <<>>
  /\ \A i \in 1..Len(bufs) : bufs[i].ok
  /\ \A i \in 1..Len(toWrite) : toWrite[i].ok

(* everything between the callers and the disk                             *)
Line == file \o Contents(toWrite) \o Contents(bufs) \o cur.ctxs

(* s is made of elements of t, any two of them in the order they have in t *)
InOrder(s, t) ==
  /\ \A i \in 1..Len(s) : \E k \in 1..Len(t) : t[k] = s[i]
  /\ \A i, j \in 1..Len(s) : i < j =>
        \E k, l \in 1..Len(t) : k < l /\ t[k] = s[i] /\ t[l] = s[j]

(* The inductive invariant.                                                *)
AInv == /\ TypeOK /\ Spares
        /\ ~dropped => accepted = Line
        /\ InOrder(Line, accepted)

-----------------------------------------------------------------------------
(***************************************************************************)
(* What the buffers hold                                                   *)
(***************************************************************************)
Ctxs(s) == [i \in DOMAIN s |-> s[i].ctxs]

LEMMA CtxsType ==
  ASSUME NEW s \in Seq(Buffer)
  PROVE  Ctxs(s) \in Seq(Seq(Msgs)) /\ Len(Ctxs(s)) = Len(s)
<1>1. DOMAIN s = 1..Len(s) /\ Len(s) \in Nat /\ \A i \in 1..Len(s) : s[i] \in Buffer
  OBVIOUS
<1>2. \A b \in Buffer : b.ctxs \in Seq(Msgs)
  BY DEF Buffer
<1>3. Ctxs(s) \in [1..Len(s) -> Seq(Msgs)]
  BY <1>1, <1>2 DEF Ctxs
<1> QED BY <1>1, <1>3

LEMMA ContentsType ==
  ASSUME NEW s \in Seq(Buffer)
  PROVE  Contents(s) \in Seq(Msgs)
<1>1. Contents(s) = FlattenSeq(Ctxs(s))
  BY DEF Contents, Ctxs
<1> QED BY <1>1, CtxsType, FlattenType

LEMMA ContentsEmpty == Contents(<<>>) = <<>>
<1>1. Ctxs(<<>>) = <<>>
  BY DEF Ctxs
<1>2. FlattenSeq(<<>>) = <<>>
  BY DEF FlattenSeq
<1>3. Contents(<<>>) = FlattenSeq(Ctxs(<<>>))
  BY DEF Contents, Ctxs
<1> QED BY <1>1, <1>2, <1>3

LEMMA ContentsAppend ==
  ASSUME NEW s \in Seq(Buffer), NEW b \in Buffer
  PROVE  Contents(Append(s, b)) = Contents(s) \o b.ctxs
<1>1. b.ctxs \in Seq(Msgs) /\ Ctxs(s) \in Seq(Seq(Msgs)) /\ Len(Ctxs(s)) = Len(s)
  BY CtxsType DEF Buffer
<1>2. Append(s, b) \in Seq(Buffer)
  OBVIOUS
<1>3. Ctxs(Append(s, b)) \in Seq(Seq(Msgs)) /\ Len(Ctxs(Append(s, b))) = Len(s) + 1
  <2>1. Len(Append(s, b)) = Len(s) + 1
    OBVIOUS
  <2>2. /\ Ctxs(Append(s, b)) \in Seq(Seq(Msgs))
        /\ Len(Ctxs(Append(s, b))) = Len(Append(s, b))
    BY <1>2, CtxsType, Zenon
  <2> QED BY <2>1, <2>2, Zenon
<1>4. Append(Ctxs(s), b.ctxs) \in Seq(Seq(Msgs))
      /\ Len(Append(Ctxs(s), b.ctxs)) = Len(s) + 1
  BY <1>1
<1>5. \A i \in 1..Len(s) + 1 : Ctxs(Append(s, b))[i] = Append(Ctxs(s), b.ctxs)[i]
  <2> SUFFICES ASSUME NEW i \in 1..Len(s) + 1
               PROVE  Ctxs(Append(s, b))[i] = Append(Ctxs(s), b.ctxs)[i]
    OBVIOUS
  <2>1. Ctxs(Append(s, b))[i] = Append(s, b)[i].ctxs
    BY DEF Ctxs
  <2>2. CASE i = Len(s) + 1
    BY <1>1, <2>1, <2>2
  <2>3. CASE i # Len(s) + 1
    <3>1. i \in 1..Len(s) /\ Append(s, b)[i] = s[i]
      BY <2>3
    <3>2. Append(Ctxs(s), b.ctxs)[i] = Ctxs(s)[i]
      BY <1>1, <3>1
    <3>3. Ctxs(s)[i] = s[i].ctxs
      BY <3>1 DEF Ctxs
    <3> QED BY <2>1, <3>1, <3>2, <3>3
  <2> QED BY <2>2, <2>3
<1>6. Ctxs(Append(s, b)) = Append(Ctxs(s), b.ctxs)
  BY <1>3, <1>4, <1>5, SeqEqual
<1>7. /\ Contents(Append(s, b)) = FlattenSeq(Ctxs(Append(s, b)))
      /\ Contents(s) = FlattenSeq(Ctxs(s))
  BY DEF Contents, Ctxs
<1> QED BY <1>1, <1>6, <1>7, FlattenAppend

(* Dropping buffers at the end cuts the contents.                          *)
LEMMA ContentsPrefix ==
  ASSUME NEW s \in Seq(Buffer), NEW n \in 0..Len(s)
  PROVE  /\ SubSeq(s, 1, n) \in Seq(Buffer)
         /\ \E z \in Seq(Msgs) : Contents(s) = Contents(SubSeq(s, 1, n)) \o z
<1>1. SubSeq(s, 1, n) \in Seq(Buffer) /\ Len(SubSeq(s, 1, n)) = n
  OBVIOUS
<1>2. Ctxs(s) \in Seq(Seq(Msgs)) /\ Len(Ctxs(s)) = Len(s)
  BY CtxsType
<1>3. Ctxs(SubSeq(s, 1, n)) \in Seq(Seq(Msgs)) /\ Len(Ctxs(SubSeq(s, 1, n))) = n
  BY <1>1, CtxsType
<1>4. SubSeq(Ctxs(s), 1, n) \in Seq(Seq(Msgs)) /\ Len(SubSeq(Ctxs(s), 1, n)) = n
  BY <1>2
<1>5. \A i \in 1..n : Ctxs(SubSeq(s, 1, n))[i] = SubSeq(Ctxs(s), 1, n)[i]
  <2> SUFFICES ASSUME NEW i \in 1..n
               PROVE  Ctxs(SubSeq(s, 1, n))[i] = SubSeq(Ctxs(s), 1, n)[i]
    OBVIOUS
  <2>1. i \in 1..Len(s) /\ SubSeq(s, 1, n)[i] = s[i]
    OBVIOUS
  <2>2. Ctxs(SubSeq(s, 1, n))[i] = SubSeq(s, 1, n)[i].ctxs
    BY <1>1 DEF Ctxs
  <2>3. Ctxs(s)[i] = s[i].ctxs
    BY <2>1 DEF Ctxs
  <2>4. SubSeq(Ctxs(s), 1, n)[i] = Ctxs(s)[i]
    BY <1>2, <2>1
  <2> QED BY <2>1, <2>2, <2>3, <2>4
<1>6. Ctxs(SubSeq(s, 1, n)) = SubSeq(Ctxs(s), 1, n)
  BY <1>3, <1>4, <1>5, SeqEqual
<1>7. n \in 0..Len(Ctxs(s))
  BY <1>2
<1>8. PICK z \in Seq(Msgs) :
         FlattenSeq(Ctxs(s)) = FlattenSeq(SubSeq(Ctxs(s), 1, n)) \o z
  BY <1>2, <1>7, FlattenPrefix
<1>9. /\ Contents(SubSeq(s, 1, n)) = FlattenSeq(Ctxs(SubSeq(s, 1, n)))
      /\ Contents(s) = FlattenSeq(Ctxs(s))
  BY DEF Contents, Ctxs
<1> QED BY <1>1, <1>6, <1>8, <1>9

-----------------------------------------------------------------------------
(***************************************************************************)
(* The line under the four operations: f is the file, a what the worker    *)
(* writes, b the filled buffers, c the current one                         *)
(***************************************************************************)
Plus(c, m)       == Append(c, m)
Cat(b, c)        == b \o c
Join(f, a, b, c) == f \o a \o b \o c

LEMMA LinePush ==
  ASSUME NEW f \in Seq(Msgs), NEW a \in Seq(Msgs), NEW b \in Seq(Msgs),
         NEW c \in Seq(Msgs), NEW m \in Msgs
  PROVE  /\ Join(f, a, b, Plus(c, m)) = Plus(Join(f, a, b, c), m)
         /\ Join(f, a, Cat(b, c), Plus(<<>>, m)) = Plus(Join(f, a, b, c), m)
<1> DEFINE g == f \o a
<1>1. g \in Seq(Msgs)
  OBVIOUS
<1> HIDE DEF g
<1>2. g \o b \o Append(c, m) = Append(g \o b \o c, m)
  <2>1. g \o b \in Seq(Msgs)
    BY <1>1
  <2> DEFINE h == g \o b
  <2> HIDE DEF h
  <2>2. h \o Append(c, m) = Append(h \o c, m)
    BY <2>1 DEF h
  <2> QED BY <2>2 DEF h
<1>3. g \o (b \o c) \o <<m>> = Append(g \o b \o c, m)
  <2>1. g \o (b \o c) = g \o b \o c
    BY <1>1
  <2>2. g \o b \o c \in Seq(Msgs)
    BY <1>1
  <2> DEFINE h == g \o b \o c
  <2> HIDE DEF h
  <2>3. h \o <<m>> = Append(h, m)
    BY <2>2 DEF h
  <2> QED BY <2>1, <2>3 DEF h
<1>4. Append(<<>>, m) = <<m>>
  OBVIOUS
<1> QED BY <1>2, <1>3, <1>4 DEF g, Join, Cat, Plus

LEMMA LineSwap ==
  ASSUME NEW f \in Seq(Msgs), NEW b \in Seq(Msgs), NEW c \in Seq(Msgs)
  PROVE  /\ f \o (b \o c) \o <<>> \o <<>> = f \o <<>> \o b \o c
         /\ f \o b \o <<>> \o <<>> = f \o <<>> \o b \o <<>>
<1>1. f \o <<>> = f /\ b \o <<>> = b /\ b \o c \in Seq(Msgs)
  OBVIOUS
<1>2. f \o (b \o c) = f \o b \o c /\ f \o b \o c \in Seq(Msgs) /\ f \o b \in Seq(Msgs)
  OBVIOUS
<1>3. \A s \in Seq(Msgs) : s \o <<>> = s
  OBVIOUS
<1> QED BY <1>1, <1>2, <1>3

LEMMA LineWrite ==
  ASSUME NEW f \in Seq(Msgs), NEW a \in Seq(Msgs), NEW b \in Seq(Msgs),
         NEW c \in Seq(Msgs)
  PROVE  f \o a \o <<>> \o b \o c = f \o a \o b \o c
<1>1. f \o a \in Seq(Msgs) /\ \A s \in Seq(Msgs) : s \o <<>> = s
  OBVIOUS
<1> QED BY <1>1

LEMMA JoinTail ==
  ASSUME NEW f \in Seq(Msgs), NEW a \in Seq(Msgs), NEW b \in Seq(Msgs),
         NEW c \in Seq(Msgs)
  PROVE  /\ Cat(a, Cat(b, c)) \in Seq(Msgs)
         /\ Join(f, a, b, c) = Cat(f, Cat(a, Cat(b, c)))
<1>1. f \o a \o b \o c = f \o (a \o (b \o c)) /\ a \o (b \o c) \in Seq(Msgs)
  BY SMTT(30)
<1> QED BY <1>1 DEF Join, Cat

LEMMA JoinGroup ==
  ASSUME NEW f \in Seq(Msgs), NEW a \in Seq(Msgs), NEW b \in Seq(Msgs),
         NEW c \in Seq(Msgs)
  PROVE  /\ Cat(f, a) \in Seq(Msgs) /\ Cat(b, c) \in Seq(Msgs)
         /\ Join(f, a, b, c) = Cat(Cat(f, a), Cat(b, c))
<1>1. f \o a \in Seq(Msgs) /\ b \o c \in Seq(Msgs)
  OBVIOUS
<1>2. \A g \in Seq(Msgs) : g \o b \o c = g \o (b \o c)
  BY SMTT(30)
<1> QED BY <1>1, <1>2 DEF Join, Cat

LEMMA JoinCut ==
  ASSUME NEW f \in Seq(Msgs), NEW a \in Seq(Msgs), NEW z \in Seq(Msgs),
         NEW b \in Seq(Msgs), NEW c \in Seq(Msgs)
  PROVE  Join(f, Cat(a, z), b, c) = Cat(Cat(Cat(f, a), z), Cat(b, c))
<1>1. f \o (a \o z) = f \o a \o z /\ f \o a \o z \in Seq(Msgs)
  BY SMTT(30)
<1>2. \A g \in Seq(Msgs) : g \o b \o c = g \o (b \o c)
  BY SMTT(30)
<1> QED BY <1>1, <1>2 DEF Join, Cat

(* What was cut out of the middle does not change the order of the rest.   *)
LEMMA OrderCut ==
  ASSUME NEW x \in Seq(Msgs), NEW z \in Seq(Msgs), NEW y \in Seq(Msgs),
         NEW t \in Seq(Msgs), InOrder(x \o z \o y, t)
  PROVE  InOrder(x \o y, t)
<1> DEFINE u == x \o z \o y
           v == x \o y
           at(i) == IF i <= Len(x) THEN i ELSE i + Len(z)
<1>1. /\ Len(u) = Len(x) + Len(z) + Len(y) /\ Len(v) = Len(x) + Len(y)
      /\ Len(x) \in Nat /\ Len(y) \in Nat /\ Len(z) \in Nat
  OBVIOUS
<1>2. \A i \in 1..Len(v) : at(i) \in 1..Len(u) /\ u[at(i)] = v[i]
  <2> SUFFICES ASSUME NEW i \in 1..Len(v)
               PROVE  at(i) \in 1..Len(u) /\ u[at(i)] = v[i]
    OBVIOUS
  <2>1. at(i) \in 1..Len(u)
    BY <1>1
  <2>2. CASE i <= Len(x)
    BY <2>2
  <2>3. CASE ~ (i <= Len(x))
    <3>1. v[i] = y[i - Len(x)]
      BY <1>1, <2>3
    <3>2. u[i + Len(z)] = y[i - Len(x)]
      BY <1>1, <2>3
    <3> QED BY <2>1, <2>3, <3>1, <3>2
  <2> QED BY <2>1, <2>2, <2>3
<1>3. \A i, j \in 1..Len(v) : i < j => at(i) < at(j)
  BY <1>1
<1> HIDE DEF u, v, at
<1>4. InOrder(u, t)
  BY DEF u
<1>5. InOrder(v, t)
  <2>1. \A i \in 1..Len(v) : \E n \in 1..Len(t) : t[n] = v[i]
    BY <1>2, <1>4 DEF InOrder
  <2>2. ASSUME NEW i \in 1..Len(v), NEW j \in 1..Len(v), i < j
        PROVE  \E n, l \in 1..Len(t) : n < l /\ t[n] = v[i] /\ t[l] = v[j]
    <3>1. /\ at(i) \in 1..Len(u) /\ at(j) \in 1..Len(u) /\ at(i) < at(j)
          /\ u[at(i)] = v[i] /\ u[at(j)] = v[j]
      BY <1>2, <1>3, <2>2
    <3>2. \A p, q \in 1..Len(u) : p < q =>
             \E n, l \in 1..Len(t) : n < l /\ t[n] = u[p] /\ t[l] = u[q]
      BY <1>4, Zenon DEF InOrder
    <3>3. \E n, l \in 1..Len(t) : n < l /\ t[n] = u[at(i)] /\ t[l] = u[at(j)]
      BY <3>1, <3>2, Zenon
    <3> QED BY <3>1, <3>3, Zenon
  <2> QED BY <2>1, <2>2 DEF InOrder
<1> QED BY <1>5 DEF v

LEMMA OrderPrefix ==
  ASSUME NEW x \in Seq(Msgs), NEW y \in Seq(Msgs), NEW t \in Seq(Msgs),
         InOrder(x \o y, t)
  PROVE  InOrder(x, t)
<1>1. <<>> \in Seq(Msgs) /\ x \o y \o <<>> = x \o y /\ x \o <<>> = x
  OBVIOUS
<1> QED BY <1>1, OrderCut

LEMMA OrderPush ==
  ASSUME NEW s \in Seq(Msgs), NEW t \in Seq(Msgs), NEW m \in Msgs, InOrder(s, t)
  PROVE  InOrder(Append(s, m), Append(t, m))
<1> DEFINE u == Append(s, m)
           v == Append(t, m)
<1>1. /\ Len(s) \in Nat /\ Len(t) \in Nat
      /\ Len(u) = Len(s) + 1 /\ Len(v) = Len(t) + 1
      /\ u[Len(s) + 1] = m /\ v[Len(t) + 1] = m
      /\ \A i \in 1..Len(s) : u[i] = s[i]
      /\ \A i \in 1..Len(t) : v[i] = t[i]
  OBVIOUS
<1> HIDE DEF u, v
<1>2. \A i \in 1..Len(u) : i = Len(s) + 1 \/ i \in 1..Len(s)
  BY <1>1
<1>3. 1..Len(t) \subseteq 1..Len(v) /\ Len(t) + 1 \in 1..Len(v)
  BY <1>1
<1>4. \A i \in 1..Len(u) : \E n \in 1..Len(v) : v[n] = u[i]
  <2> SUFFICES ASSUME NEW i \in 1..Len(u) PROVE \E n \in 1..Len(v) : v[n] = u[i]
    OBVIOUS
  <2>1. CASE i = Len(s) + 1
    BY <1>1, <1>3, <2>1
  <2>2. CASE i \in 1..Len(s)
    <3>1. PICK n \in 1..Len(t) : t[n] = s[i]
      BY <2>2 DEF InOrder
    <3> QED BY <1>1, <1>3, <2>2, <3>1
  <2> QED BY <1>2, <2>1, <2>2
<1>5. ASSUME NEW i \in 1..Len(u), NEW j \in 1..Len(u), i < j
      PROVE  \E n, l \in 1..Len(v) : n < l /\ v[n] = u[i] /\ v[l] = u[j]
  <2>1. i \in 1..Len(s)
    BY <1>1, <1>5
  <2>2. CASE j = Len(s) + 1
    <3>1. PICK n \in 1..Len(t) : t[n] = s[i]
      BY <2>1 DEF InOrder
    <3>2. n < Len(t) + 1
      BY <1>1
    <3> QED BY <1>1, <1>3, <2>1, <2>2, <3>1, <3>2
  <2>3. CASE j \in 1..Len(s)
    <3>1. PICK n, l \in 1..Len(t) : n < l /\ t[n] = s[i] /\ t[l] = s[j]
      BY <1>5, <2>1, <2>3 DEF InOrder
    <3> QED BY <1>1, <1>3, <2>1, <2>3, <3>1
  <2> QED BY <1>2, <2>2, <2>3
<1>6. InOrder(u, v)
  BY <1>4, <1>5 DEF InOrder
<1> QED BY <1>6 DEF u, v

-----------------------------------------------------------------------------
(***************************************************************************)
(* The invariant                                                           *)
(***************************************************************************)
LEMMA LineType ==
  ASSUME TypeOK
  PROVE  /\ file \in Seq(Msgs) /\ Contents(toWrite) \in Seq(Msgs)
         /\ Contents(bufs) \in Seq(Msgs) /\ cur.ctxs \in Seq(Msgs)
         /\ accepted \in Seq(Msgs) /\ Line \in Seq(Msgs)
<1>1. /\ file \in Seq(Msgs) /\ cur.ctxs \in Seq(Msgs) /\ accepted \in Seq(Msgs)
      /\ toWrite \in Seq(Buffer) /\ bufs \in Seq(Buffer)
  BY DEF TypeOK, Buffer
<1>2. Contents(toWrite) \in Seq(Msgs) /\ Contents(bufs) \in Seq(Msgs)
  BY <1>1, ContentsType
<1>3. \A a, b, c, d \in Seq(Msgs) : a \o b \o c \o d \in Seq(Msgs)
  OBVIOUS
<1> QED BY <1>1, <1>2, <1>3, Zenon DEF Line

(* The steps that do not touch buffers, file and histories.                *)
LEMMA Elsewhere ==
  ASSUME AInv, TypeOK', UNCHANGED <<bufVars, file, accepted, dropped>>,
         wpc' = "write" <=> wpc = "write"
  PROVE  AInv'
<1>1. Spares'
  BY DEF AInv, Spares, bufVars
<1>2. Line' = Line
  BY DEF Line, bufVars
<1> QED BY <1>1, <1>2 DEF AInv

LEMMA PlainSteps ==
  ASSUME AInv,
         \/ \E m \in Msgs : pushCheck(m)
         \/ workerTop \/ workerWait \/ ctorReturn \/ doDone \/ doneNotify \/ join
         \/ UNCHANGED vars
  PROVE  /\ TypeOK' /\ UNCHANGED <<bufVars, file, accepted, dropped>>
         /\ wpc' = "write" <=> wpc = "write"
<1>0. TypeOK
  BY DEF AInv
<1>1. ASSUME NEW m \in Msgs, pushCheck(m)
      PROVE  TypeOK' /\ UNCHANGED <<bufVars, file, accepted, dropped, wpc>>
  BY <1>0, <1>1 DEF TypeOK, pushCheck, bufVars
<1>2. CASE workerTop \/ workerWait
  BY <1>0, <1>2 DEF TypeOK, workerTop, workerWait, bufVars
<1>3. CASE ctorReturn \/ doDone \/ join
  BY <1>0, <1>3 DEF TypeOK, ctorReturn, doDone, join, OwnerStep, bufVars
<1>4. CASE doneNotify
  BY <1>0, <1>4 DEF TypeOK, doneNotify, OwnerStep, notifyOne, bufVars
<1>5. CASE UNCHANGED vars
  BY <1>0, <1>5 DEF TypeOK, vars, bufVars
<1> QED BY <1>1, <1>2, <1>3, <1>4, <1>5

LEMMA PushInto ==
  ASSUME NEW b \in Buffer, NEW m \in Msgs
  PROVE  /\ push(b, m) \in Buffer
         /\ push(b, m).ctxs = Append(b.ctxs, m) /\ push(b, m).ok = b.ok
<1>1. b.ctxs \in Seq(Msgs) /\ b.ok \in BOOLEAN /\ b = [ok |-> b.ok, ctxs |-> b.ctxs]
  BY DEF Buffer
<1>2. Append(b.ctxs, m) \in Seq(Msgs)
  BY <1>1
<1>3. push(b, m) = [ok |-> b.ok, ctxs |-> Append(b.ctxs, m)]
  BY <1>1 DEF push
<1> QED BY <1>1, <1>2, <1>3 DEF Buffer

(* A push adds its message to the end of the line.                         *)
LEMMA P_push ==
  ASSUME AInv, NEW m \in Msgs, pushRoom(m) \/ pushFull(m)
  PROVE  AInv'
<1>0. /\ TypeOK /\ Spares /\ cur \in Buffer /\ next \in Buffer /\ bufs \in Seq(Buffer)
      /\ cur.ctxs \in Seq(Msgs) /\ Len(cur.ctxs) <= Cap /\ Cap \in Nat \ {0}
  BY CapAssumption DEF AInv, TypeOK, Buffer
<1>1. Fresh \in Buffer /\ Moved \in Buffer
  BY DEF Fresh, Moved, Buffer
<1>2. /\ accepted' = Append(accepted, m) /\ ppc' = [ppc EXCEPT ![m] = "end"]
      /\ UNCHANGED <<done, latch, new1, new2, toWrite, wpc, opc, file, dropped>>
  BY DEF pushRoom, pushFull
<1>3. /\ Join(file, Contents(toWrite), Contents(bufs), Plus(cur.ctxs, m))
           = Plus(Line, m)
      /\ Join(file, Contents(toWrite), Cat(Contents(bufs), cur.ctxs), Plus(<<>>, m))
           = Plus(Line, m)
  <2>1. Line = Join(file, Contents(toWrite), Contents(bufs), cur.ctxs)
    BY DEF Line, Join
  <2> QED BY <1>0, <2>1, LineType, LinePush
<1>4. /\ TypeOK' /\ Spares' /\ Line' = Append(Line, m)
  <2>1. CASE pushRoom(m)
    <3>1. /\ cur' = push(cur, m) /\ Len(cur.ctxs) # Cap
          /\ UNCHANGED <<next, bufs, notified>>
      BY <2>1 DEF pushRoom, full
    <3>2. /\ cur' \in Buffer /\ cur'.ctxs = Append(cur.ctxs, m) /\ cur'.ok = cur.ok
          /\ Len(cur'.ctxs) <= Cap
      <4>1. /\ cur' \in Buffer /\ cur'.ctxs = Append(cur.ctxs, m)
            /\ cur'.ok = cur.ok
        BY <1>0, <3>1, PushInto
      <4>2. Len(Append(cur.ctxs, m)) = Len(cur.ctxs) + 1 /\ Len(cur.ctxs) \in Nat
        BY <1>0
      <4> QED BY <1>0, <3>1, <4>1, <4>2
    <3>3. TypeOK'
      BY <1>0, <1>2, <3>1, <3>2 DEF TypeOK
    <3>4. Spares'
      BY <1>0, <1>2, <3>1, <3>2 DEF Spares
    <3>5. Line' = Append(Line, m)
      <4>1. Line' = Join(file, Contents(toWrite), Contents(bufs), Plus(cur.ctxs, m))
        BY <1>2, <3>1, <3>2 DEF Line, Join, Plus
      <4>2. Line' = Plus(Line, m)
        BY <1>3, <4>1
      <4> QED BY <4>2 DEF Plus
    <3> QED BY <3>3, <3>4, <3>5
  <2>2. CASE pushFull(m)
    <3> DEFINE b == IF next.ok THEN next ELSE Fresh
    <3>1. /\ bufs' = Append(bufs, cur) /\ cur' = push(b, m)
          /\ next' = IF next.ok THEN Moved ELSE next
          /\ notified' = (notified \/ wpc = "wait")
      BY <2>2 DEF pushFull, notifyOne
    <3>2. b \in Buffer /\ b.ctxs = <<>> /\ b.ok
      BY <1>0, <1>1 DEF Spares, Fresh
    <3> HIDE DEF b
    <3>3. cur' \in Buffer /\ cur'.ctxs = <<m>> /\ cur'.ok /\ Len(cur'.ctxs) <= Cap
      <4>1. cur' \in Buffer /\ cur'.ctxs = Append(<<>>, m) /\ cur'.ok
        BY <3>1, <3>2, PushInto
      <4>2. Append(<<>>, m) = <<m>> /\ Len(<<m>>) = 1
        OBVIOUS
      <4> QED BY <1>0, <4>1, <4>2
    <3>4. /\ bufs' \in Seq(Buffer) /\ bufs' # <<>>
          /\ \A i \in 1..Len(bufs') : bufs'[i] = cur \/ (i \in 1..Len(bufs) /\ bufs'[i] = bufs[i])
      BY <1>0, <3>1
    <3>5. next' \in Buffer /\ next'.ctxs = <<>>
      BY <1>0, <1>1, <3>1 DEF Spares, Moved
    <3>6. TypeOK'
      BY <1>0, <1>2, <3>1, <3>3, <3>4, <3>5 DEF TypeOK
    <3>7. Spares'
      BY <1>0, <1>2, <3>3, <3>4, <3>5 DEF Spares
    <3>8. Contents(bufs') = Contents(bufs) \o cur.ctxs
      BY <1>0, <3>1, ContentsAppend
    <3>9. Line' = Join(file, Contents(toWrite), Cat(Contents(bufs), cur.ctxs),
                       Plus(<<>>, m))
      <4>1. cur'.ctxs = Plus(<<>>, m)
        BY <3>3 DEF Plus
      <4> QED BY <1>2, <3>8, <4>1 DEF Line, Join, Cat
    <3>10. Line' = Append(Line, m)
      <4>1. Line' = Plus(Line, m)
        BY <1>3, <3>9
      <4> QED BY <4>1 DEF Plus
    <3> QED BY <3>6, <3>7, <3>10
  <2> QED BY <2>1, <2>2
<1>5. InOrder(Line', accepted')
  BY <1>0, <1>2, <1>4, LineType, OrderPush DEF AInv
<1> QED BY <1>2, <1>4, <1>5 DEF AInv

(* The swap moves the borders.                                             *)
LEMMA P_swap ==
  ASSUME AInv, workerSwap \/ workerWake
  PROVE  AInv'
<1>0. /\ TypeOK /\ Spares /\ wpc # "write" /\ toWrite = <<>>
      /\ cur \in Buffer /\ next \in Buffer /\ new1 \in Buffer /\ new2 \in Buffer
      /\ bufs \in Seq(Buffer) /\ cur.ctxs \in Seq(Msgs)
  BY DEF AInv, TypeOK, Spares, Buffer, workerSwap, workerWake
<1>1. /\ Swap /\ (notified' = notified \/ notified' = FALSE)
      /\ UNCHANGED <<done, latch, ppc, opc, file, accepted, dropped>>
  BY DEF workerSwap, workerWake
<1>2. Moved \in Buffer /\ Moved.ctxs = <<>> /\ ~Moved.ok
  BY DEF Moved, Buffer
<1> DEFINE take == cur.ctxs # <<>>
<1>3. /\ cur' = IF take THEN new1 ELSE cur
      /\ new1' = IF take THEN Moved ELSE new1
      /\ toWrite' = IF take THEN Append(bufs, cur) ELSE bufs
      /\ bufs' = <<>>
      /\ next' = IF next.ok THEN next ELSE new2
      /\ new2' = IF next.ok THEN new2 ELSE Moved
      /\ wpc' = IF toWrite' = <<>> THEN "top" ELSE "write"
  BY <1>0, <1>1 DEF Swap, empty
<1> HIDE DEF take
<1>4. /\ toWrite' \in Seq(Buffer)
      /\ \A i \in 1..Len(toWrite') :
            toWrite'[i] = cur \/ (i \in 1..Len(bufs) /\ toWrite'[i] = bufs[i])
      /\ toWrite' = <<>> => ~take /\ bufs = <<>>
  BY <1>0, <1>3
<1>5. TypeOK'
  <2>1. /\ cur' \in Buffer /\ new1' \in Buffer /\ next' \in Buffer /\ new2' \in Buffer
        /\ bufs' \in Seq(Buffer)
    BY <1>0, <1>2, <1>3
  <2>2. Len(cur'.ctxs) <= Cap
    BY <1>0, <1>3, CapAssumption DEF TypeOK, Spares
  <2>3. notified' \in BOOLEAN
    BY <1>0, <1>1, Zenon DEF TypeOK
  <2> QED BY <1>0, <1>1, <1>3, <1>4, <2>1, <2>2, <2>3 DEF TypeOK
<1>6. Spares'
  <2>1. new1.ok /\ new2.ok /\ cur.ok
    BY <1>0 DEF Spares
  <2>2. next'.ctxs = <<>> /\ new1'.ctxs = <<>> /\ new2'.ctxs = <<>> /\ cur'.ok /\ next'.ok
    BY <1>0, <1>2, <1>3, <2>1 DEF Spares
  <2>3. \A i \in 1..Len(toWrite') : toWrite'[i].ok
    BY <1>0, <1>4, <2>1 DEF Spares
  <2>4. toWrite' = <<>> => new1'.ok /\ new2'.ok
    BY <1>0, <1>3, <1>4, <2>1 DEF Spares
  <2>5. \A i \in 1..Len(bufs') : bufs'[i].ok
    BY <1>3
  <2> QED BY <1>3, <2>2, <2>3, <2>4, <2>5 DEF Spares
<1>7. Line' = Line
  <2>1. file \in Seq(Msgs) /\ Contents(bufs) \in Seq(Msgs)
    BY <1>0, LineType
  <2>2. Contents(toWrite) = <<>> /\ Contents(bufs') = <<>>
    BY <1>0, <1>3, ContentsEmpty
  <2>3. CASE take
    <3>1. Contents(toWrite') = Contents(bufs) \o cur.ctxs
      BY <1>0, <1>3, <2>3, ContentsAppend
    <3>2. cur'.ctxs = <<>>
      BY <1>0, <1>3, <2>3 DEF Spares
    <3>3. Line' = file \o (Contents(bufs) \o cur.ctxs) \o <<>> \o <<>>
      BY <1>1, <2>2, <3>1, <3>2 DEF Line
    <3>4. Line = file \o <<>> \o Contents(bufs) \o cur.ctxs
      BY <2>2 DEF Line
    <3> QED BY <1>0, <2>1, <3>3, <3>4, LineSwap
  <2>4. CASE ~take
    <3>1. Contents(toWrite') = Contents(bufs) /\ cur.ctxs = <<>> /\ cur'.ctxs = <<>>
      BY <1>3, <2>4 DEF take
    <3>2. Line' = file \o Contents(bufs) \o <<>> \o <<>>
      BY <1>1, <2>2, <3>1 DEF Line
    <3>3. Line = file \o <<>> \o Contents(bufs) \o <<>>
      BY <2>2, <3>1 DEF Line
    <3> QED BY <1>0, <2>1, <3>2, <3>3, LineSwap
  <2> QED BY <2>3, <2>4
<1> QED BY <1>1, <1>5, <1>6, <1>7 DEF AInv

LEMMA ResetBuffer ==
  ASSUME NEW b \in Buffer
  PROVE  reset(b) \in Buffer /\ reset(b).ctxs = <<>> /\ reset(b).ok = b.ok
<1>1. b = [ok |-> b.ok, ctxs |-> b.ctxs] /\ b.ok \in BOOLEAN
  BY DEF Buffer
<1>2. reset(b) = [ok |-> b.ok, ctxs |-> <<>>]
  BY <1>1 DEF reset
<1> QED BY <1>1, <1>2 DEF Buffer

(* the first buffers of the worker: all of them, or two of too many        *)
LEMMA KeptBuffers ==
  ASSUME AInv, wpc = "write"
  PROVE  /\ Kept \in Seq(Buffer) /\ Contents(Kept) \in Seq(Msgs)
         /\ Written(1) \in Buffer /\ Written(1).ok
         /\ Written(2) \in Buffer /\ Written(2).ok
         /\ ~ (Len(toWrite) > DropLimit) => Kept = toWrite
         /\ \E z \in Seq(Msgs) : Contents(toWrite) = Contents(Kept) \o z
<1>1. /\ toWrite \in Seq(Buffer) /\ toWrite # <<>>
      /\ \A i \in 1..Len(toWrite) : toWrite[i].ok
  BY DEF AInv, TypeOK, Spares
<1>2. Fresh \in Buffer /\ Fresh.ok
  BY DEF Fresh, Buffer
<1>3. /\ Kept \in Seq(Buffer) /\ Len(Kept) <= Len(toWrite) /\ Len(Kept) \in Nat
      /\ \A i \in 1..Len(Kept) : Kept[i] = toWrite[i]
      /\ \E z \in Seq(Msgs) : Contents(toWrite) = Contents(Kept) \o z
  <2>1. CASE Len(toWrite) > DropLimit
    <3>1. Kept = SubSeq(toWrite, 1, 2)
      BY <2>1 DEF Kept
    <3>2. 2 \in 0..Len(toWrite)
      BY <1>1, <2>1, DropAssumption
    <3>3. Len(SubSeq(toWrite, 1, 2)) = 2 /\ \A i \in 1..2 : SubSeq(toWrite, 1, 2)[i] = toWrite[i]
      BY <1>1, <3>2
    <3>4. /\ SubSeq(toWrite, 1, 2) \in Seq(Buffer)
          /\ \E z \in Seq(Msgs) : Contents(toWrite) = Contents(SubSeq(toWrite, 1, 2)) \o z
      BY <1>1, <3>2, ContentsPrefix
    <3> QED BY <3>1, <3>2, <3>3, <3>4
  <2>2. CASE ~ (Len(toWrite) > DropLimit)
    <3>1. Kept = toWrite
      BY <2>2 DEF Kept
    <3>2. Contents(toWrite) \in Seq(Msgs)
      BY <1>1, ContentsType
    <3>3. \A s \in Seq(Msgs) : s = s \o <<>>
      OBVIOUS
    <3>4. <<>> \in Seq(Msgs)
      OBVIOUS
    <3>5. \E z \in Seq(Msgs) : Contents(toWrite) = Contents(toWrite) \o z
      BY <3>2, <3>3, <3>4, Zenon
    <3> QED BY <1>1, <3>1, <3>5
  <2> QED BY <2>1, <2>2
<1>4. \A i \in 1..Len(Kept) : Kept[i] \in Buffer /\ Kept[i].ok
  BY <1>1, <1>3
<1>5. \A i \in {1, 2} : Written(i) \in Buffer /\ Written(i).ok
  BY <1>2, <1>3, <1>4 DEF Written
<1>6. ~ (Len(toWrite) > DropLimit) => Kept = toWrite
  BY DEF Kept
<1>7. Contents(Kept) \in Seq(Msgs)
  BY <1>3, ContentsType
<1> QED BY <1>3, <1>5, <1>6, <1>7

(* The write moves the border of the file, or cuts what it drops.          *)
LEMMA P_write ==
  ASSUME AInv, workerWrite
  PROVE  AInv'
<1>0. /\ TypeOK /\ Spares /\ wpc = "write" /\ wpc' = "top" /\ toWrite' = <<>>
      /\ new1 \in Buffer /\ new2 \in Buffer
  BY DEF AInv, TypeOK, workerWrite
<1>1. /\ file' = file \o Contents(Kept)
      /\ dropped' = (dropped \/ Len(toWrite) > DropLimit)
      /\ UNCHANGED <<done, latch, cur, next, bufs, notified, ppc, opc, accepted>>
  BY DEF workerWrite
<1>2. /\ new1' = IF new1.ok THEN new1 ELSE reset(Written(1))
      /\ new2' = IF new2.ok THEN new2 ELSE reset(Written(2))
  BY DEF workerWrite
<1>3. /\ Kept \in Seq(Buffer) /\ Contents(Kept) \in Seq(Msgs)
      /\ Written(1) \in Buffer /\ Written(1).ok
      /\ Written(2) \in Buffer /\ Written(2).ok
  BY <1>0, KeptBuffers
<1>4. /\ new1' \in Buffer /\ new1'.ok /\ new1'.ctxs = <<>>
      /\ new2' \in Buffer /\ new2'.ok /\ new2'.ctxs = <<>>
  BY <1>0, <1>2, <1>3, ResetBuffer DEF Spares
<1>5. /\ file \in Seq(Msgs) /\ Contents(toWrite) \in Seq(Msgs)
      /\ Contents(bufs) \in Seq(Msgs) /\ cur.ctxs \in Seq(Msgs)
      /\ accepted \in Seq(Msgs)
  BY <1>0, LineType
<1>6. TypeOK'
  <2>1. file' \in Seq(Msgs)
    BY <1>1, <1>3, <1>5
  <2>2. dropped' \in BOOLEAN
    BY <1>1
  <2>3. toWrite' \in Seq(Buffer)
    BY <1>0
  <2> QED BY <1>0, <1>1, <1>4, <2>1, <2>2, <2>3 DEF TypeOK
<1>7. Spares'
  <2>1. \A i \in 1..Len(toWrite') : toWrite'[i].ok
    BY <1>0
  <2> QED BY <1>0, <1>1, <1>4, <2>1 DEF Spares
<1>8. Line' = file \o Contents(Kept) \o Contents(bufs) \o cur.ctxs
  <2>1. Line' = file \o Contents(Kept) \o <<>> \o Contents(bufs) \o cur.ctxs
    BY <1>0, <1>1, ContentsEmpty DEF Line
  <2> QED BY <1>3, <1>5, <2>1, LineWrite
<1>9. ~dropped' => accepted' = Line'
  <2> SUFFICES ASSUME ~dropped' PROVE accepted' = Line'
    OBVIOUS
  <2>1. ~dropped /\ ~ (Len(toWrite) > DropLimit)
    BY <1>1
  <2>2. Kept = toWrite
    BY <1>0, <2>1, KeptBuffers
  <2>3. Line' = Line
    BY <1>8, <2>2 DEF Line
  <2> QED BY <1>1, <2>1, <2>3 DEF AInv
<1>10. InOrder(Line', accepted')
  <2>1. PICK z \in Seq(Msgs) : Contents(toWrite) = Cat(Contents(Kept), z)
    BY <1>0, KeptBuffers DEF Cat
  <2> DEFINE x == Cat(file, Contents(Kept))
             y == Cat(Contents(bufs), cur.ctxs)
  <2>2. x \in Seq(Msgs) /\ y \in Seq(Msgs)
    BY <1>3, <1>5, JoinGroup
  <2>3. Line' = Cat(x, y)
    <3>1. Line' = Join(file, Contents(Kept), Contents(bufs), cur.ctxs)
      BY <1>8 DEF Join
    <3> QED BY <1>3, <1>5, <3>1, JoinGroup
  <2>4. Line = Cat(Cat(x, z), y)
    <3>1. Line = Join(file, Cat(Contents(Kept), z), Contents(bufs), cur.ctxs)
      BY <2>1 DEF Line, Join
    <3> QED BY <1>3, <1>5, <3>1, JoinCut
  <2> HIDE DEF x, y
  <2>5. InOrder(x \o z \o y, accepted)
    BY <2>4 DEF AInv, Cat
  <2>6. InOrder(x \o y, accepted)
    BY <1>5, <2>2, <2>5, OrderCut
  <2> QED BY <1>1, <2>3, <2>6 DEF Cat
<1> QED BY <1>6, <1>7, <1>9, <1>10 DEF AInv

LEMMA AInvInit == Init => AInv
<1> SUFFICES ASSUME Init PROVE AInv
  OBVIOUS
<1>1. TypeOK
  <2>1. Fresh \in Buffer /\ Fresh.ctxs = <<>>
    BY DEF Fresh, Buffer
  <2>2. <<>> \in Seq(Buffer) /\ <<>> \in Seq(Msgs) /\ Len(<<>>) <= Cap
    BY CapAssumption
  <2>3. ppc \in [Msgs -> {"start", "push", "end"}]
    BY DEF Init
  <2> QED BY <2>1, <2>2, <2>3 DEF Init, TypeOK
<1>2. Spares
  BY DEF Init, Spares, Fresh
<1>3. Line = <<>>
  <2>1. Line = <<>> \o <<>> \o <<>> \o <<>>
    BY ContentsEmpty DEF Init, Line, Fresh
  <2> QED BY <2>1
<1>4. accepted = <<>>
  BY DEF Init
<1> QED BY <1>1, <1>2, <1>3, <1>4 DEF AInv, InOrder

LEMMA AInvNext == AInv /\ [Next]_vars => AInv'
<1> SUFFICES ASSUME AInv, [Next]_vars PROVE AInv'
  OBVIOUS
<1>1. CASE \E m \in Msgs : pushRoom(m) \/ pushFull(m)
  BY <1>1, P_push
<1>2. CASE workerSwap \/ workerWake
  BY <1>2, P_swap
<1>3. CASE workerWrite
  BY <1>3, P_write
<1>4. CASE \/ \E m \in Msgs : pushCheck(m)
           \/ workerTop \/ workerWait \/ ctorReturn \/ doDone \/ doneNotify \/ join
           \/ UNCHANGED vars
  BY <1>4, PlainSteps, Elsewhere
<1> QED BY <1>1, <1>2, <1>3, <1>4 DEF Next, threadWorker

LEMMA AInvAlways == Spec => []AInv
BY AInvInit, AInvNext, PTL DEF Spec

-----------------------------------------------------------------------------
(* The buffers, the control and the histories keep their types, and no     *)
(* buffer holds more messages than the array of FixedBuffer has places.    *)
THEOREM TypeCorrect == Spec => []TypeOK
<1>1. AInv => TypeOK
  BY DEF AInv
<1> QED BY <1>1, AInvAlways, PTL

(* The assertion of FixedBuffer::push holds at every call, for every       *)
(* number of logging threads: cur_buf_ always owns its array, because the  *)
(* worker has made its own spare buffers whole before it swaps again.      *)
THEOREM PushFindsBuffer == Spec => []PushAssert
<1>1. AInv => PushAssert
  BY DEF AInv, Spares, PushAssert
<1> QED BY <1>1, AInvAlways, PTL

(* Until buffers are dropped, what pushMessage() accepted is exactly, and  *)
(* in that order, in the file, with the worker, in the filled buffers and  *)
(* in the current one.                                                     *)
THEOREM NothingLost == Spec => []Conserved
<1>1. AInv => Conserved
  BY DEF AInv, Line, Conserved
<1> QED BY <1>1, AInvAlways, PTL

(* Any two messages of the file were accepted in the order they have       *)
(* there, also after threadWorker() has dropped buffers.                   *)
THEOREM FileInOrder == Spec => []OrderKept
<1>1. AInv => OrderKept
  <2> SUFFICES ASSUME AInv PROVE OrderKept
    OBVIOUS
  <2>1. /\ file \in Seq(Msgs) /\ Contents(toWrite) \in Seq(Msgs)
        /\ Contents(bufs) \in Seq(Msgs) /\ cur.ctxs \in Seq(Msgs)
        /\ accepted \in Seq(Msgs)
    BY LineType DEF AInv
  <2>2. Line = Join(file, Contents(toWrite), Contents(bufs), cur.ctxs)
    BY DEF Line, Join
  <2> DEFINE y == Cat(Contents(toWrite), Cat(Contents(bufs), cur.ctxs))
  <2>3. y \in Seq(Msgs) /\ Line = Cat(file, y)
    BY <2>1, <2>2, JoinTail
  <2> HIDE DEF y
  <2>4. InOrder(file \o y, accepted)
    BY <2>3 DEF AInv, Cat
  <2>5. InOrder(file, accepted)
    BY <2>1, <2>3, <2>4, OrderPrefix
  <2>6. DOMAIN file = 1..Len(file) /\ DOMAIN accepted = 1..Len(accepted)
    BY <2>1
  <2>7. ASSUME NEW i \in DOMAIN file, NEW j \in DOMAIN file, i < j
        PROVE  \E k, l \in DOMAIN accepted :
                  k < l /\ accepted[k] = file[i] /\ accepted[l] = file[j]
    <3>1. i \in 1..Len(file) /\ j \in 1..Len(file)
      BY <2>6, <2>7
    <3>2. \E k, l \in 1..Len(accepted) :
             k < l /\ accepted[k] = file[i] /\ accepted[l] = file[j]
      BY <2>5, <2>7, <3>1, Zenon DEF InOrder
    <3> QED BY <2>6, <3>2, Zenon
  <2> QED BY <2>7, Zenon DEF OrderKept
<1> QED BY <1>1, AInvAlways, PTL
=============================================================================
