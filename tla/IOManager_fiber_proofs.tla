----------------------- MODULE IOManager_fiber_proofs -----------------------
(***************************************************************************)
(* The stack of a fiber is used by one worker at a time, only ready and    *)
(* held fibers are resumed, no ready fiber is forgotten, and stop() leaves *)
(* no task behind, for every number of workers and every set of fibers.    *)
(*                                                                         *)
(* A fiber that exists is protected by its flag execute.  A callable that  *)
(* was submitted is not: beginCb builds its fiber without asking anybody.  *)
(* What protects it is that its task exists once, so most of the proof is  *)
(* about where tasks are: in a queue, or carried by a thread.              *)
(***************************************************************************)
EXTENDS IOManager_proofs, SequenceTheorems

(* the task that thread t carries from one place to another                *)
Carried == [t \in Threads |-> IF t \in Workers /\ pc[t] \in {"count", "begin"}
                              THEN task[t] ELSE out[t]]

(* the tasks in the queues Q and those carried according to C              *)
InPlay(Q, C) ==
  ((UNION {Range(Q[w]) : w \in Workers}) \cup {C[t] : t \in Threads}) \ {NoTask}

SameCb(x, y) == x.kind = "cb" /\ y.kind = "cb" /\ x.id = y.id

(* no callback is in two places                                            *)
Once(Q, C) ==
  /\ \A w, v \in Workers : \A i \in 1..Len(Q[w]) : \A j \in 1..Len(Q[v]) :
        SameCb(Q[w][i], Q[v][j]) => w = v /\ i = j
  /\ \A w \in Workers : \A i \in 1..Len(Q[w]) : \A t \in Threads :
        ~SameCb(Q[w][i], C[t])
  /\ \A t, u \in Threads : SameCb(C[t], C[u]) => t = u

(* only a thread on its way to a push carries a task in out                *)
OutEmpty == \A t \in Threads : out[t] # NoTask => pc[t] \in {"push", "trigger"}

(* a callback waits for its fiber; every other task, and every registered  *)
(* descriptor, belongs to a fiber that exists                              *)
Known ==
  /\ \A x \in InPlay(q, Carried) :
        IF x.kind = "cb" THEN state[x.id] = "posted" ELSE state[x.id] \in State
  /\ \A f \in Fibers : armed[f] => state[f] \in State

RunningPCs == {"running", "push", "tickle", "wake"} \cup IoPCs

(* the state of the fiber a worker has locked, and of one nobody has       *)
StateAt ==
  /\ \A w \in Workers :
        /\ pc[w] \in {"locked", "unlock"} => state[cur(w)] \in {"kReady", "kHold", "kTerm"}
        /\ pc[w] \in RunningPCs => state[cur(w)] = "kRunning"
        /\ pc[w] = "requeue" => state[cur(w)] = "kReady"
  /\ \A f \in Fibers : ~execute[f] => state[f] # "kRunning"

(* the flag is set on behalf of a worker                                   *)
ExecuteHeld ==
  \A f \in Fibers : execute[f] =>
     \E w \in Workers : pc[w] \in HoldPCs /\ cur(w) = f

(* NotStranded, said also of a fiber whose worker is about to unlock it,   *)
(* and of a callable that waits for its fiber                              *)
ReadyQueued ==
  \A f \in Fibers :
     /\ state[f] = "kReady"
        /\ (~execute[f] \/ \E w \in Workers : pc[w] = "unlock" /\ cur(w) = f)
        => FiberOf(f) \in InPlay(q, Carried)
     /\ state[f] = "posted" => Cb(f) \in InPlay(q, Carried)

(* The inductive invariant, on top of TInv.                                *)
FInv == OutEmpty /\ Once(q, Carried) /\ Known /\ FiberExclusive /\ StateAt
        /\ ExecuteHeld /\ ReadyQueued

-----------------------------------------------------------------------------
(* Queues and carried tasks: the five ways in which they change.           *)

(* r is s without its p-th element                                         *)
Without(s, p, r) ==
  /\ r \in Seq(Task)
  /\ Len(r) = Len(s) - 1
  /\ \A i \in 1..Len(r) : r[i] = s[IF i < p THEN i ELSE i + 1]

LEMMA TakeFront ==
  ASSUME NEW s \in Seq(Task), s # <<>>
  PROVE  1 \in 1..Len(s) /\ Head(s) = s[1] /\ Without(s, 1, Tail(s))
BY DEF Without

LEMMA TakeBack ==
  ASSUME NEW s \in Seq(Task), s # <<>>
  PROVE  /\ Len(s) \in 1..Len(s) /\ Last(s) = s[Len(s)]
         /\ Without(s, Len(s), Front(s))
<1>1. Len(s) \in Nat \ {0} /\ \A i \in 1..Len(s) : s[i] \in Task
  OBVIOUS
<1>2. /\ Front(s) \in Seq(Task) /\ Len(Front(s)) = Len(s) - 1
      /\ \A i \in 1..Len(s) - 1 : Front(s)[i] = s[i]
  <2> DEFINE n == Len(s) - 1
  <2>1. n \in Nat /\ \A i \in 1..n : s[i] \in Task
    BY <1>1
  <2> HIDE DEF n
  <2>2. /\ SubSeq(s, 1, n) \in Seq(Task)
        /\ Len(SubSeq(s, 1, n)) = IF 1 <= n THEN n - 1 + 1 ELSE 0
        /\ \A i \in 1..n - 1 + 1 : SubSeq(s, 1, n)[i] = s[1 + i - 1]
    BY <2>1, SubSeqProperties
  <2>3. Len(SubSeq(s, 1, n)) = n /\ \A i \in 1..n : SubSeq(s, 1, n)[i] = s[i]
    BY <2>1, <2>2
  <2> QED BY <2>2, <2>3 DEF Front, n
<1> QED BY <1>1, <1>2 DEF Without, Last

LEMMA RangeOf ==
  ASSUME NEW s \in Seq(Task)
  PROVE  Range(s) = {s[i] : i \in 1..Len(s)}
BY DEF Range

LEMMA RangeAppend ==
  ASSUME NEW s \in Seq(Task), NEW x \in Task
  PROVE  Range(Append(s, x)) = Range(s) \cup {x}
<1> DEFINE r == Append(s, x)
<1>1. /\ r \in Seq(Task) /\ Len(s) \in Nat /\ Len(r) = Len(s) + 1
      /\ r[Len(s) + 1] = x /\ \A i \in 1..Len(s) : r[i] = s[i]
  OBVIOUS
<1>2. Range(r) = {r[i] : i \in 1..Len(r)} /\ Range(s) = {s[i] : i \in 1..Len(s)}
  BY <1>1, RangeOf
<1> HIDE DEF r
<1>3. 1..Len(r) = 1..Len(s) \cup {Len(s) + 1}
  BY <1>1
<1>4. Range(r) = Range(s) \cup {x}
  BY <1>1, <1>2, <1>3
<1> QED BY <1>4 DEF r

LEMMA RangeWithout ==
  ASSUME NEW s \in Seq(Task), NEW r, NEW p \in 1..Len(s), Without(s, p, r)
  PROVE  Range(s) = Range(r) \cup {s[p]}
<1>1. Range(r) = {r[i] : i \in 1..Len(r)} /\ Range(s) = {s[i] : i \in 1..Len(s)}
  BY RangeOf DEF Without
<1>2. Len(s) \in Nat /\ Len(r) = Len(s) - 1 /\ p \in Nat /\ 1 <= p /\ p <= Len(s)
  BY DEF Without
<1>3. \A i \in 1..Len(r) : r[i] \in Range(s)
  <2> TAKE i \in 1..Len(r)
  <2>1. (IF i < p THEN i ELSE i + 1) \in 1..Len(s)
    BY <1>2
  <2> QED BY <1>1, <2>1 DEF Without
<1>4. \A j \in 1..Len(s) : j # p => s[j] \in Range(r)
  <2> SUFFICES ASSUME NEW j \in 1..Len(s), j # p PROVE s[j] \in Range(r)
    OBVIOUS
  <2>1. CASE j < p
    <3>1. j \in 1..Len(r) /\ r[j] = s[j]
      BY <1>2, <2>1 DEF Without
    <3> QED BY <1>1, <3>1
  <2>2. CASE ~(j < p)
    <3>1. j - 1 \in 1..Len(r) /\ ~(j - 1 < p) /\ j - 1 + 1 = j
      BY <1>2, <2>2
    <3>2. r[j - 1] = s[j]
      BY <3>1 DEF Without
    <3> QED BY <1>1, <3>1, <3>2
  <2> QED BY <2>1, <2>2
<1> QED BY <1>1, <1>3, <1>4

(* A carried task is appended to a queue.                                  *)
LEMMA OncePush ==
  ASSUME NEW Q \in [Workers -> Seq(Task)], NEW C \in [Threads -> Task \cup {NoTask}],
         Once(Q, C), NEW v \in Workers, NEW t \in Threads, C[t] \in Task
  PROVE  Once([Q EXCEPT ![v] = Append(@, C[t])], [C EXCEPT ![t] = NoTask])
<1> DEFINE R == [Q EXCEPT ![v] = Append(@, C[t])]
           D == [C EXCEPT ![t] = NoTask]
<1>1. /\ \A w \in Workers : w # v => R[w] = Q[w]
      /\ Len(R[v]) = Len(Q[v]) + 1 /\ Len(Q[v]) \in Nat
      /\ R[v][Len(Q[v]) + 1] = C[t]
      /\ \A i \in 1..Len(Q[v]) : R[v][i] = Q[v][i]
  OBVIOUS
<1>2. /\ \A u \in Threads : u # t => D[u] = C[u]
      /\ \A x : ~SameCb(x, D[t]) /\ ~SameCb(D[t], x)
  BY DEF SameCb, NoTask
<1>3. \A x, y : SameCb(x, y) <=> SameCb(y, x)
  BY DEF SameCb
<1> HIDE DEF R, D
<1>4. \A w \in Workers : \A i \in 1..Len(R[w]) :
         \/ w = v /\ i = Len(Q[v]) + 1 /\ R[w][i] = C[t]
         \/ i \in 1..Len(Q[w]) /\ R[w][i] = Q[w][i]
  <2> TAKE w \in Workers
  <2>1. CASE w # v
    BY <1>1, <2>1
  <2>2. CASE w = v
    <3> TAKE i \in 1..Len(R[w])
    <3>1. i \in 1..Len(Q[v]) \/ i = Len(Q[v]) + 1
      BY <1>1, <2>2
    <3> QED BY <1>1, <2>2, <3>1
  <2> QED BY <2>1, <2>2
<1>5. \A w, u \in Workers : \A i \in 1..Len(R[w]) : \A j \in 1..Len(R[u]) :
         SameCb(R[w][i], R[u][j]) => w = u /\ i = j
  <2> SUFFICES ASSUME NEW w \in Workers, NEW u \in Workers, NEW i \in 1..Len(R[w]),
                      NEW j \in 1..Len(R[u]), SameCb(R[w][i], R[u][j])
               PROVE  w = u /\ i = j
    OBVIOUS
  <2>1. CASE w = v /\ i = Len(Q[v]) + 1 /\ R[w][i] = C[t]
    <3>1. ~(j \in 1..Len(Q[u]) /\ R[u][j] = Q[u][j])
      BY <1>3, <2>1 DEF Once
    <3> QED BY <1>4, <2>1, <3>1
  <2>2. CASE i \in 1..Len(Q[w]) /\ R[w][i] = Q[w][i]
    <3>1. ~(R[u][j] = C[t])
      BY <2>2 DEF Once
    <3>2. j \in 1..Len(Q[u]) /\ R[u][j] = Q[u][j]
      BY <1>4, <3>1
    <3> QED BY <2>2, <3>2 DEF Once
  <2> QED BY <1>4, <2>1, <2>2
<1>6. \A w \in Workers : \A i \in 1..Len(R[w]) : \A u \in Threads :
         ~SameCb(R[w][i], D[u])
  <2> SUFFICES ASSUME NEW w \in Workers, NEW i \in 1..Len(R[w]), NEW u \in Threads
               PROVE  ~SameCb(R[w][i], D[u])
    OBVIOUS
  <2>1. CASE u = t
    BY <1>2, <2>1
  <2>2. CASE u # t
    BY <1>2, <1>4, <2>2 DEF Once
  <2> QED BY <2>1, <2>2
<1>7. \A a, b \in Threads : SameCb(D[a], D[b]) => a = b
  BY <1>2 DEF Once
<1>8. Once(R, D)
  BY <1>5, <1>6, <1>7 DEF Once
<1> QED BY <1>8 DEF R, D

(* A task leaves a queue into the hands of a thread.                       *)
LEMMA OnceTake ==
  ASSUME NEW Q \in [Workers -> Seq(Task)], NEW C \in [Threads -> Task \cup {NoTask}],
         Once(Q, C), NEW v \in Workers, NEW t \in Threads, C[t] = NoTask,
         NEW p \in 1..Len(Q[v]), NEW r, Without(Q[v], p, r)
  PROVE  Once([Q EXCEPT ![v] = r], [C EXCEPT ![t] = Q[v][p]])
<1> DEFINE R == [Q EXCEPT ![v] = r]
           D == [C EXCEPT ![t] = Q[v][p]]
           at(w, i) == IF w = v /\ ~(i < p) THEN i + 1 ELSE i
<1>1. /\ \A w \in Workers : w # v => R[w] = Q[w]
      /\ R[v] = r /\ D[t] = Q[v][p] /\ \A u \in Threads : u # t => D[u] = C[u]
  OBVIOUS
<1>2. Len(Q[v]) \in Nat /\ Len(r) = Len(Q[v]) - 1 /\ p \in Nat
  BY DEF Without
<1>3. \A x, y : SameCb(x, y) <=> SameCb(y, x)
  BY DEF SameCb
<1> HIDE DEF R, D
<1>4. \A w \in Workers : \A i \in 1..Len(R[w]) :
         /\ i \in Int /\ at(w, i) \in 1..Len(Q[w]) /\ R[w][i] = Q[w][at(w, i)]
         /\ ~(w = v /\ at(w, i) = p)
  <2> TAKE w \in Workers
  <2>1. CASE w # v
    BY <1>1, <2>1
  <2>2. CASE w = v
    <3> TAKE i \in 1..Len(R[w])
    <3>1. at(w, i) \in 1..Len(Q[w]) /\ at(w, i) # p
      BY <1>1, <1>2, <2>2
    <3>2. R[w][i] = Q[w][at(w, i)]
      BY <1>1, <2>2 DEF Without
    <3> QED BY <3>1, <3>2, <2>2
  <2> QED BY <2>1, <2>2
<1>5. \A w \in Workers : \A i, j \in Int : at(w, i) = at(w, j) => i = j
  BY <1>2
<1> HIDE DEF at
<1>6. \A w, u \in Workers : \A i \in 1..Len(R[w]) : \A j \in 1..Len(R[u]) :
         SameCb(R[w][i], R[u][j]) => w = u /\ i = j
  <2> SUFFICES ASSUME NEW w \in Workers, NEW u \in Workers, NEW i \in 1..Len(R[w]),
                      NEW j \in 1..Len(R[u]), SameCb(R[w][i], R[u][j])
               PROVE  w = u /\ i = j
    OBVIOUS
  <2> DEFINE k == at(w, i)
             m == at(u, j)
  <2>1. k \in 1..Len(Q[w]) /\ m \in 1..Len(Q[u]) /\ SameCb(Q[w][k], Q[u][m])
    BY <1>4
  <2> HIDE DEF k, m
  <2>2. w = u /\ k = m
    BY <2>1 DEF Once
  <2> QED BY <1>4, <1>5, <2>2 DEF k, m
<1>7. \A w \in Workers : \A i \in 1..Len(R[w]) : \A u \in Threads :
         ~SameCb(R[w][i], D[u])
  <2> SUFFICES ASSUME NEW w \in Workers, NEW i \in 1..Len(R[w]), NEW u \in Threads
               PROVE  ~SameCb(R[w][i], D[u])
    OBVIOUS
  <2>1. CASE u = t
    BY <1>1, <1>4, <2>1 DEF Once
  <2>2. CASE u # t
    BY <1>1, <1>4, <2>2 DEF Once
  <2> QED BY <2>1, <2>2
<1>8. \A a, b \in Threads : SameCb(D[a], D[b]) => a = b
  BY <1>1, <1>3 DEF Once
<1>9. Once(R, D)
  BY <1>6, <1>7, <1>8 DEF Once
<1> QED BY <1>9 DEF R, D

(* A thread picks up a task that no place has.                             *)
LEMMA OnceCarry ==
  ASSUME NEW Q \in [Workers -> Seq(Task)], NEW C \in [Threads -> Task \cup {NoTask}],
         Once(Q, C), NEW t \in Threads, NEW x,
         \A y \in InPlay(Q, C) : ~SameCb(x, y)
  PROVE  Once(Q, [C EXCEPT ![t] = x])
<1> DEFINE D == [C EXCEPT ![t] = x]
<1>1. D[t] = x /\ \A u \in Threads : u # t => D[u] = C[u]
  OBVIOUS
<1>2. \A y, z : SameCb(y, z) <=> SameCb(z, y)
  BY DEF SameCb
<1>3. \A w \in Workers : \A i \in 1..Len(Q[w]) : ~SameCb(Q[w][i], x)
  <2> SUFFICES ASSUME NEW w \in Workers, NEW i \in 1..Len(Q[w])
               PROVE  ~SameCb(Q[w][i], x)
    OBVIOUS
  <2>1. Q[w][i] \in Range(Q[w])
    BY RangeOf
  <2>2. Q[w][i] = NoTask => ~SameCb(Q[w][i], x)
    BY DEF SameCb, NoTask
  <2> QED BY <1>2, <2>1, <2>2 DEF InPlay
<1>4. \A u \in Threads : ~SameCb(C[u], x)
  <2> SUFFICES ASSUME NEW u \in Threads PROVE ~SameCb(C[u], x)
    OBVIOUS
  <2>1. C[u] = NoTask => ~SameCb(C[u], x)
    BY DEF SameCb, NoTask
  <2> QED BY <1>2, <2>1 DEF InPlay
<1> HIDE DEF D
<1>5. \A w \in Workers : \A i \in 1..Len(Q[w]) : \A u \in Threads :
         ~SameCb(Q[w][i], D[u])
  BY <1>1, <1>3 DEF Once
<1>6. \A a, b \in Threads : SameCb(D[a], D[b]) => a = b
  BY <1>1, <1>2, <1>4 DEF Once
<1>7. Once(Q, D)
  BY <1>5, <1>6 DEF Once
<1> QED BY <1>7 DEF D

(* A thread is done with the task it carried.                              *)
LEMMA OnceDrop ==
  ASSUME NEW Q \in [Workers -> Seq(Task)], NEW C \in [Threads -> Task \cup {NoTask}],
         Once(Q, C), NEW t \in Threads
  PROVE  Once(Q, [C EXCEPT ![t] = NoTask])
<1>1. \A y : ~SameCb(NoTask, y)
  BY DEF SameCb, NoTask
<1> QED BY <1>1, OnceCarry

(* A task of a fiber that exists is appended to a queue.                   *)
LEMMA OnceAdd ==
  ASSUME NEW Q \in [Workers -> Seq(Task)], NEW C \in [Threads -> Task \cup {NoTask}],
         Once(Q, C), NEW v \in Workers, NEW x \in Task, x.kind # "cb"
  PROVE  Once([Q EXCEPT ![v] = Append(@, x)], C)
<1> DEFINE R == [Q EXCEPT ![v] = Append(@, x)]
<1>1. /\ \A w \in Workers : w # v => R[w] = Q[w]
      /\ Len(R[v]) = Len(Q[v]) + 1 /\ Len(Q[v]) \in Nat
      /\ R[v][Len(Q[v]) + 1] = x
      /\ \A i \in 1..Len(Q[v]) : R[v][i] = Q[v][i]
  OBVIOUS
<1>2. \A y : ~SameCb(x, y) /\ ~SameCb(y, x)
  BY DEF SameCb
<1> HIDE DEF R
<1>3. \A w \in Workers : \A i \in 1..Len(R[w]) :
         R[w][i] = x \/ (i \in 1..Len(Q[w]) /\ R[w][i] = Q[w][i])
  <2> TAKE w \in Workers
  <2>1. CASE w # v
    BY <1>1, <2>1
  <2>2. CASE w = v
    <3> TAKE i \in 1..Len(R[w])
    <3>1. i \in 1..Len(Q[v]) \/ i = Len(Q[v]) + 1
      BY <1>1, <2>2
    <3> QED BY <1>1, <2>2, <3>1
  <2> QED BY <2>1, <2>2
<1>4. \A w, u \in Workers : \A i \in 1..Len(R[w]) : \A j \in 1..Len(R[u]) :
         SameCb(R[w][i], R[u][j]) => w = u /\ i = j
  <2> SUFFICES ASSUME NEW w \in Workers, NEW u \in Workers, NEW i \in 1..Len(R[w]),
                      NEW j \in 1..Len(R[u]), SameCb(R[w][i], R[u][j])
               PROVE  w = u /\ i = j
    OBVIOUS
  <2>1. /\ i \in 1..Len(Q[w]) /\ R[w][i] = Q[w][i]
        /\ j \in 1..Len(Q[u]) /\ R[u][j] = Q[u][j]
    BY <1>2, <1>3
  <2> QED BY <2>1 DEF Once
<1>5. \A w \in Workers : \A i \in 1..Len(R[w]) : \A t \in Threads :
         ~SameCb(R[w][i], C[t])
  <2> SUFFICES ASSUME NEW w \in Workers, NEW i \in 1..Len(R[w]), NEW t \in Threads
               PROVE  ~SameCb(R[w][i], C[t])
    OBVIOUS
  <2>1. CASE R[w][i] = x
    BY <1>2, <2>1
  <2>2. CASE i \in 1..Len(Q[w]) /\ R[w][i] = Q[w][i]
    BY <2>2 DEF Once
  <2> QED BY <1>3, <2>1, <2>2
<1>6. \A t, u \in Threads : SameCb(C[t], C[u]) => t = u
  BY DEF Once
<1>7. Once(R, C)
  BY <1>4, <1>5, <1>6 DEF Once
<1> QED BY <1>7 DEF R

(* What each of them does to the tasks in play.                            *)
LEMMA PlayIs ==
  ASSUME NEW Q, NEW C
  PROVE  \A x : x \in InPlay(Q, C) <=>
            x # NoTask /\ \/ \E w \in Workers : x \in Range(Q[w])
                          \/ \E t \in Threads : x = C[t]
BY DEF InPlay

LEMMA NoTaskIsNone == NoTask \notin Task
BY DEF NoTask, Task

LEMMA PlayDrop ==
  ASSUME NEW Q \in [Workers -> Seq(Task)], NEW C \in [Threads -> Task \cup {NoTask}], NEW t \in Threads
  PROVE  /\ InPlay(Q, [C EXCEPT ![t] = NoTask]) \subseteq InPlay(Q, C)
         /\ InPlay(Q, C) \subseteq InPlay(Q, [C EXCEPT ![t] = NoTask]) \cup {C[t]}
<1> DEFINE D == [C EXCEPT ![t] = NoTask]
<1>1. D[t] = NoTask /\ \A u \in Threads : u # t => D[u] = C[u]
  OBVIOUS
<1> HIDE DEF D
<1>2. InPlay(Q, D) \subseteq InPlay(Q, C) /\ InPlay(Q, C) \subseteq InPlay(Q, D) \cup {C[t]}
  BY <1>1, PlayIs
<1> QED BY <1>2 DEF D

-----------------------------------------------------------------------------
LEMMA FiberTypes ==
  ASSUME TInv
  PROVE  /\ state \in [Fibers -> State \cup NoObject]
         /\ execute \in [Fibers -> BOOLEAN]
         /\ q \in [Workers -> Seq(Task)]
         /\ pc \in [Threads -> PCs]
         /\ task \in [Workers -> Task \cup {NoTask}]
         /\ out \in [Threads -> Task \cup {NoTask}]
         /\ armed \in [Fibers -> BOOLEAN]
BY DEF TInv, TypeOK, SchedTypeOK, FiberTypeOK, QueueTypeOK, ThreadTypeOK, IoTypeOK

LEMMA CarriedType ==
  ASSUME TInv
  PROVE  Carried \in [Threads -> Task \cup {NoTask}]
BY FiberTypes DEF Carried

LEMMA CurFiber ==
  ASSUME TInv, NEW w \in Workers, pc[w] \in HandPCs
  PROVE  task[w] \in Task /\ cur(w) \in Fibers
BY DEF TInv, TaskInHand, cur, Task

LEMMA PlayTasks ==
  ASSUME TInv
  PROVE  InPlay(q, Carried) \subseteq Task
<1>1. \A w \in Workers : Range(q[w]) \subseteq Task
  BY FiberTypes, RangeOf
<1> QED BY <1>1, CarriedType, PlayIs

LEMMA PlayPush ==
  ASSUME TInv, NEW v \in Workers, NEW t \in Threads, Carried[t] \in Task,
         q' = [q EXCEPT ![v] = Append(@, Carried[t])],
         Carried' = [Carried EXCEPT ![t] = NoTask]
  PROVE  InPlay(q, Carried)' = InPlay(q, Carried)
<1>1. /\ Range(q'[v]) = Range(q[v]) \cup {Carried[t]}
      /\ \A w \in Workers : w # v => q'[w] = q[w]
  BY FiberTypes, RangeAppend
<1>2. Carried'[t] = NoTask /\ \A u \in Threads : u # t => Carried'[u] = Carried[u]
  BY CarriedType
<1>3. \A x : x \in InPlay(q', Carried') <=>
         x # NoTask /\ ((\E w \in Workers : x \in Range(q'[w])) \/ \E u \in Threads : x = Carried'[u])
  BY DEF InPlay
<1>4. \A x : x \in InPlay(q, Carried) <=>
         x # NoTask /\ ((\E w \in Workers : x \in Range(q[w])) \/ \E u \in Threads : x = Carried[u])
  BY DEF InPlay
<1>5. ASSUME NEW x, x \in InPlay(q', Carried')
      PROVE  x \in InPlay(q, Carried)
  <2>1. \A w \in Workers : x \in Range(q'[w]) => x \in Range(q[w]) \/ x = Carried[t]
    BY <1>1
  <2>2. \A u \in Threads : x = Carried'[u] => x = NoTask \/ x = Carried[u] \/ x = Carried[t]
    BY <1>2
  <2>3. x # NoTask /\ (x = Carried[t] => x \in InPlay(q, Carried))
    BY <1>1, <1>3, <1>4, <1>5
  <2> QED BY <1>3, <1>4, <1>5, <2>1, <2>2, <2>3, ZenonT(60)
<1>6. ASSUME NEW x, x \in InPlay(q, Carried)
      PROVE  x \in InPlay(q', Carried')
  <2>1. \A w \in Workers : x \in Range(q[w]) => x \in Range(q'[w]) \/ x = Carried[t]
    BY <1>1
  <2>2. \A u \in Threads : x = Carried[u] => x = NoTask \/ x = Carried'[u] \/ x = Carried[t]
    BY <1>2
  <2>3. x # NoTask /\ (x = Carried[t] => x \in InPlay(q', Carried'))
    BY <1>1, <1>2, <1>3, <1>4, <1>6
  <2>4. CASE x # Carried[t]
    <3>1. (\E w \in Workers : x \in Range(q[w])) \/ \E u \in Threads : x = Carried[u]
      BY <1>4, <1>6
    <3>2. (\E w \in Workers : x \in Range(q'[w])) \/ \E u \in Threads : x = Carried'[u]
      BY <2>1, <2>2, <2>3, <2>4, <3>1, Zenon
    <3> QED BY <1>3, <2>3, <3>2, Zenon
  <2> QED BY <2>3, <2>4
<1> QED BY <1>5, <1>6

LEMMA PlayTake ==
  ASSUME TInv, NEW v \in Workers, NEW t \in Threads, Carried[t] = NoTask,
         NEW p \in 1..Len(q[v]), NEW r, Without(q[v], p, r),
         q' = [q EXCEPT ![v] = r], Carried' = [Carried EXCEPT ![t] = q[v][p]]
  PROVE  InPlay(q, Carried)' = InPlay(q, Carried)
<1>1. /\ Range(q[v]) = Range(q'[v]) \cup {q[v][p]}
      /\ \A w \in Workers : w # v => q'[w] = q[w]
  BY FiberTypes, RangeWithout
<1>2. Carried'[t] = q[v][p] /\ \A u \in Threads : u # t => Carried'[u] = Carried[u]
  BY CarriedType
<1>3. \A x : x \in InPlay(q', Carried') <=>
         x # NoTask /\ ((\E w \in Workers : x \in Range(q'[w])) \/ \E u \in Threads : x = Carried'[u])
  BY DEF InPlay
<1>4. \A x : x \in InPlay(q, Carried) <=>
         x # NoTask /\ ((\E w \in Workers : x \in Range(q[w])) \/ \E u \in Threads : x = Carried[u])
  BY DEF InPlay
<1>5. ASSUME NEW x, x \in InPlay(q', Carried')
      PROVE  x \in InPlay(q, Carried)
  <2>1. \A w \in Workers : x \in Range(q'[w]) => x \in Range(q[w]) \/ x = q[v][p]
    BY <1>1
  <2>2. \A u \in Threads : x = Carried'[u] => x = NoTask \/ x = Carried[u] \/ x = q[v][p]
    BY <1>2
  <2>3. x # NoTask /\ (x = q[v][p] => x \in InPlay(q, Carried))
    BY <1>1, <1>3, <1>4, <1>5
  <2> QED BY <1>3, <1>4, <1>5, <2>1, <2>2, <2>3, ZenonT(60)
<1>6. ASSUME NEW x, x \in InPlay(q, Carried)
      PROVE  x \in InPlay(q', Carried')
  <2>1. \A w \in Workers : x \in Range(q[w]) => x \in Range(q'[w]) \/ x = q[v][p]
    BY <1>1
  <2>2. \A u \in Threads : x = Carried[u] => x = NoTask \/ x = Carried'[u] \/ x = q[v][p]
    BY <1>2
  <2>3. x # NoTask /\ (x = q[v][p] => x \in InPlay(q', Carried'))
    BY <1>1, <1>2, <1>3, <1>4, <1>6
  <2>4. CASE x # q[v][p]
    <3>1. (\E w \in Workers : x \in Range(q[w])) \/ \E u \in Threads : x = Carried[u]
      BY <1>4, <1>6
    <3>2. (\E w \in Workers : x \in Range(q'[w])) \/ \E u \in Threads : x = Carried'[u]
      BY <2>1, <2>2, <2>3, <2>4, <3>1, Zenon
    <3> QED BY <1>3, <2>3, <3>2, Zenon
  <2> QED BY <2>3, <2>4
<1> QED BY <1>5, <1>6

LEMMA PlayCarry ==
  ASSUME TInv, NEW t \in Threads, Carried[t] = NoTask, NEW x \in Task, q' = q,
         Carried' = [Carried EXCEPT ![t] = x]
  PROVE  InPlay(q, Carried)' = InPlay(q, Carried) \cup {x}
<1>1. Carried'[t] = x /\ \A u \in Threads : u # t => Carried'[u] = Carried[u]
  BY CarriedType
<1>2. x # NoTask
  BY NoTaskIsNone
<1>3. \A y : y # NoTask =>
         ((\E u \in Threads : y = Carried'[u]) <=> (\E u \in Threads : y = Carried[u]) \/ y = x)
  BY <1>1
<1>4. /\ \A y : y \in InPlay(q', Carried') <=>
            y # NoTask /\ ((\E w \in Workers : y \in Range(q[w])) \/ \E u \in Threads : y = Carried'[u])
      /\ \A y : y \in InPlay(q, Carried) <=>
            y # NoTask /\ ((\E w \in Workers : y \in Range(q[w])) \/ \E u \in Threads : y = Carried[u])
  BY DEF InPlay
<1>5. \A y : y \in InPlay(q', Carried') <=> y \in InPlay(q, Carried) \/ y = x
  BY <1>2, <1>3, <1>4, ZenonT(60)
<1> QED BY <1>5, Zenon

LEMMA PlayAdd ==
  ASSUME TInv, NEW v \in Workers, NEW x \in Task, NEW C,
         q' = [q EXCEPT ![v] = Append(@, x)]
  PROVE  InPlay(q', C) = InPlay(q, C) \cup {x}
<1>1. Range(q'[v]) = Range(q[v]) \cup {x} /\ \A w \in Workers : w # v => q'[w] = q[w]
  BY RangeAppend, FiberTypes
<1>2. x # NoTask
  BY NoTaskIsNone
<1>3. \A y : (\E w \in Workers : y \in Range(q'[w]))
                <=> y = x \/ \E w \in Workers : y \in Range(q[w])
  BY <1>1
<1>4. /\ \A y : y \in InPlay(q', C) <=>
            y # NoTask /\ ((\E w \in Workers : y \in Range(q'[w])) \/ \E t \in Threads : y = C[t])
      /\ \A y : y \in InPlay(q, C) <=>
            y # NoTask /\ ((\E w \in Workers : y \in Range(q[w])) \/ \E t \in Threads : y = C[t])
  BY DEF InPlay
<1>5. \A y : y \in InPlay(q', C) <=> y \in InPlay(q, C) \/ y = x
  BY <1>2, <1>3, <1>4, Zenon
<1> QED BY <1>5, Zenon

LEMMA FInvInit == Init => FInv
<1> SUFFICES ASSUME Init
             PROVE  FInv
  OBVIOUS
<1>1. /\ \A t \in Threads : out[t] = NoTask
      /\ \A w \in Workers : pc[w] = "off" /\ q[w] = <<>>
      /\ \A f \in Fibers : state[f] = "none" /\ ~execute[f] /\ ~armed[f]
  BY ThreadIds DEF Init, SchedInit, FiberInit
<1>2. Carried = [t \in Threads |-> NoTask]
  BY <1>1 DEF Carried
<1>3. \A x : x \notin InPlay(q, Carried)
  <2>1. \A w \in Workers : Range(q[w]) = {}
    BY <1>1 DEF Range
  <2> QED BY <1>2, <2>1, PlayIs
<1>4. Once(q, Carried)
  <2>1. \A x : ~SameCb(NoTask, x)
    BY DEF SameCb, NoTask
  <2> QED BY <1>1, <1>2, <2>1 DEF Once
<1> QED BY <1>1, <1>3, <1>4
        DEF FInv, OutEmpty, Known, FiberExclusive, StateAt, ExecuteHeld,
            ReadyQueued, HoldPCs, RunningPCs, IoPCs

(* A worker stays where it is with respect to the fiber it has.            *)
SameStage(a, b) ==
  \/ a = b
  \/ a \in RunningPCs /\ b \in RunningPCs
  \/ a \in {"count", "begin"} /\ b \in {"count", "begin"}
  \/ a \notin HoldPCs \cup {"count", "begin"} /\ b \notin HoldPCs \cup {"count", "begin"}

(* The steps that neither move a task nor change a fiber.                  *)
QuietStep ==
  /\ UNCHANGED <<state, execute, q, out>>
  /\ \A w \in Workers : SameStage(pc[w], pc'[w])
  /\ \A w \in Workers : pc[w] \in HoldPCs \cup {"count", "begin"} => task'[w] = task[w]
  /\ \A t \in Threads : pc[t] \in {"push", "trigger"} => pc'[t] = pc[t]
  /\ \A f \in Fibers : armed'[f] =>
        armed[f] \/ \E w \in Workers : pc[w] \in RunningPCs /\ cur(w) = f

(* the assertion of Fiber::resume, for one step                            *)
ResumeStep ==
  \A w \in Workers : pc[w] = "locked" /\ pc'[w] = "running" =>
     state[cur(w)] \in {"kReady", "kHold"}

(* A task leaves play when its worker acts on it, and the callbacks of     *)
(* do_io that enter play are those of the registration in force.           *)
Spent(x) ==
  \E w \in Workers : /\ pc[w] = "begin" /\ task[w] = x
                     /\ x.kind = "fiber" => pc'[w] = "locked" /\ cur(w)' = cur(w)
                     /\ x.kind = "event" => pc'[w] = "uncount"

PlayStep ==
  /\ \A x \in InPlay(q, Carried) : x \in InPlay(q, Carried)' \/ Spent(x)
  /\ \A x \in InPlay(q, Carried)' :
        \/ x \in InPlay(q, Carried)
        \/ x.kind = "event" => x.id \in Fibers /\ armed[x.id] /\ x.n = reg[x.id]

FStep == ResumeStep /\ PlayStep

LEMMA F_quiet ==
  ASSUME TInv, FInv, QuietStep
  PROVE  FInv' /\ FStep
<1>1. Carried' = Carried
  <2>1. \A t \in Threads : (t \in Workers /\ pc'[t] \in {"count", "begin"})
                              <=> (t \in Workers /\ pc[t] \in {"count", "begin"})
    BY DEF QuietStep, SameStage, RunningPCs, HoldPCs, IoPCs
  <2>2. \A t \in Threads : t \in Workers /\ pc[t] \in {"count", "begin"}
                              => task'[t] = task[t]
    BY DEF QuietStep
  <2> QED BY <2>1, <2>2 DEF Carried, QuietStep
<1>2. /\ state' = state /\ execute' = execute /\ q' = q /\ out' = out
      /\ \A w \in Workers :
            /\ pc'[w] \in HoldPCs <=> pc[w] \in HoldPCs
            /\ pc'[w] \in RunningPCs <=> pc[w] \in RunningPCs
            /\ \A p \in {"locked", "unlock", "requeue"} : pc'[w] = p <=> pc[w] = p
            /\ pc[w] \in HoldPCs => cur(w)' = cur(w)
  BY DEF QuietStep, SameStage, RunningPCs, HoldPCs, IoPCs, cur
<1>3. InPlay(q, Carried)' = InPlay(q, Carried) /\ Once(q, Carried)'
  BY <1>1, <1>2 DEF FInv
<1>4. OutEmpty'
  BY <1>2 DEF FInv, OutEmpty, QuietStep
<1>5. Known'
  <2>1. \A f \in Fibers : armed'[f] => state[f] \in State
    BY DEF QuietStep, FInv, Known, StateAt, State
  <2> QED BY <1>2, <1>3, <2>1 DEF FInv, Known
<1>6. FiberExclusive'
  BY <1>2 DEF FInv, FiberExclusive
<1>7. StateAt'
  <2>1. \A w \in Workers : RunningPCs \cup {"locked", "unlock", "requeue"} \subseteq HoldPCs
    BY DEF RunningPCs, HoldPCs
  <2> QED BY <1>2, <2>1 DEF FInv, StateAt
<1>8. ExecuteHeld'
  BY <1>2 DEF FInv, ExecuteHeld
<1>9. ReadyQueued'
  <2>1. \A w \in Workers : pc'[w] = "unlock" => pc[w] = "unlock" /\ cur(w)' = cur(w)
    BY <1>2 DEF HoldPCs
  <2> QED BY <1>2, <1>3, <2>1 DEF FInv, ReadyQueued
<1>10. FStep
  <2>1. ResumeStep
    BY DEF QuietStep, SameStage, ResumeStep, RunningPCs, HoldPCs, IoPCs
  <2>2. PlayStep
    BY <1>3 DEF PlayStep
  <2> QED BY <2>1, <2>2 DEF FStep
<1> QED BY <1>3, <1>4, <1>5, <1>6, <1>7, <1>8, <1>9, <1>10 DEF FInv

LEMMA QuietMove ==
  ASSUME TInv, NEW t \in Threads, NEW p, pc' = [pc EXCEPT ![t] = p],
         UNCHANGED <<state, execute, q, out, task, armed>>,
         pc[t] \notin {"push", "trigger"}, t \in Workers => SameStage(pc[t], p)
  PROVE  QuietStep
<1>1. \A u \in Threads : IF u = t THEN pc'[u] = p ELSE pc'[u] = pc[u]
  BY FiberTypes
<1>2. \A w \in Workers : SameStage(pc[w], pc'[w])
  BY <1>1, ThreadIds DEF SameStage
<1> QED BY <1>1, <1>2 DEF QuietStep

LEMMA Quiet_run ==
  ASSUME TInv, NEW w \in Workers, UNCHANGED ioVars,
         popNone(w) \/ stealPass(w) \/ countIn(w) \/ idleQuit(w)
  PROVE  QuietStep
<1> USE ThreadIds DEF fiberVars, ioVars
<1>1. CASE popNone(w) \/ stealPass(w)
  <2>1. PICK p \in {"steal", "exit", "idle"} : pc' = [pc EXCEPT ![w] = p]
    BY <1>1 DEF popNone, stealPass, StealFrom, Goto
  <2>2. SameStage(pc[w], p)
    BY <1>1 DEF popNone, stealPass, SameStage, HoldPCs, IoPCs
  <2>3. UNCHANGED <<state, execute, q, out, task, armed>> /\ pc[w] \in {"pop", "steal"}
    BY <1>1 DEF popNone, stealPass, StealFrom
  <2> QED BY <2>1, <2>2, <2>3, QuietMove
<1>2. CASE countIn(w)
  <2>1. SameStage(pc[w], "begin")
    BY <1>2 DEF countIn, SameStage
  <2> QED BY <1>2, <2>1, QuietMove DEF countIn, Goto
<1>3. CASE idleQuit(w)
  <2>1. SameStage(pc[w], "pop")
    BY <1>3 DEF idleQuit, SameStage, HoldPCs, IoPCs
  <2> QED BY <1>3, <2>1, QuietMove DEF idleQuit, Goto
<1> QED BY <1>1, <1>2, <1>3

LEMMA Quiet_countOut ==
  ASSUME TInv, NEW w \in Workers, countOut(w), UNCHANGED ioVars
  PROVE  QuietStep
<1> USE ThreadIds DEF countOut, fiberVars, ioVars, Goto
<1>1. \A u \in Threads : IF u = w THEN pc'[u] = "pop" ELSE pc'[u] = pc[u]
  BY FiberTypes
<1>2. \A v \in Workers : v # w => task'[v] = task[v]
  BY FiberTypes
<1>3. SameStage(pc[w], "pop") /\ pc[w] \notin HoldPCs \cup {"count", "begin"}
  BY DEF SameStage, HoldPCs, IoPCs
<1>4. \A v \in Workers : SameStage(pc[v], pc'[v])
  BY <1>1, <1>3 DEF SameStage
<1> QED BY <1>1, <1>2, <1>3, <1>4 DEF QuietStep

LEMMA Quiet_tickle ==
  ASSUME TInv, NEW t \in Threads, (tickle(t) /\ UNCHANGED ioVars) \/ writeEventFd(t)
  PROVE  QuietStep
<1> USE ThreadIds
<1>1. UNCHANGED <<state, execute, q, out, task, armed>> /\ pc[t] \in {"tickle", "wake"}
  BY DEF tickle, writeEventFd, wakeCall, fiberVars, ioVars, chanVars
<1>2. (tickle(t) /\ pc' = [pc EXCEPT ![t] = "wake"]) \/ TickleReturn(t) \/ TickleLoop(t)
  BY DEF tickle, writeEventFd, wakeCall, Goto
<1>3. PICK p : /\ pc' = [pc EXCEPT ![t] = p]
               /\ t \in Workers => p \in {"running", "wake"}
  BY <1>1, <1>2, TickleEnds
<1>4. t \in Workers => SameStage(pc[t], p)
  BY <1>1, <1>3 DEF SameStage, RunningPCs
<1> QED BY <1>1, <1>3, <1>4, QuietMove

LEMMA Quiet_stopping ==
  ASSUME TInv, NEW t \in Threads, UNCHANGED ioVars,
         stoppingFlags(t) \/ stoppingPending(t) \/ stoppingQueue(t)
  PROVE  QuietStep
<1>1. pc[t] \in StoppingPCs
  BY StoppingSteps
<1>2. /\ UNCHANGED <<state, execute, q, out, task, armed>>
      /\ \E p : /\ pc' = [pc EXCEPT ![t] = p]
                /\ t \in Workers => p \notin HoldPCs \cup {"count", "begin"}
  <2>1. CASE \E p \in {"stop_pending", "stop_queue"}, i \in Workers : StoppingNext(t, p, i)
    BY <2>1 DEF StoppingNext, Goto, fiberVars, ioVars, HoldPCs, IoPCs
  <2>2. CASE \E b \in BOOLEAN : StoppingReturn(t, b)
    <3>1. t \in Workers => site[t] \in {"pre", "post"}
      BY <1>1 DEF TInv, Sites
    <3>2. PICK b \in BOOLEAN : StoppingReturn(t, b)
      BY <2>2
    <3>3. \E p : /\ pc' = [pc EXCEPT ![t] = p]
                 /\ site[t] \in {"pre", "post"} => p \in {"quit", "has_task", "pop"}
      BY <3>2 DEF StoppingReturn, Goto
    <3>4. UNCHANGED <<state, execute, q, out, task, armed>>
      BY <3>2 DEF StoppingReturn, fiberVars, ioVars
    <3> QED BY <3>1, <3>3, <3>4 DEF HoldPCs, IoPCs
  <2> QED BY <2>1, <2>2, StoppingSteps
<1>3. pc[t] \notin HoldPCs \cup {"count", "begin", "push", "trigger"}
  BY <1>1 DEF StoppingPCs, HoldPCs, IoPCs
<1> QED BY <1>2, <1>3, QuietMove DEF SameStage

LEMMA Quiet_idle ==
  ASSUME TInv, NEW w \in Workers,
         \/ idleEnter(w) \/ hasTask(w) \/ hasNoTask(w) \/ poll(w) \/ pollInterrupted(w)
         \/ idleWoke(w) \/ idleHandled(w)
  PROVE  QuietStep
<1> USE ThreadIds
<1>1. /\ UNCHANGED <<state, execute, q, out, task, armed>>
      /\ pc[w] \in {"idle", "has_task", "poll", "woke", "handle"}
      /\ \E p \in {"stopping", "pop", "poll", "woke", "handle"} : pc' = [pc EXCEPT ![w] = p]
  BY DEF idleEnter, hasTask, hasNoTask, poll, pollInterrupted, idleWoke,
         idleHandled, Goto, fiberVars, ioVars, chanVars
<1> QED BY <1>1, QuietMove DEF SameStage, HoldPCs, IoPCs

LEMMA Quiet_io ==
  ASSUME TInv, NEW w \in Workers,
         ioEnter(w) \/ ioRetry(w) \/ registerEvent(w) \/ unregisterEvent(w) \/ pendingSub(w)
  PROVE  QuietStep
<1> USE ThreadIds
<1>1. /\ UNCHANGED <<state, execute, q, out, task>>
      /\ pc[w] \in {"running", "io_call", "io_reg", "io_unpend"}
      /\ \E p \in {"running", "io_reg", "io_pend", "io_unpend", "io_call"} :
            pc' = [pc EXCEPT ![w] = p]
  BY DEF ioEnter, ioRetry, SysFunc, registerEvent, unregisterEvent, pendingSub,
         Goto, fiberVars, ioVars, chanVars
<1>2. PICK p \in {"running", "io_reg", "io_pend", "io_unpend", "io_call"} :
         pc' = [pc EXCEPT ![w] = p]
  BY <1>1
<1>3. /\ pc[w] \in RunningPCs /\ p \in RunningPCs
      /\ \A u \in Threads : IF u = w THEN pc'[u] = p ELSE pc'[u] = pc[u]
  BY <1>1, <1>2, FiberTypes DEF RunningPCs, IoPCs
<1>4. \A f \in Fibers : armed'[f] => armed[f] \/ cur(w) = f
  BY FiberTypes DEF ioEnter, ioRetry, SysFunc, registerEvent, unregisterEvent,
                    pendingSub, ioVars
<1>5. \A v \in Workers : SameStage(pc[v], pc'[v])
  BY <1>3 DEF SameStage
<1>6. pc[w] \notin {"push", "trigger"}
  BY <1>1
<1> QED BY <1>1, <1>3, <1>4, <1>5, <1>6 DEF QuietStep

LEMMA Quiet_kernel ==
  ASSUME (\E f \in Fibers : arrive(f)) \/ (\E w \in Workers : readEventFd(w)) \/ UNCHANGED vars
  PROVE  QuietStep
BY DEF arrive, readEventFd, vars, schedVars, ioVars, chanVars, QuietStep, SameStage

LEMMA Quiet_main ==
  ASSUME TInv, UNCHANGED ioVars, init \/ stopCall \/ stopAgain \/ join
  PROVE  QuietStep
<1>1. CASE init
  <2>1. \A w \in Workers : pc[w] = "off" /\ pc'[w] = "pop"
    BY <1>1, ThreadIds DEF init
  <2>2. pc[Main] = "main" /\ \A t \in Threads : t \in Workers \/ t = Main
    BY <1>1, NAssumption DEF init, Workers, Threads, Main
  <2>3. SameStage("off", "pop")
    BY DEF SameStage, HoldPCs, IoPCs
  <2> QED BY <1>1, <2>1, <2>2, <2>3 DEF QuietStep, init, fiberVars, ioVars
<1>2. CASE stopCall \/ stopAgain \/ join
  <2>1. /\ UNCHANGED <<state, execute, q, out, task, armed>>
        /\ pc[Main] \in {"main", "join"} /\ \E p : pc' = [pc EXCEPT ![Main] = p]
    BY <1>2 DEF stopCall, stopAgain, join, Goto, fiberVars, ioVars
  <2> QED BY <2>1, QuietMove, ThreadIds
<1> QED BY <1>1, <1>2

-----------------------------------------------------------------------------
(* A worker that has a fiber has it alone, and the fiber exists.           *)
LEMMA Owner ==
  ASSUME TInv, FInv, NEW w \in Workers, pc[w] \in HoldPCs
  PROVE  /\ cur(w) \in Fibers /\ execute[cur(w)] /\ state[cur(w)] \in State
         /\ \A v \in Workers : v # w /\ pc[v] \in HoldPCs => cur(v) # cur(w)
<1>1. cur(w) \in Fibers
  BY CurFiber DEF HandPCs
<1>2. state[cur(w)] \in State
  BY DEF FInv, StateAt, HoldPCs, RunningPCs, State
<1> QED BY <1>1, <1>2 DEF FInv, FiberExclusive

(* The worker switches to its fiber or back, or drops it.                  *)
LEMMA F_switch ==
  ASSUME TInv, FInv, NEW w \in Workers, pc[w] \in HoldPCs \ {"push"},
         NEW p \in {"running", "requeue", "unlock"}, NEW s \in State,
         p = "running" => s = "kRunning" /\ state[cur(w)] # "kTerm",
         p = "requeue" => s = "kReady",
         p = "unlock" => s \in {"kHold", "kTerm"},
         pc' = [pc EXCEPT ![w] = p], state' = [state EXCEPT ![cur(w)] = s],
         UNCHANGED <<execute, q, out, task, armed>>
  PROVE  FInv' /\ FStep
<1> USE ThreadIds
<1>1. /\ \A u \in Threads : IF u = w THEN pc'[u] = p ELSE pc'[u] = pc[u]
      /\ \A f \in Fibers : IF f = cur(w) THEN state'[f] = s ELSE state'[f] = state[f]
      /\ \A v \in Workers : cur(v)' = cur(v)
      /\ execute' = execute /\ q' = q /\ out' = out /\ armed' = armed
  BY FiberTypes DEF cur
<1>2. /\ cur(w) \in Fibers /\ execute[cur(w)] /\ state[cur(w)] \in State
      /\ \A v \in Workers : v # w /\ pc[v] \in HoldPCs => cur(v) # cur(w)
  BY Owner
<1>3. p \in HoldPCs /\ (p \in RunningPCs <=> p = "running")
  BY DEF HoldPCs, RunningPCs, IoPCs
<1>4. Carried' = Carried
  BY <1>1 DEF Carried, HoldPCs, IoPCs
<1>5. InPlay(q, Carried)' = InPlay(q, Carried) /\ Once(q, Carried)'
  BY <1>1, <1>4 DEF FInv
<1>6. OutEmpty'
  BY <1>1, FiberTypes DEF FInv, OutEmpty, HoldPCs, IoPCs
<1>7. Known'
  <2>1. \A x \in InPlay(q, Carried) : x.id \in Fibers
    BY PlayTasks DEF Task
  <2>2. \A x \in InPlay(q, Carried) : x.id = cur(w) => x.kind # "cb"
    BY <1>2 DEF FInv, Known, State
  <2> QED BY <1>1, <1>2, <1>5, <2>1, <2>2 DEF FInv, Known
<1>8. \A v \in Workers : pc'[v] \in HoldPCs <=> pc[v] \in HoldPCs
  BY <1>1, <1>3
<1>9. FiberExclusive'
  BY <1>1, <1>2, <1>8 DEF FInv, FiberExclusive
<1>10. StateAt'
  <2>1. \A v \in Workers : v # w /\ pc[v] \in HoldPCs => state'[cur(v)] = state[cur(v)]
    BY <1>1, <1>2, Owner
  <2>2. \A v \in Workers : v # w =>
          /\ pc[v] \in {"locked", "unlock"} => state'[cur(v)] \in {"kReady", "kHold", "kTerm"}
          /\ pc[v] \in RunningPCs => state'[cur(v)] = "kRunning"
          /\ pc[v] = "requeue" => state'[cur(v)] = "kReady"
    BY <2>1 DEF FInv, StateAt, RunningPCs, HoldPCs
  <2>3. \A f \in Fibers : ~execute[f] => state'[f] # "kRunning"
    BY <1>1, <1>2 DEF FInv, StateAt
  <2> QED BY <1>1, <1>2, <1>3, <2>2, <2>3 DEF StateAt
<1>11. ExecuteHeld'
  BY <1>1, <1>8 DEF FInv, ExecuteHeld
<1>12. ReadyQueued'
  <2> SUFFICES ASSUME NEW f \in Fibers
               PROVE  /\ state'[f] = "kReady"
                         /\ (~execute[f] \/ \E v \in Workers : pc'[v] = "unlock" /\ cur(v) = f)
                         => FiberOf(f) \in InPlay(q, Carried)
                      /\ state'[f] = "posted" => Cb(f) \in InPlay(q, Carried)
    BY <1>1, <1>5 DEF ReadyQueued
  <2>1. CASE f = cur(w)
    <3>1. state'[f] = s /\ s # "posted"
      BY <1>1, <2>1 DEF State
    <3>2. \A v \in Workers : pc'[v] = "unlock" /\ cur(v) = f => v = w
      BY <1>1, <1>2, <2>1 DEF HoldPCs
    <3> QED BY <1>1, <1>2, <2>1, <3>1, <3>2
  <2>2. CASE f # cur(w)
    BY <1>1, <2>2 DEF FInv, ReadyQueued
  <2> QED BY <2>1, <2>2
<1>13. FStep
  <2>1. ResumeStep
    BY <1>1 DEF ResumeStep, FInv, StateAt
  <2>2. PlayStep
    BY <1>5 DEF PlayStep
  <2> QED BY <2>1, <2>2 DEF FStep
<1> QED BY <1>5, <1>6, <1>7, <1>9, <1>10, <1>11, <1>12, <1>13 DEF FInv

LEMMA F_requeue ==
  ASSUME TInv, FInv, NEW w \in Workers, requeue(w), UNCHANGED ioVars
  PROVE  FInv' /\ FStep
<1> USE ThreadIds
<1>1. /\ pc[w] = "requeue" /\ pc' = [pc EXCEPT ![w] = "unlock"]
      /\ q' = [q EXCEPT ![w] = Append(@, FiberOf(cur(w)))]
      /\ UNCHANGED <<state, execute, task, out, armed>>
  BY DEF requeue, Push, Goto, fiberVars, ioVars
<1>2. /\ \A u \in Threads : IF u = w THEN pc'[u] = "unlock" ELSE pc'[u] = pc[u]
      /\ \A v \in Workers : cur(v)' = cur(v)
  BY <1>1, FiberTypes DEF cur
<1>3. cur(w) \in Fibers /\ FiberOf(cur(w)) \in Task /\ FiberOf(cur(w)).kind # "cb"
  BY <1>1, CurFiber DEF FiberOf, Task, HandPCs, HoldPCs
<1>4. Carried' = Carried
  BY <1>1, <1>2 DEF Carried
<1>5. InPlay(q, Carried)' = InPlay(q, Carried) \cup {FiberOf(cur(w))}
  <2>1. InPlay(q', Carried) = InPlay(q, Carried) \cup {FiberOf(cur(w))}
    BY <1>1, <1>3, PlayAdd, Zenon
  <2> QED BY <1>1, <1>4, <2>1
<1>6. Once(q, Carried)'
  BY <1>1, <1>3, <1>4, FiberTypes, CarriedType, OnceAdd DEF FInv
<1>7. OutEmpty'
  BY <1>1, <1>2 DEF FInv, OutEmpty
<1>8. Known'
  <2>1. FiberOf(cur(w)).id = cur(w) /\ state[cur(w)] \in State
    BY <1>1, Owner DEF FiberOf, HoldPCs
  <2> QED BY <1>1, <1>3, <1>5, <2>1 DEF FInv, Known
<1>9. \A v \in Workers : pc'[v] \in HoldPCs <=> pc[v] \in HoldPCs
  BY <1>1, <1>2 DEF HoldPCs
<1>10. FiberExclusive' /\ ExecuteHeld'
  BY <1>1, <1>2, <1>9 DEF FInv, FiberExclusive, ExecuteHeld
<1>11. StateAt'
  BY <1>1, <1>2 DEF FInv, StateAt, RunningPCs, IoPCs
<1>12. ReadyQueued'
  <2> SUFFICES ASSUME NEW f \in Fibers
               PROVE  /\ state[f] = "kReady"
                         /\ (~execute[f] \/ \E v \in Workers : pc'[v] = "unlock" /\ cur(v) = f)
                         => FiberOf(f) \in InPlay(q, Carried) \cup {FiberOf(cur(w))}
                      /\ state[f] = "posted" => Cb(f) \in InPlay(q, Carried)
    BY <1>1, <1>2, <1>5 DEF ReadyQueued
  <2>1. \A v \in Workers : pc'[v] = "unlock" => v = w \/ pc[v] = "unlock"
    BY <1>2
  <2> QED BY <2>1 DEF FInv, ReadyQueued
<1>13. FStep
  <2>1. ResumeStep
    BY <1>1, <1>2 DEF ResumeStep
  <2>2. PlayStep
    BY <1>5 DEF PlayStep, FiberOf
  <2> QED BY <2>1, <2>2 DEF FStep
<1> QED BY <1>6, <1>7, <1>8, <1>10, <1>11, <1>12, <1>13 DEF FInv

LEMMA F_unlockFiber ==
  ASSUME TInv, FInv, NEW w \in Workers, unlockFiber(w), UNCHANGED ioVars
  PROVE  FInv' /\ FStep
<1> USE ThreadIds
<1>1. /\ pc[w] = "unlock" /\ pc' = [pc EXCEPT ![w] = "uncount"]
      /\ execute' = [execute EXCEPT ![cur(w)] = FALSE]
      /\ UNCHANGED <<state, q, task, out, armed>>
  BY DEF unlockFiber, unlock, Goto, ioVars
<1>2. /\ \A u \in Threads : IF u = w THEN pc'[u] = "uncount" ELSE pc'[u] = pc[u]
      /\ \A v \in Workers : cur(v)' = cur(v)
  BY <1>1, FiberTypes DEF cur
<1>3. /\ cur(w) \in Fibers
      /\ \A v \in Workers : v # w /\ pc[v] \in HoldPCs => cur(v) # cur(w)
  BY <1>1, Owner DEF HoldPCs
<1>4. \A f \in Fibers : execute'[f] <=> execute[f] /\ f # cur(w)
  BY <1>1, <1>3, FiberTypes
<1>5. Carried' = Carried
  BY <1>1, <1>2 DEF Carried
<1>6. InPlay(q, Carried)' = InPlay(q, Carried) /\ Once(q, Carried)'
  BY <1>1, <1>5 DEF FInv
<1>7. OutEmpty'
  BY <1>1, <1>2 DEF FInv, OutEmpty
<1>8. Known'
  BY <1>1, <1>6 DEF FInv, Known
<1>9. \A v \in Workers : pc'[v] \in HoldPCs <=> v # w /\ pc[v] \in HoldPCs
  BY <1>1, <1>2 DEF HoldPCs, IoPCs
<1>10. FiberExclusive'
  <2>1. \A v \in Workers : pc[v] \in HoldPCs => cur(v) \in Fibers
    BY CurFiber DEF HandPCs
  <2> QED BY <1>2, <1>3, <1>4, <1>9, <2>1 DEF FInv, FiberExclusive
<1>11. ExecuteHeld'
  BY <1>2, <1>4, <1>9 DEF FInv, ExecuteHeld
<1>12. StateAt'
  <2>1. \A f \in Fibers : ~execute'[f] => state[f] # "kRunning"
    BY <1>1, <1>4 DEF FInv, StateAt
  <2>2. \A v \in Workers :
          /\ pc'[v] \in {"locked", "unlock"} => state[cur(v)] \in {"kReady", "kHold", "kTerm"}
          /\ pc'[v] \in RunningPCs => state[cur(v)] = "kRunning"
          /\ pc'[v] = "requeue" => state[cur(v)] = "kReady"
    BY <1>2 DEF FInv, StateAt, RunningPCs, IoPCs
  <2> QED BY <1>1, <1>2, <2>1, <2>2 DEF StateAt
<1>13. ReadyQueued'
  <2> SUFFICES ASSUME NEW f \in Fibers
               PROVE  /\ state[f] = "kReady"
                         /\ (~execute'[f] \/ \E v \in Workers : pc'[v] = "unlock" /\ cur(v) = f)
                         => FiberOf(f) \in InPlay(q, Carried)
                      /\ state[f] = "posted" => Cb(f) \in InPlay(q, Carried)
    BY <1>1, <1>2, <1>6 DEF ReadyQueued
  <2>1. \A v \in Workers : pc'[v] = "unlock" => pc[v] = "unlock"
    BY <1>2
  <2> QED BY <1>1, <1>4, <2>1 DEF FInv, ReadyQueued
<1>14. FStep
  <2>1. ResumeStep
    BY <1>1, <1>2 DEF ResumeStep
  <2>2. PlayStep
    BY <1>6 DEF PlayStep
  <2> QED BY <2>1, <2>2 DEF FStep
<1> QED BY <1>6, <1>7, <1>8, <1>10, <1>11, <1>12, <1>13, <1>14 DEF FInv

LEMMA F_lockFiber ==
  ASSUME TInv, FInv, NEW w \in Workers, lockFiber(w), UNCHANGED ioVars
  PROVE  FInv' /\ FStep
<1> USE ThreadIds
<1>1. /\ pc[w] = "begin" /\ pc' = [pc EXCEPT ![w] = "locked"]
      /\ task[w].kind = "fiber" /\ ~execute[cur(w)]
      /\ execute' = [execute EXCEPT ![cur(w)] = TRUE]
      /\ UNCHANGED <<state, q, task, out, armed>>
  BY DEF lockFiber, tryLock, Goto, ioVars
<1>2. /\ \A u \in Threads : IF u = w THEN pc'[u] = "locked" ELSE pc'[u] = pc[u]
      /\ \A v \in Workers : cur(v)' = cur(v)
  BY <1>1, FiberTypes DEF cur
<1>3. task[w] \in Task /\ cur(w) \in Fibers
  BY <1>1, CurFiber DEF HandPCs
<1>4. \A f \in Fibers : execute'[f] <=> execute[f] \/ f = cur(w)
  BY <1>1, <1>3, FiberTypes
<1>5. out[w] = NoTask /\ Carried[w] = task[w]
  BY <1>1 DEF FInv, OutEmpty, Carried
<1>6. Carried' = [Carried EXCEPT ![w] = NoTask]
  BY <1>1, <1>2, <1>5 DEF Carried
<1>7. Once(q, Carried)'
  BY <1>1, <1>6, FiberTypes, CarriedType, OnceDrop DEF FInv
<1>8. /\ InPlay(q, Carried)' \subseteq InPlay(q, Carried)
      /\ InPlay(q, Carried) \subseteq InPlay(q, Carried)' \cup {task[w]}
  <2>1. /\ InPlay(q, [Carried EXCEPT ![w] = NoTask]) \subseteq InPlay(q, Carried)
        /\ InPlay(q, Carried) \subseteq InPlay(q, [Carried EXCEPT ![w] = NoTask]) \cup {Carried[w]}
    BY FiberTypes, CarriedType, PlayDrop, Zenon
  <2> QED BY <1>1, <1>5, <1>6, <2>1
<1>9. OutEmpty'
  BY <1>1, <1>2 DEF FInv, OutEmpty
<1>10. Known'
  BY <1>1, <1>8 DEF FInv, Known
<1>11. \A v \in Workers : pc'[v] \in HoldPCs <=> v = w \/ pc[v] \in HoldPCs
  BY <1>1, <1>2 DEF HoldPCs, IoPCs
<1>12. \A v \in Workers : pc[v] \in HoldPCs => cur(v) \in Fibers /\ cur(v) # cur(w)
  BY <1>1, Owner
<1>13. FiberExclusive'
  BY <1>2, <1>3, <1>4, <1>11, <1>12 DEF FInv, FiberExclusive
<1>14. ExecuteHeld'
  BY <1>2, <1>4, <1>11 DEF FInv, ExecuteHeld
<1>15. state[cur(w)] \in {"kReady", "kHold", "kTerm"}
  <2>1. task[w] \in InPlay(q, Carried) /\ task[w].id = cur(w)
    BY <1>3, <1>5, PlayIs, NoTaskIsNone DEF cur
  <2> QED BY <1>1, <1>3, <2>1 DEF FInv, Known, StateAt, State
<1>16. StateAt'
  <2>1. \A v \in Workers :
          /\ pc'[v] \in {"locked", "unlock"} => state[cur(v)] \in {"kReady", "kHold", "kTerm"}
          /\ pc'[v] \in RunningPCs => state[cur(v)] = "kRunning"
          /\ pc'[v] = "requeue" => state[cur(v)] = "kReady"
    BY <1>2, <1>15 DEF FInv, StateAt, RunningPCs, IoPCs
  <2> QED BY <1>1, <1>2, <1>4, <2>1 DEF FInv, StateAt
<1>17. ReadyQueued'
  <2> SUFFICES ASSUME NEW f \in Fibers
               PROVE  /\ state[f] = "kReady"
                         /\ (~execute'[f] \/ \E v \in Workers : pc'[v] = "unlock" /\ cur(v) = f)
                         => FiberOf(f) \in InPlay(q, Carried)'
                      /\ state[f] = "posted" => Cb(f) \in InPlay(q, Carried)'
    BY <1>1, <1>2 DEF ReadyQueued
  <2>1. CASE f = cur(w)
    <3>1. \A v \in Workers : pc'[v] = "unlock" => cur(v) # f
      BY <1>2, <1>12, <2>1 DEF HoldPCs
    <3> QED BY <1>4, <1>15, <2>1, <3>1
  <2>2. CASE f # cur(w)
    <3>1. FiberOf(f) # task[w] /\ Cb(f) # task[w]
      BY <2>2 DEF FiberOf, Cb, cur
    <3>2. \A v \in Workers : pc'[v] = "unlock" => pc[v] = "unlock"
      BY <1>2
    <3> QED BY <1>4, <1>8, <2>2, <3>1, <3>2 DEF FInv, ReadyQueued
  <2> QED BY <2>1, <2>2
<1>18. FStep
  <2>1. ResumeStep
    BY <1>1, <1>2 DEF ResumeStep
  <2>2. PlayStep
    BY <1>1, <1>2, <1>8 DEF PlayStep, Spent
  <2> QED BY <2>1, <2>2 DEF FStep
<1> QED BY <1>7, <1>9, <1>10, <1>13, <1>14, <1>16, <1>17, <1>18 DEF FInv

(* The wrapper fiber of a callback is new: the callback was nowhere else.  *)
LEMMA F_beginCb ==
  ASSUME TInv, FInv, NEW w \in Workers, beginCb(w), UNCHANGED ioVars
  PROVE  FInv' /\ FStep
<1> USE ThreadIds
<1>1. /\ pc[w] = "begin" /\ pc' = [pc EXCEPT ![w] = "running"]
      /\ task[w].kind = "cb"
      /\ execute' = [execute EXCEPT ![cur(w)] = TRUE]
      /\ state' = [state EXCEPT ![cur(w)] = "kRunning"]
      /\ UNCHANGED <<q, task, out, armed>>
  BY DEF beginCb, launch, Goto, ioVars
<1>2. /\ \A u \in Threads : IF u = w THEN pc'[u] = "running" ELSE pc'[u] = pc[u]
      /\ \A v \in Workers : cur(v)' = cur(v)
  BY <1>1, FiberTypes DEF cur
<1>3. task[w] \in Task /\ cur(w) \in Fibers
  BY <1>1, CurFiber DEF HandPCs
<1>4. \A f \in Fibers : /\ execute'[f] <=> execute[f] \/ f = cur(w)
                        /\ IF f = cur(w) THEN state'[f] = "kRunning"
                                         ELSE state'[f] = state[f]
  BY <1>1, <1>3, FiberTypes
<1>5. out[w] = NoTask /\ Carried[w] = task[w]
  BY <1>1 DEF FInv, OutEmpty, Carried
<1>6. Carried' = [Carried EXCEPT ![w] = NoTask]
  BY <1>1, <1>2, <1>5 DEF Carried
<1>7. Once(q, Carried)'
  BY <1>1, <1>6, FiberTypes, CarriedType, OnceDrop DEF FInv
<1>8. /\ InPlay(q, Carried)' \subseteq InPlay(q, Carried)
      /\ InPlay(q, Carried) \subseteq InPlay(q, Carried)' \cup {task[w]}
  <2>1. /\ InPlay(q, [Carried EXCEPT ![w] = NoTask]) \subseteq InPlay(q, Carried)
        /\ InPlay(q, Carried) \subseteq InPlay(q, [Carried EXCEPT ![w] = NoTask]) \cup {Carried[w]}
    BY FiberTypes, CarriedType, PlayDrop, Zenon
  <2> QED BY <1>1, <1>5, <1>6, <2>1
<1>9. OutEmpty'
  BY <1>1, <1>2 DEF FInv, OutEmpty
<1>10. state[cur(w)] = "posted"
  <2>1. task[w] \in InPlay(q, Carried) /\ task[w].id = cur(w)
    BY <1>3, <1>5, PlayIs, NoTaskIsNone DEF cur
  <2> QED BY <1>1, <2>1 DEF FInv, Known
<1>11. \A x \in InPlay(q, Carried)' : x.id # cur(w)
  <2> SUFFICES ASSUME NEW x \in InPlay(q, Carried)', x.id = cur(w)
               PROVE  FALSE
    OBVIOUS
  <2>1. x.kind = "cb"
    BY <1>8, <1>10 DEF FInv, Known, State
  <2>2. SameCb(x, task[w])
    BY <1>1, <2>1 DEF SameCb, cur
  <2>3. CASE \E v \in Workers : x \in Range(q[v])
    <3>1. PICK v \in Workers : x \in Range(q[v])
      BY <2>3
    <3>2. PICK i \in 1..Len(q[v]) : x = q[v][i]
      BY <3>1, FiberTypes, RangeOf
    <3> QED BY <1>5, <2>2, <3>2 DEF FInv, Once
  <2>4. CASE \E u \in Threads : x = Carried'[u]
    <3>1. PICK u \in Threads : x = Carried'[u]
      BY <2>4
    <3>2. u # w
      BY <1>6, <2>1, <3>1, CarriedType DEF NoTask
    <3>3. x = Carried[u]
      BY <1>6, <3>1, <3>2, CarriedType
    <3> QED BY <1>5, <2>2, <3>2, <3>3 DEF FInv, Once
  <2> QED BY <1>1, <2>3, <2>4, PlayIs
<1>12. Known'
  <2>1. \A x \in InPlay(q, Carried)' : x.id \in Fibers
    BY <1>8, PlayTasks DEF Task
  <2>2. \A f \in Fibers : armed[f] => f # cur(w)
    BY <1>10 DEF FInv, Known, State
  <2>3. \A x \in InPlay(q, Carried)' :
          IF x.kind = "cb" THEN state'[x.id] = "posted" ELSE state'[x.id] \in State
    BY <1>4, <1>8, <1>11, <2>1 DEF FInv, Known
  <2> QED BY <1>1, <1>4, <2>2, <2>3 DEF FInv, Known
<1>13. \A v \in Workers : pc'[v] \in HoldPCs <=> v = w \/ pc[v] \in HoldPCs
  BY <1>1, <1>2 DEF HoldPCs, IoPCs
<1>14. \A v \in Workers : pc[v] \in HoldPCs => cur(v) \in Fibers /\ cur(v) # cur(w)
  BY <1>10, Owner DEF State
<1>15. FiberExclusive'
  BY <1>2, <1>3, <1>4, <1>13, <1>14 DEF FInv, FiberExclusive
<1>16. ExecuteHeld'
  BY <1>2, <1>4, <1>13 DEF FInv, ExecuteHeld
<1>17. StateAt'
  <2>1. \A v \in Workers : v # w /\ pc[v] \in HoldPCs => state'[cur(v)] = state[cur(v)]
    BY <1>4, <1>14
  <2>2. \A v \in Workers : v # w =>
          /\ pc[v] \in {"locked", "unlock"} => state'[cur(v)] \in {"kReady", "kHold", "kTerm"}
          /\ pc[v] \in RunningPCs => state'[cur(v)] = "kRunning"
          /\ pc[v] = "requeue" => state'[cur(v)] = "kReady"
    BY <2>1 DEF FInv, StateAt, RunningPCs, HoldPCs
  <2>3. \A f \in Fibers : ~execute'[f] => state'[f] # "kRunning"
    BY <1>4 DEF FInv, StateAt
  <2> QED BY <1>2, <1>3, <1>4, <2>2, <2>3 DEF StateAt
<1>18. ReadyQueued'
  <2> SUFFICES ASSUME NEW f \in Fibers
               PROVE  /\ state'[f] = "kReady"
                         /\ (~execute'[f] \/ \E v \in Workers : pc'[v] = "unlock" /\ cur(v) = f)
                         => FiberOf(f) \in InPlay(q, Carried)'
                      /\ state'[f] = "posted" => Cb(f) \in InPlay(q, Carried)'
    BY <1>1, <1>2 DEF ReadyQueued
  <2>1. CASE f = cur(w)
    BY <1>4, <2>1
  <2>2. CASE f # cur(w)
    <3>1. FiberOf(f) # task[w] /\ Cb(f) # task[w]
      BY <2>2 DEF FiberOf, Cb, cur
    <3>2. \A v \in Workers : pc'[v] = "unlock" => pc[v] = "unlock"
      BY <1>2
    <3> QED BY <1>4, <1>8, <2>2, <3>1, <3>2 DEF FInv, ReadyQueued
  <2> QED BY <2>1, <2>2
<1>19. FStep
  <2>1. ResumeStep
    BY <1>1, <1>2 DEF ResumeStep
  <2>2. PlayStep
    BY <1>1, <1>2, <1>8 DEF PlayStep, Spent
  <2> QED BY <2>1, <2>2 DEF FStep
<1> QED BY <1>7, <1>9, <1>12, <1>15, <1>16, <1>17, <1>18, <1>19 DEF FInv

(* The steps that move tasks and leave every fiber and its worker alone.   *)
StillHeld ==
  /\ UNCHANGED <<state, execute, armed>>
  /\ \A w \in Workers :
        /\ pc'[w] \in HoldPCs <=> pc[w] \in HoldPCs
        /\ pc'[w] \in RunningPCs <=> pc[w] \in RunningPCs
        /\ \A p \in {"locked", "unlock", "requeue"} : pc'[w] = p <=> pc[w] = p
        /\ pc[w] \in HoldPCs => cur(w)' = cur(w)

LEMMA F_still ==
  ASSUME TInv, FInv, StillHeld, OutEmpty', Once(q, Carried)', PlayStep,
         NEW x, InPlay(q, Carried)' \subseteq InPlay(q, Carried) \cup {x},
         \A y \in InPlay(q, Carried) : y.kind # "event" => y \in InPlay(q, Carried)',
         x \in InPlay(q, Carried)' => x.kind # "cb" /\ state[x.id] \in State
  PROVE  FInv' /\ FStep
<1>1. UNCHANGED <<state, execute, armed>>
  BY DEF StillHeld
<1>2. Known'
  BY <1>1 DEF FInv, Known
<1>3. FiberExclusive' /\ ExecuteHeld'
  BY <1>1 DEF FInv, FiberExclusive, ExecuteHeld, StillHeld
<1>4. StateAt'
  <2>1. RunningPCs \cup {"locked", "unlock", "requeue"} \subseteq HoldPCs
    BY DEF RunningPCs, HoldPCs
  <2>2. \A w \in Workers :
          /\ pc'[w] \in {"locked", "unlock"} => state[cur(w)'] \in {"kReady", "kHold", "kTerm"}
          /\ pc'[w] \in RunningPCs => state[cur(w)'] = "kRunning"
          /\ pc'[w] = "requeue" => state[cur(w)'] = "kReady"
    BY <2>1 DEF FInv, StateAt, StillHeld
  <2> QED BY <1>1, <2>2 DEF FInv, StateAt
<1>5. ReadyQueued'
  <2>1. \A w \in Workers : pc'[w] = "unlock" => pc[w] = "unlock" /\ cur(w)' = cur(w)
    BY DEF StillHeld, HoldPCs
  <2>2. \A f \in Fibers : FiberOf(f).kind # "event" /\ Cb(f).kind # "event"
    BY DEF FiberOf, Cb
  <2> QED BY <1>1, <2>1, <2>2 DEF FInv, ReadyQueued
<1>6. FStep
  <2>1. ResumeStep
    BY DEF StillHeld, ResumeStep
  <2>2. PlayStep
    OBVIOUS
  <2> QED BY <2>1, <2>2 DEF FStep
<1> QED BY <1>2, <1>3, <1>4, <1>5, <1>6 DEF FInv

(* A worker takes a task out of a queue.                                   *)
LEMMA F_take ==
  ASSUME TInv, FInv, NEW w \in Workers, pc[w] \in {"pop", "steal"},
         NEW v \in Workers, NEW p \in 1..Len(q[v]), NEW r, Without(q[v], p, r),
         pc' = [pc EXCEPT ![w] = "count"], task' = [task EXCEPT ![w] = q[v][p]],
         q' = [q EXCEPT ![v] = r], UNCHANGED <<state, execute, out, armed>>
  PROVE  FInv' /\ FStep
<1> USE ThreadIds
<1>1. /\ \A u \in Threads : IF u = w THEN pc'[u] = "count" ELSE pc'[u] = pc[u]
      /\ \A u \in Workers : IF u = w THEN task'[u] = q[v][p] ELSE task'[u] = task[u]
  BY FiberTypes
<1>2. Carried[w] = NoTask
  BY DEF FInv, OutEmpty, Carried
<1>3. Carried' = [Carried EXCEPT ![w] = q[v][p]]
  BY <1>1, ZenonT(60) DEF Carried
<1>4. Once(q, Carried)'
  <2>1. Once([q EXCEPT ![v] = r], [Carried EXCEPT ![w] = q[v][p]])
    BY <1>2, FiberTypes, CarriedType, OnceTake DEF FInv
  <2> QED BY <1>3, <2>1
<1>5. InPlay(q, Carried)' = InPlay(q, Carried)
  BY <1>2, <1>3, PlayTake
<1>6. OutEmpty'
  BY <1>1 DEF FInv, OutEmpty
<1>7. StillHeld
  BY <1>1 DEF StillHeld, HoldPCs, RunningPCs, IoPCs, cur
<1>8. NoTask \notin InPlay(q, Carried)
  BY PlayIs
<1>9. PlayStep
  BY <1>5 DEF PlayStep
<1> QED BY <1>4, <1>5, <1>6, <1>7, <1>8, <1>9, F_still

LEMMA F_popOwn ==
  ASSUME TInv, FInv, NEW w \in Workers, popOwn(w), UNCHANGED ioVars
  PROVE  FInv' /\ FStep
<1>1. q[w] \in Seq(Task) /\ q[w] # <<>>
  BY FiberTypes DEF popOwn
<1>2. 1 \in 1..Len(q[w]) /\ Head(q[w]) = q[w][1] /\ Without(q[w], 1, Tail(q[w]))
  BY <1>1, TakeFront
<1>3. /\ pc[w] = "pop" /\ pc' = [pc EXCEPT ![w] = "count"]
      /\ task' = [task EXCEPT ![w] = Head(q[w])]
      /\ q' = [q EXCEPT ![w] = Tail(q[w])]
      /\ UNCHANGED <<state, execute, out, armed>>
  BY DEF popOwn, Goto, fiberVars, ioVars
<1> DEFINE r == Tail(q[w])
           k == 1
<1>4. k \in 1..Len(q[w]) /\ Without(q[w], k, r) /\ q' = [q EXCEPT ![w] = r]
      /\ task' = [task EXCEPT ![w] = q[w][k]]
  BY <1>2, <1>3
<1> HIDE DEF r, k
<1> QED BY <1>3, <1>4, F_take, ZenonT(60)

LEMMA F_stealTask ==
  ASSUME TInv, FInv, NEW w \in Workers, stealTask(w), UNCHANGED ioVars
  PROVE  FInv' /\ FStep
<1> DEFINE v == Victim(w)
           r == Front(q[v])
           k == Len(q[v])
<1>1. v \in Workers
  BY VictimWorker DEF TInv, TypeOK, SchedTypeOK
<1>2. /\ pc[w] = "steal" /\ pc' = [pc EXCEPT ![w] = "count"] /\ q[v] # <<>>
      /\ task' = [task EXCEPT ![w] = Last(q[v])] /\ q' = [q EXCEPT ![v] = r]
      /\ UNCHANGED <<state, execute, out, armed>>
  BY DEF stealTask, Goto, fiberVars, ioVars
<1> HIDE DEF v
<1>3. k \in 1..Len(q[v]) /\ Last(q[v]) = q[v][k] /\ Without(q[v], k, r)
  BY <1>1, <1>2, FiberTypes, TakeBack
<1>4. task' = [task EXCEPT ![w] = q[v][k]]
  BY <1>2, <1>3
<1> HIDE DEF r, k
<1> QED BY <1>1, <1>2, <1>3, <1>4, F_take

(* A thread appends the task it carries to a queue.                        *)
LEMMA F_push ==
  ASSUME TInv, FInv, NEW t \in Threads, NEW v \in Workers, NEW p,
         Carried[t] \in Task, q' = [q EXCEPT ![v] = Append(@, Carried[t])],
         Carried' = [Carried EXCEPT ![t] = NoTask],
         pc' = [pc EXCEPT ![t] = p], out' = [out EXCEPT ![t] = NoTask],
         t \in Workers => \/ pc[t] = "push" /\ p \in RunningPCs
                          \/ pc[t] \in {"begin", "trigger"} /\ p \in {"pop", "handle"},
         \A w \in Workers : w # t \/ pc[t] = "push" => task'[w] = task[w],
         UNCHANGED <<state, execute, armed>>
  PROVE  FInv' /\ FStep
<1> USE ThreadIds
<1>1. /\ \A u \in Threads : IF u = t THEN pc'[u] = p ELSE pc'[u] = pc[u]
      /\ \A u \in Threads : IF u = t THEN out'[u] = NoTask ELSE out'[u] = out[u]
  BY FiberTypes
<1>2. Once(q, Carried)'
  <2>1. Once([q EXCEPT ![v] = Append(@, Carried[t])], [Carried EXCEPT ![t] = NoTask])
    BY FiberTypes, CarriedType, OncePush DEF FInv
  <2> QED BY <2>1
<1>3. InPlay(q, Carried)' = InPlay(q, Carried)
  BY PlayPush
<1>4. OutEmpty'
  BY <1>1 DEF FInv, OutEmpty
<1>5. StillHeld
  <2> SUFFICES ASSUME NEW w \in Workers
               PROVE  /\ pc'[w] \in HoldPCs <=> pc[w] \in HoldPCs
                      /\ pc'[w] \in RunningPCs <=> pc[w] \in RunningPCs
                      /\ \A s \in {"locked", "unlock", "requeue"} : pc'[w] = s <=> pc[w] = s
                      /\ pc[w] \in HoldPCs => cur(w)' = cur(w)
    BY DEF StillHeld
  <2>1. CASE w # t
    BY <1>1, <2>1 DEF cur
  <2>2. CASE w = t
    BY <1>1, <2>2 DEF cur, HoldPCs, RunningPCs, IoPCs
  <2> QED BY <2>1, <2>2
<1>6. NoTask \notin InPlay(q, Carried)
  BY PlayIs
<1>7. PlayStep
  BY <1>3 DEF PlayStep
<1> QED BY <1>2, <1>3, <1>4, <1>5, <1>6, <1>7, F_still

LEMMA F_submitPush ==
  ASSUME TInv, FInv, NEW t \in Threads, submitPush(t), UNCHANGED ioVars
  PROVE  FInv' /\ FStep
<1> USE ThreadIds
<1>1. /\ pc[t] = "push" /\ q' = [q EXCEPT ![tgt[t]] = Append(@, out[t])]
      /\ out' = [out EXCEPT ![t] = NoTask]
      /\ UNCHANGED <<state, execute, task, armed>>
  BY DEF submitPush, Push, fiberVars, ioVars
<1>2. tgt[t] \in Workers /\ out[t] \in Task
  BY <1>1 DEF TInv, TypeOK, SchedTypeOK, ThreadTypeOK, TaskInHand
<1>3. PICK p : pc' = [pc EXCEPT ![t] = p] /\ (t \in Workers => p \in {"running", "tickle"})
  BY <1>1, TickleEnds DEF submitPush, Goto
<1>4. t \in Workers => p \in RunningPCs
  BY <1>3 DEF RunningPCs
<1>5. /\ \A u \in Threads : u # t => pc'[u] = pc[u] /\ out'[u] = out[u]
      /\ out'[t] = NoTask /\ pc'[t] = p
  BY <1>1, <1>3, FiberTypes
<1>6. Carried[t] = out[t] /\ Carried' = [Carried EXCEPT ![t] = NoTask]
  <2>1. p \notin {"count", "begin"} \/ t \notin Workers
    BY <1>3
  <2> QED BY <1>1, <1>5, <2>1 DEF Carried
<1>7. q' = [q EXCEPT ![tgt[t]] = Append(@, Carried[t])]
  BY <1>1, <1>6
<1> QED BY <1>1, <1>2, <1>3, <1>4, <1>6, <1>7, F_push

LEMMA F_triggerPush ==
  ASSUME TInv, FInv, NEW w \in Workers, triggerPush(w)
  PROVE  FInv' /\ FStep
<1> USE ThreadIds
<1>1. /\ pc[w] = "trigger" /\ q' = [q EXCEPT ![bound[out[w].id]] = Append(@, out[w])]
      /\ out' = [out EXCEPT ![w] = NoTask] /\ pc' = [pc EXCEPT ![w] = "handle"]
      /\ UNCHANGED <<state, execute, task, armed>>
  BY DEF triggerPush, Push, Goto, fiberVars, ioVars
<1>2. out[w] \in Task /\ bound[out[w].id] = w
  BY <1>1 DEF TInv, TaskInHand, BoundOK
<1>3. /\ \A u \in Threads : u # w => pc'[u] = pc[u] /\ out'[u] = out[u]
      /\ out'[w] = NoTask /\ pc'[w] = "handle"
  BY <1>1, FiberTypes
<1>4. Carried[w] = out[w] /\ Carried' = [Carried EXCEPT ![w] = NoTask]
  BY <1>1, <1>3 DEF Carried
<1>5. q' = [q EXCEPT ![w] = Append(@, Carried[w])] /\ Carried[w] \in Task
  BY <1>1, <1>2, <1>4
<1> QED BY <1>1, <1>4, <1>5, F_push

LEMMA F_handBack ==
  ASSUME TInv, FInv, NEW w \in Workers, handBack(w), UNCHANGED ioVars
  PROVE  FInv' /\ FStep
<1> USE ThreadIds
<1>1. /\ pc[w] = "begin" /\ q' = [q EXCEPT ![w] = Append(@, task[w])]
      /\ task' = [task EXCEPT ![w] = NoTask] /\ pc' = [pc EXCEPT ![w] = "pop"]
      /\ UNCHANGED <<state, execute, out, armed>>
  BY DEF handBack, Push, Goto, fiberVars, ioVars
<1>2. task[w] \in Task /\ out[w] = NoTask
  BY <1>1, CurFiber DEF HandPCs, FInv, OutEmpty
<1>3. /\ \A u \in Threads : IF u = w THEN pc'[u] = "pop" ELSE pc'[u] = pc[u]
      /\ \A v \in Workers : v # w => task'[v] = task[v]
      /\ out' = [out EXCEPT ![w] = NoTask]
  BY <1>1, <1>2, FiberTypes
<1>4. Carried[w] = task[w] /\ Carried' = [Carried EXCEPT ![w] = NoTask]
  BY <1>1, <1>2, <1>3 DEF Carried
<1>5. q' = [q EXCEPT ![w] = Append(@, Carried[w])] /\ Carried[w] \in Task
  BY <1>1, <1>2, <1>4
<1> QED BY <1>1, <1>3, <1>4, <1>5, F_push, ZenonT(60)

(* A thread picks up a task of a fiber that exists already.                *)
LEMMA F_carry ==
  ASSUME TInv, FInv, NEW t \in Threads, NEW p \in {"push", "trigger"}, NEW x \in Task,
         x.kind # "cb", state[x.id] \in State,
         x.kind = "event" => armed[x.id] /\ x.n = reg[x.id],
         pc[t] \notin {"count", "begin", "push", "trigger"},
         t \in Workers => \/ pc[t] = "running" /\ p = "push"
                          \/ pc[t] = "handle" /\ p = "trigger",
         pc' = [pc EXCEPT ![t] = p], out' = [out EXCEPT ![t] = x],
         UNCHANGED <<state, execute, q, task, armed>>
  PROVE  FInv' /\ FStep
<1> USE ThreadIds
<1>1. /\ \A u \in Threads : IF u = t THEN pc'[u] = p ELSE pc'[u] = pc[u]
      /\ \A u \in Threads : IF u = t THEN out'[u] = x ELSE out'[u] = out[u]
      /\ \A w \in Workers : cur(w)' = cur(w)
  BY FiberTypes DEF cur
<1>2. Carried[t] = NoTask
  BY DEF FInv, OutEmpty, Carried
<1>3. Carried' = [Carried EXCEPT ![t] = x]
  <2>1. t \in Workers => p \notin {"count", "begin"}
    OBVIOUS
  <2>2. \A u \in Threads : Carried'[u] = IF u = t THEN x ELSE Carried[u]
    BY <1>1, <2>1 DEF Carried
  <2>3. Carried' = [u \in Threads |-> Carried'[u]]
    BY DEF Carried
  <2>4. Carried = [u \in Threads |-> Carried[u]]
    BY DEF Carried
  <2> HIDE DEF Carried
  <2> QED BY <2>2, <2>3, <2>4
<1>4. InPlay(q, Carried)' = InPlay(q, Carried) \cup {x}
  BY <1>2, <1>3, PlayCarry
<1>5. Once(q, Carried)'
  <2>1. \A y : ~SameCb(x, y)
    BY DEF SameCb
  <2>2. Once(q, [Carried EXCEPT ![t] = x])
    BY <2>1, FiberTypes, CarriedType, OnceCarry DEF FInv
  <2> QED BY <1>3, <2>2
<1>6. OutEmpty'
  BY <1>1 DEF FInv, OutEmpty
<1>7. StillHeld
  <2> SUFFICES ASSUME NEW w \in Workers
               PROVE  /\ pc'[w] \in HoldPCs <=> pc[w] \in HoldPCs
                      /\ pc'[w] \in RunningPCs <=> pc[w] \in RunningPCs
                      /\ \A s \in {"locked", "unlock", "requeue"} : pc'[w] = s <=> pc[w] = s
    BY <1>1 DEF StillHeld
  <2>1. CASE w # t
    BY <1>1, <2>1
  <2>2. CASE w = t
    BY <1>1, <2>2 DEF HoldPCs, RunningPCs, IoPCs
  <2> QED BY <2>1, <2>2
<1>8. PlayStep
  <2>1. x.id \in Fibers
    BY DEF Task
  <2> QED BY <1>4, <2>1 DEF PlayStep
<1> QED BY <1>4, <1>5, <1>6, <1>7, <1>8, F_still

LEMMA Claims ==
  ASSUME TInv, NEW t \in Threads, NEW x, MaySubmit(t), Claim(t, x)
  PROVE  /\ pc[t] \in {"main", "running"} /\ (t \in Workers => pc[t] = "running")
         /\ pc' = [pc EXCEPT ![t] = "push"] /\ out' = [out EXCEPT ![t] = x]
         /\ UNCHANGED <<q, task>>
BY ThreadIds DEF MaySubmit, Claim, Goto

LEMMA F_submitFiber ==
  ASSUME TInv, FInv, NEW t \in Threads, NEW f \in Fibers, submitFiber(t, f),
         UNCHANGED ioVars
  PROVE  FInv' /\ FStep
<1>1. /\ MaySubmit(t) /\ Claim(t, FiberOf(f)) /\ state[f] \in State
      /\ UNCHANGED <<state, execute, armed>>
  BY DEF submitFiber, fiberVars, ioVars
<1>2. FiberOf(f) \in Task /\ FiberOf(f).kind = "fiber" /\ FiberOf(f).id = f
  BY DEF FiberOf, Task
<1> DEFINE x == FiberOf(f)
<1>3. x \in Task /\ x.kind \notin {"cb", "event"} /\ state[x.id] \in State
  BY <1>1, <1>2
<1>4. /\ pc[t] \in {"main", "running"} /\ (t \in Workers => pc[t] = "running")
      /\ pc' = [pc EXCEPT ![t] = "push"] /\ out' = [out EXCEPT ![t] = x]
      /\ UNCHANGED <<q, task>>
  BY <1>1, Claims
<1> HIDE DEF x
<1> QED BY <1>1, <1>3, <1>4, F_carry

(* An identity without a fiber gets a callback or a fiber.                 *)
LEMMA F_new ==
  ASSUME TInv, FInv, NEW t \in Threads, NEW f \in Fibers, NEW s \in {"posted", "kReady"},
         state[f] = "none", pc[t] \in {"main", "running"}, t \in Workers => pc[t] = "running",
         NEW x, s = "posted" => x = Cb(f), s = "kReady" => x = FiberOf(f),
         state' = [state EXCEPT ![f] = s], pc' = [pc EXCEPT ![t] = "push"],
         out' = [out EXCEPT ![t] = x], UNCHANGED <<execute, q, task, armed>>
  PROVE  FInv' /\ FStep
<1> USE ThreadIds
<1>1. /\ \A u \in Threads : IF u = t THEN pc'[u] = "push" ELSE pc'[u] = pc[u]
      /\ \A u \in Threads : IF u = t THEN out'[u] = x ELSE out'[u] = out[u]
      /\ \A g \in Fibers : IF g = f THEN state'[g] = s ELSE state'[g] = state[g]
      /\ \A w \in Workers : cur(w)' = cur(w)
      /\ execute' = execute /\ armed' = armed
  BY FiberTypes DEF cur
<1>2. x \in Task /\ x.id = f /\ (x.kind = "cb" <=> s = "posted")
  BY DEF Cb, FiberOf, Task
<1>3. Carried[t] = NoTask
  BY DEF FInv, OutEmpty, Carried
<1>4. Carried' = [Carried EXCEPT ![t] = x]
  <2>1. \A u \in Threads : Carried'[u] = IF u = t THEN x ELSE Carried[u]
    <3> TAKE u \in Threads
    <3>1. CASE u = t
      BY <1>1, <3>1 DEF Carried
    <3>2. CASE u # t
      BY <1>1, <3>2 DEF Carried
    <3> QED BY <3>1, <3>2
  <2>2. Carried' = [u \in Threads |-> Carried'[u]] /\ Carried = [u \in Threads |-> Carried[u]]
    BY DEF Carried
  <2> QED BY <2>1, <2>2
<1>5. InPlay(q, Carried)' = InPlay(q, Carried) \cup {x}
  BY <1>2, <1>3, <1>4, PlayCarry
<1>6. \A y \in InPlay(q, Carried) : y.id # f /\ y.id \in Fibers
  <2>1. \A y \in InPlay(q, Carried) : y.id \in Fibers
    BY PlayTasks DEF Task
  <2> QED BY <2>1 DEF FInv, Known, State
<1>7. Once(q, Carried)'
  <2>1. \A y \in InPlay(q, Carried) : ~SameCb(x, y)
    BY <1>2, <1>6 DEF SameCb
  <2>2. Once(q, [Carried EXCEPT ![t] = x])
    BY <2>1, FiberTypes, CarriedType, OnceCarry DEF FInv
  <2> QED BY <1>4, <2>2
<1>8. OutEmpty'
  BY <1>1 DEF FInv, OutEmpty
<1>9. Known'
  <2>1. s \in State <=> s # "posted"
    BY DEF State
  <2>2. \A y \in InPlay(q, Carried) :
          IF y.kind = "cb" THEN state'[y.id] = "posted" ELSE state'[y.id] \in State
    BY <1>1, <1>6 DEF FInv, Known
  <2>3. \A g \in Fibers : armed[g] => state'[g] \in State
    BY <1>1 DEF FInv, Known, State
  <2>4. IF x.kind = "cb" THEN state'[x.id] = "posted" ELSE state'[x.id] \in State
    BY <1>1, <1>2, <2>1
  <2> QED BY <1>1, <1>5, <2>2, <2>3, <2>4 DEF Known
<1>10. \A w \in Workers :
          /\ pc'[w] \in HoldPCs <=> pc[w] \in HoldPCs
          /\ pc'[w] \in RunningPCs <=> pc[w] \in RunningPCs
          /\ \A p \in {"locked", "unlock", "requeue"} : pc'[w] = p <=> pc[w] = p
  <2> TAKE w \in Workers
  <2>1. CASE w # t
    BY <1>1, <2>1
  <2>2. CASE w = t
    BY <1>1, <2>2 DEF HoldPCs, RunningPCs, IoPCs
  <2> QED BY <2>1, <2>2
<1>11. \A w \in Workers : pc[w] \in HoldPCs => cur(w) # f /\ state'[cur(w)] = state[cur(w)]
  BY <1>1, Owner DEF State
<1>12. FiberExclusive' /\ ExecuteHeld'
  BY <1>1, <1>10 DEF FInv, FiberExclusive, ExecuteHeld
<1>13. StateAt'
  <2>1. RunningPCs \cup {"locked", "unlock", "requeue"} \subseteq HoldPCs
    BY DEF RunningPCs, HoldPCs
  <2>2. \A w \in Workers :
          /\ pc'[w] \in {"locked", "unlock"} => state'[cur(w)] \in {"kReady", "kHold", "kTerm"}
          /\ pc'[w] \in RunningPCs => state'[cur(w)] = "kRunning"
          /\ pc'[w] = "requeue" => state'[cur(w)] = "kReady"
    BY <1>10, <1>11, <2>1 DEF FInv, StateAt
  <2>3. \A g \in Fibers : ~execute[g] => state'[g] # "kRunning"
    BY <1>1 DEF FInv, StateAt
  <2> QED BY <1>1, <2>2, <2>3 DEF StateAt
<1>14. ReadyQueued'
  <2> SUFFICES ASSUME NEW g \in Fibers
               PROVE  /\ state'[g] = "kReady"
                         /\ (~execute[g] \/ \E w \in Workers : pc'[w] = "unlock" /\ cur(w) = g)
                         => FiberOf(g) \in InPlay(q, Carried) \cup {x}
                      /\ state'[g] = "posted" => Cb(g) \in InPlay(q, Carried) \cup {x}
    BY <1>1, <1>5 DEF ReadyQueued
  <2>1. CASE g = f
    BY <1>1, <2>1
  <2>2. CASE g # f
    BY <1>1, <1>10, <2>2 DEF FInv, ReadyQueued
  <2> QED BY <2>1, <2>2
<1>15. FStep
  <2>1. ResumeStep
    BY <1>10 DEF ResumeStep
  <2>2. PlayStep
    BY <1>2, <1>5 DEF PlayStep, Cb, FiberOf
  <2> QED BY <2>1, <2>2 DEF FStep
<1> QED BY <1>7, <1>8, <1>9, <1>12, <1>13, <1>14, <1>15 DEF FInv

LEMMA F_submitCb ==
  ASSUME TInv, FInv, NEW t \in Threads, NEW f \in Fibers, submitCb(t, f), UNCHANGED ioVars
  PROVE  FInv' /\ FStep
<1>1. /\ MaySubmit(t) /\ Claim(t, Cb(f)) /\ state[f] = "none"
      /\ state' = [state EXCEPT ![f] = "posted"] /\ UNCHANGED <<execute, armed>>
  BY DEF submitCb, ioVars
<1> DEFINE x == Cb(f)
           s == "posted"
<1>2. /\ pc[t] \in {"main", "running"} /\ (t \in Workers => pc[t] = "running")
      /\ pc' = [pc EXCEPT ![t] = "push"] /\ out' = [out EXCEPT ![t] = x]
      /\ UNCHANGED <<q, task>>
  BY <1>1, Claims
<1>3. /\ s \in {"posted", "kReady"}
      /\ (s = "posted" => x = Cb(f)) /\ (s = "kReady" => x = FiberOf(f))
      /\ state' = [state EXCEPT ![f] = s]
  BY <1>1
<1> HIDE DEF x, s
<1> QED BY <1>1, <1>2, <1>3, F_new

LEMMA F_submitNew ==
  ASSUME TInv, FInv, NEW t \in Threads, NEW f \in Fibers, submitNew(t, f), UNCHANGED ioVars
  PROVE  FInv' /\ FStep
<1>1. /\ MaySubmit(t) /\ Claim(t, FiberOf(f)) /\ state[f] = "none"
      /\ state' = [state EXCEPT ![f] = "kReady"] /\ UNCHANGED <<execute, armed>>
  BY DEF submitNew, construct, ioVars
<1> DEFINE x == FiberOf(f)
           s == "kReady"
<1>2. /\ pc[t] \in {"main", "running"} /\ (t \in Workers => pc[t] = "running")
      /\ pc' = [pc EXCEPT ![t] = "push"] /\ out' = [out EXCEPT ![t] = x]
      /\ UNCHANGED <<q, task>>
  BY <1>1, Claims
<1>3. /\ s \in {"posted", "kReady"}
      /\ (s = "posted" => x = Cb(f)) /\ (s = "kReady" => x = FiberOf(f))
      /\ state' = [state EXCEPT ![f] = s]
  BY <1>1
<1> HIDE DEF x, s
<1> QED BY <1>1, <1>2, <1>3, F_new

LEMMA F_handleEvent ==
  ASSUME TInv, FInv, NEW w \in Workers, NEW f \in Fibers, handleEvent(w, f)
  PROVE  FInv' /\ FStep
<1>1. pc[w] = "handle" /\ UNCHANGED <<state, execute, q, task, armed>>
  BY DEF handleEvent, fiberVars, chanVars
<1>2. CASE armed[f]
  <2> DEFINE x == Event(f, reg[f])
  <2>1. x \in Task /\ x.kind # "cb" /\ x.id = f /\ x.n = reg[f]
    BY DEF Event, Task, TInv, TypeOK, IoTypeOK
  <2>2. pc' = [pc EXCEPT ![w] = "trigger"] /\ out' = [out EXCEPT ![w] = x]
    BY <1>2 DEF handleEvent, Goto
  <2>3. state[x.id] \in State /\ armed[x.id] /\ x.n = reg[x.id]
    BY <1>2, <2>1 DEF FInv, Known
  <2> HIDE DEF x
  <2> QED BY <1>1, <2>1, <2>2, <2>3, F_carry, ThreadIds
<1>3. CASE ~armed[f]
  <2>1. UNCHANGED <<out, pc>>
    BY <1>3 DEF handleEvent
  <2>2. QuietStep
    BY <1>1, <2>1 DEF QuietStep, SameStage
  <2> QED BY <2>2, F_quiet
<1> QED BY <1>2, <1>3

(* The callback of do_io is spent, and may queue its fiber.                *)
LEMMA F_eventCallback ==
  ASSUME TInv, FInv, NEW w \in Workers, eventCallback(w)
  PROVE  FInv' /\ FStep
<1> USE ThreadIds
<1>1. /\ pc[w] = "begin" /\ task[w].kind = "event" /\ pc' = [pc EXCEPT ![w] = "uncount"]
      /\ UNCHANGED <<state, execute, task, out, armed>>
      /\ q' = [q EXCEPT ![w] = Append(@, FiberOf(cur(w)))] \/ q' = q
  BY DEF eventCallback, Push, Goto, fiberVars
<1>2. /\ \A u \in Threads : IF u = w THEN pc'[u] = "uncount" ELSE pc'[u] = pc[u]
      /\ \A v \in Workers : cur(v)' = cur(v)
  BY <1>1, FiberTypes DEF cur
<1>3. task[w] \in Task /\ cur(w) \in Fibers
  BY <1>1, CurFiber DEF HandPCs
<1>4. out[w] = NoTask /\ Carried[w] = task[w]
  BY <1>1 DEF FInv, OutEmpty, Carried
<1>5. Carried' = [Carried EXCEPT ![w] = NoTask]
  BY <1>1, <1>2, <1>4 DEF Carried
<1>6. OutEmpty'
  BY <1>1, <1>2 DEF FInv, OutEmpty
<1>7. StillHeld
  BY <1>1, <1>2 DEF StillHeld, HoldPCs, RunningPCs, IoPCs
<1>8. state[cur(w)] \in State
  <2>1. task[w] \in InPlay(q, Carried) /\ task[w].id = cur(w)
    BY <1>3, <1>4, PlayIs, NoTaskIsNone DEF cur
  <2> QED BY <1>1, <2>1 DEF FInv, Known
<1> DEFINE D == [Carried EXCEPT ![w] = NoTask]
           x == FiberOf(cur(w))
<1>9. x \in Task /\ x.kind = "fiber" /\ x.id = cur(w)
  BY <1>3 DEF FiberOf, Task
<1>10. /\ D \in [Threads -> Task \cup {NoTask}] /\ Once(q, D)
       /\ InPlay(q, D) \subseteq InPlay(q, Carried)
       /\ InPlay(q, Carried) \subseteq InPlay(q, D) \cup {task[w]}
  <2>1. D \in [Threads -> Task \cup {NoTask}] /\ Once(q, D)
    BY FiberTypes, CarriedType, OnceDrop DEF FInv
  <2>2. /\ InPlay(q, D) \subseteq InPlay(q, Carried)
        /\ InPlay(q, Carried) \subseteq InPlay(q, D) \cup {Carried[w]}
    BY FiberTypes, CarriedType, PlayDrop, Zenon
  <2> QED BY <1>4, <2>1, <2>2
<1>11. Carried' = D
  BY <1>5
<1> HIDE DEF D, x
<1>12. CASE q' = q
  <2>1. Once(q, Carried)' /\ InPlay(q, Carried)' = InPlay(q, D)
    BY <1>10, <1>11, <1>12
  <2>2. NoTask \notin InPlay(q, Carried)
    BY PlayIs
  <2>3. PlayStep
    BY <1>1, <1>2, <1>10, <2>1 DEF PlayStep, Spent
  <2> QED BY <1>1, <1>6, <1>7, <1>10, <2>1, <2>2, <2>3, F_still
<1>13. CASE q' = [q EXCEPT ![w] = Append(@, FiberOf(cur(w)))]
  <2>1. q' = [q EXCEPT ![w] = Append(@, x)]
    BY <1>13 DEF x
  <2>2. Once(q', D)
    BY <1>9, <1>10, <2>1, FiberTypes, OnceAdd
  <2>3. InPlay(q', D) = InPlay(q, D) \cup {x}
    BY <1>9, <2>1, PlayAdd, Zenon
  <2>4. Once(q, Carried)' /\ InPlay(q, Carried)' = InPlay(q, D) \cup {x}
    BY <1>11, <2>2, <2>3
  <2>5. PlayStep
    BY <1>1, <1>2, <1>9, <1>10, <2>4 DEF PlayStep, Spent
  <2> QED BY <1>1, <1>6, <1>7, <1>8, <1>9, <1>10, <2>4, <2>5, F_still
<1> QED BY <1>1, <1>12, <1>13

LEMMA F_body ==
  ASSUME TInv, FInv, NEW w \in Workers, UNCHANGED ioVars,
         bodyReturn(w) \/ bodyYield(w) \/ bodyHold(w)
  PROVE  FInv' /\ FStep
<1>1. /\ pc[w] = "running" /\ UNCHANGED <<execute, q, out, task, armed>>
      /\ \E s \in {"kTerm", "kReady", "kHold"} :
            /\ state' = [state EXCEPT ![cur(w)] = s]
            /\ pc' = [pc EXCEPT ![w] = IF s = "kReady" THEN "requeue" ELSE "unlock"]
  BY DEF bodyReturn, bodyYield, bodyHold, mainFuncReturn, yield, hold, Goto, ioVars
<1>2. PICK s \in {"kTerm", "kReady", "kHold"} :
            /\ state' = [state EXCEPT ![cur(w)] = s]
            /\ pc' = [pc EXCEPT ![w] = IF s = "kReady" THEN "requeue" ELSE "unlock"]
  BY <1>1
<1> DEFINE p == IF s = "kReady" THEN "requeue" ELSE "unlock"
<1>3. /\ pc[w] \in HoldPCs \ {"push"} /\ p \in {"running", "requeue", "unlock"}
      /\ s \in State /\ p # "running"
      /\ (p = "requeue" => s = "kReady") /\ (p = "unlock" => s \in {"kHold", "kTerm"})
  BY <1>1, <1>2 DEF HoldPCs, State
<1>4. pc' = [pc EXCEPT ![w] = p]
  BY <1>2
<1> HIDE DEF p
<1> QED BY <1>1, <1>2, <1>3, <1>4, F_switch

LEMMA F_pendingAddHold ==
  ASSUME TInv, FInv, NEW w \in Workers, pendingAddHold(w)
  PROVE  FInv' /\ FStep
<1> DEFINE p == "unlock"
           s == "kHold"
<1>1. /\ pc[w] \in HoldPCs \ {"push"} /\ UNCHANGED <<execute, q, out, task, armed>>
      /\ state' = [state EXCEPT ![cur(w)] = s] /\ pc' = [pc EXCEPT ![w] = p]
  BY DEF pendingAddHold, hold, Goto, ioVars, HoldPCs, IoPCs
<1>2. /\ p \in {"running", "requeue", "unlock"} /\ p \notin {"running", "requeue"}
      /\ s \in {"kHold", "kTerm"} /\ s \in State
  BY DEF State
<1> HIDE DEF p, s
<1> QED BY <1>1, <1>2, F_switch

LEMMA F_dropTerm ==
  ASSUME TInv, FInv, NEW w \in Workers, dropTerm(w), UNCHANGED ioVars
  PROVE  FInv' /\ FStep
<1> DEFINE p == "unlock"
           s == "kTerm"
<1>1. /\ pc[w] \in HoldPCs \ {"push"} /\ UNCHANGED <<execute, q, out, task, armed>>
      /\ state' = [state EXCEPT ![cur(w)] = s] /\ pc' = [pc EXCEPT ![w] = p]
  BY FiberTypes, CurFiber DEF dropTerm, Goto, ioVars, fiberVars, HoldPCs, HandPCs
<1>2. /\ p \in {"running", "requeue", "unlock"} /\ p \notin {"running", "requeue"}
      /\ s \in {"kHold", "kTerm"} /\ s \in State
  BY DEF State
<1> HIDE DEF p, s
<1> QED BY <1>1, <1>2, F_switch

LEMMA F_resumeFiber ==
  ASSUME TInv, FInv, NEW w \in Workers, resumeFiber(w), UNCHANGED ioVars
  PROVE  FInv' /\ FStep
<1> DEFINE p == "running"
           s == "kRunning"
<1>1. /\ pc[w] \in HoldPCs \ {"push"} /\ UNCHANGED <<execute, q, out, task, armed>>
      /\ state' = [state EXCEPT ![cur(w)] = s] /\ pc' = [pc EXCEPT ![w] = p]
      /\ state[cur(w)] # "kTerm"
  BY DEF resumeFiber, resume, Goto, ioVars, HoldPCs
<1>2. /\ p \in {"running", "requeue", "unlock"} /\ p \notin {"requeue", "unlock"}
      /\ s = "kRunning" /\ s \in State
  BY DEF State
<1> HIDE DEF p, s
<1> QED BY <1>1, <1>2, F_switch

-----------------------------------------------------------------------------
LEMMA F_call ==
  ASSUME TInv, FInv, NEW t \in Threads, call(t), UNCHANGED ioVars
  PROVE  FInv' /\ FStep
BY F_submitPush, Quiet_tickle, Quiet_stopping, F_quiet DEF call

LEMMA F_worker ==
  ASSUME TInv, FInv, NEW w \in Workers, worker(w)
  PROVE  FInv' /\ FStep
<1>1. CASE run(w) /\ UNCHANGED ioVars
  BY <1>1, F_popOwn, F_stealTask, F_beginCb, F_lockFiber, F_handBack, F_dropTerm,
     F_resumeFiber, F_requeue, F_unlockFiber, Quiet_run, Quiet_countOut, F_quiet
     DEF run
<1>2. CASE userBody(w)
  BY <1>2, ThreadIds, F_body, F_submitCb, F_submitNew, F_submitFiber
     DEF userBody, body
<1>3. CASE idle(w)
  BY <1>3, F_handleEvent, F_triggerPush, Quiet_idle, Quiet_kernel, F_quiet DEF idle
<1>4. CASE doIo(w)
  BY <1>4, F_pendingAddHold, F_eventCallback, Quiet_io, F_quiet DEF doIo
<1>5. CASE call(w) /\ UNCHANGED ioVars
  BY <1>5, ThreadIds, F_call
<1>6. CASE writeEventFd(w)
  BY <1>6, ThreadIds, Quiet_tickle, F_quiet
<1> QED BY <1>1, <1>2, <1>3, <1>4, <1>5, <1>6 DEF worker

LEMMA FInvNext == TInv /\ FInv /\ [Next]_vars => FInv' /\ FStep
<1> SUFFICES ASSUME TInv, FInv, [Next]_vars
             PROVE  FInv' /\ FStep
  OBVIOUS
<1>1. ASSUME NEW w \in Workers, worker(w)
      PROVE  FInv' /\ FStep
  BY <1>1, F_worker
<1>2. ASSUME NEW w \in Workers, pollInterrupted(w)
      PROVE  FInv' /\ FStep
  BY <1>2, Quiet_idle, F_quiet
<1>3. CASE mainStart
  BY <1>3, ThreadIds, Quiet_main, F_quiet, F_submitCb, F_submitNew, F_submitFiber
     DEF mainStart, mainSubmit
<1>4. CASE mainFinish
  BY <1>4, ThreadIds, F_call, Quiet_main, Quiet_tickle, F_quiet DEF mainFinish
<1>5. CASE (\E f \in Fibers : arrive(f)) \/ UNCHANGED vars
  BY <1>5, Quiet_kernel, F_quiet
<1> QED BY <1>1, <1>2, <1>3, <1>4, <1>5 DEF Next

LEMMA FInvAlways == Spec => [](TInv /\ FInv)
<1>1. TInv /\ FInv /\ [Next]_vars => TInv' /\ FInv'
  BY TInvNext, FInvNext
<1> QED BY <1>1, TInvInit, FInvInit, PTL DEF Spec

(* Mutual exclusion on the stack of a fiber: whatever is submitted how     *)
(* often and by whom, stolen, handed back or woken twice, no two workers   *)
(* are between tryLock and unlock, or inside the wrapper that              *)
(* Scheduler::run builds, with the same fiber, and the flag is set for as  *)
(* long as either is.                                                      *)
THEOREM StackExclusive == Spec => []FiberExclusive
<1>1. TInv /\ FInv => FiberExclusive
  BY DEF FInv
<1> QED BY <1>1, FInvAlways, PTL

(* The assertion of Fiber::resume never fires: every switch to a fiber     *)
(* finds it ready or held.                                                 *)
THEOREM ResumeAssertHolds == Spec => ResumeAssert
<1>1. TInv /\ FInv /\ [Next]_vars => [ResumeStep]_vars
  BY FInvNext DEF FStep
<1>2. Spec => [][ResumeStep]_vars
  BY <1>1, FInvAlways, PTL DEF Spec
<1> QED BY <1>2 DEF ResumeAssert, ResumeStep

(* No ready fiber is forgotten: unless a worker has it, a task for it is   *)
(* in a queue or in the hands of a thread, across stealing, failed         *)
(* tryLocks and requeueing.                                                *)
THEOREM ReadyNotStranded == Spec => []NotStranded
<1>1. TInv /\ FInv => NotStranded
  <2> SUFFICES ASSUME TInv, FInv, NEW f \in Fibers, state[f] = "kReady", ~execute[f]
               PROVE  InFlight(FiberOf(f))
    BY DEF NotStranded
  <2> DEFINE x == FiberOf(f)
  <2>1. x \in InPlay(q, Carried)
    BY DEF FInv, ReadyQueued
  <2> HIDE DEF x
  <2>2. (\E w \in Workers : x \in Range(q[w])) \/ (\E t \in Threads : x = Carried[t])
    BY <2>1, PlayIs
  <2>3. InFlight(x)
    BY <2>2 DEF InFlight, Carried
  <2> QED BY <2>3 DEF x
<1> QED BY <1>1, FInvAlways, PTL

-----------------------------------------------------------------------------
(***************************************************************************)
(* When stop() has returned, no submitted task is left behind              *)
(*                                                                         *)
(* A worker that leaves has looked into every queue once more, but one     *)
(* after the other, and its try_to_lock may fail on a queue that is not    *)
(* empty.  The invariant Watched says that a queue with a task always has  *)
(* a thread that will still look into it: whoever makes the try_to_lock    *)
(* fail is one, and so is whoever pushes.                                  *)
(***************************************************************************)

(* Worker t will look into queue v before it leaves: unless it is on its   *)
(* last round it will look into all of them.                               *)
WillLook(t, v) ==
  /\ pc[t] \notin {"off", "exit"}
  /\ pc[t] = "steal" /\ idleTerm[t] => \E i \in scan[t] .. (N - 1) : (t + i) % N = v

(* The owner will look into queue v before it joins the workers.           *)
MainWillLook(v) ==
  /\ site[Main] # "final"
  /\ pc[Main] # "done"
  /\ pc[Main] = "stop_queue" => scan[Main] <= v

Watched ==
  \A v \in Workers : q[v] # <<>> =>
     MainWillLook(v) \/ \E t \in Workers : WillLook(t, v)

(* Before the first init() there are no tasks and nothing to stop.         *)
NotStarted ==
  (\E w \in Workers : pc[w] = "off") =>
     /\ \A w \in Workers : pc[w] = "off" /\ q[w] = <<>>
     /\ stop /\ pc[Main] \in {"main", "done"}

(* where the owner is in stop()                                            *)
OwnerAt ==
  /\ pc[Main] \in {"main", "push", "tickle", "wake", "join", "done"} \cup StoppingPCs
  /\ pc[Main] \in StoppingPCs => site[Main] = "stop"
  /\ pc[Main] = "join" => site[Main] = "final"
  /\ pc[Main] \in {"main", "push"} => site[Main] = "submit"
  /\ site[Main] = "submit" /\ stop /\ pc[Main] # "done" => \A w \in Workers : pc[w] = "off"
  /\ pc[Main] = "done" => \/ \A w \in Workers : pc[w] = "off"
                          \/ \A w \in Workers : pc[w] = "exit"

(* The inductive invariant, on top of TInv.                                *)
SInv == Watched /\ NotStarted /\ OwnerAt

-----------------------------------------------------------------------------
(* Stealing visits every other queue.                                      *)
LEMMA Wraps == \A v \in Workers : v % N = v /\ (v + N) % N = v
<1> SUFFICES ASSUME NEW v \in Workers
             PROVE  v % N = v /\ (v + N) % N = v
  OBVIOUS
<1>1. v \in Nat /\ N \in Nat /\ N > 0 /\ v < N
  BY NAssumption DEF Workers
<1>2. v % N = v
  BY <1>1
<1>3. (v + N) % N = v
  BY <1>1
<1> QED BY <1>2, <1>3

LEMMA Visits ==
  ASSUME NEW w \in Workers, NEW v \in Workers, v # w
  PROVE  \E i \in 1 .. (N - 1) : (w + i) % N = v
<1>1. v \in Nat /\ w \in Nat /\ N \in Nat /\ N > 0 /\ v < N /\ w < N
  BY NAssumption DEF Workers
<1>2. CASE w < v
  <2>1. v - w \in 1 .. (N - 1) /\ w + (v - w) = v
    BY <1>1, <1>2
  <2> QED BY <2>1, Wraps
<1>3. CASE v < w
  <2>1. (v + N) - w \in 1 .. (N - 1) /\ w + ((v + N) - w) = v + N
    BY <1>1, <1>3
  <2> QED BY <2>1, Wraps
<1> QED BY <1>1, <1>2, <1>3

LEMMA SInvInit == Init => SInv
<1> SUFFICES ASSUME Init PROVE SInv
  OBVIOUS
<1>1. /\ \A w \in Workers : pc[w] = "off" /\ q[w] = <<>>
      /\ pc[Main] = "main" /\ site[Main] = "submit" /\ stop
  BY ThreadIds DEF Init, SchedInit
<1> QED BY <1>1 DEF SInv, Watched, NotStarted, OwnerAt, StoppingPCs

-----------------------------------------------------------------------------
(* A worker that is not on its last round will look into every queue,      *)
(* whatever it did to them.                                                *)
LEMMA S_stays ==
  ASSUME TInv, SInv, NEW w \in Workers, NEW p \in PCs \ {"off", "exit", "steal"},
         pc[w] \notin {"off", "exit"}, pc' = [pc EXCEPT ![w] = p], stop' = stop,
         site'[Main] = site[Main]
  PROVE  SInv'
<1>1. \A u \in Threads : IF u = w THEN pc'[u] = p ELSE pc'[u] = pc[u]
  BY FiberTypes, ThreadIds
<1>2. Watched'
  <2>1. \A v : WillLook(w, v)'
    BY <1>1, ThreadIds DEF WillLook
  <2> QED BY <2>1 DEF Watched
<1>3. pc[Main] # "done" /\ \A v \in Workers : pc[v] # "off"
  BY DEF SInv, NotStarted, OwnerAt
<1>4. NotStarted'
  BY <1>1, <1>3, ThreadIds DEF NotStarted
<1>5. OwnerAt'
  BY <1>1, <1>3, ThreadIds DEF SInv, OwnerAt, StoppingPCs
<1> QED BY <1>2, <1>4, <1>5 DEF SInv

(* Whoever may be inside the critical section of a queue will look into it *)
(* again, or is looking.                                                   *)
LEMMA LockerLooks ==
  ASSUME TInv, SInv, NEW t \in Threads, NEW v \in Workers, Locking(t, v)
  PROVE  (t = Main /\ MainWillLook(v)) \/ (t \in Workers /\ WillLook(t, v))
<1>1. CASE t \in Workers
  <2>1. pc[t] \notin {"off", "exit"}
    BY DEF Locking
  <2>2. CASE pc[t] = "steal"
    <3>1. (t + scan[t]) % N = v
      BY <2>2 DEF Locking, Victim
    <3>2. scan[t] \in scan[t] .. (N - 1)
      BY <1>1, NAssumption, ThreadIds DEF TInv, TypeOK, SchedTypeOK, ThreadTypeOK, Workers
    <3> QED BY <1>1, <2>1, <3>1, <3>2 DEF WillLook
  <2> QED BY <1>1, <2>1, <2>2 DEF WillLook
<1>2. CASE t = Main
  <2>1. v \in Nat /\ v <= v
    BY NAssumption DEF Workers
  <2>2. \/ pc[Main] = "push"
        \/ pc[Main] = "stop_queue" /\ scan[Main] = v
    BY <1>2, ThreadIds DEF Locking, SInv, OwnerAt, StoppingPCs
  <2> QED BY <1>2, <2>1, <2>2 DEF MainWillLook, SInv, OwnerAt, StoppingPCs
<1> QED BY <1>1, <1>2, NAssumption DEF Threads, Workers, Main

(* The next queue of stealTask, or the end of the round.                   *)
LEMMA S_stealFrom ==
  ASSUME TInv, SInv, NEW w \in Workers, UNCHANGED ioVars, popNone(w) \/ stealPass(w)
  PROVE  SInv'
<1> USE ThreadIds
<1> DEFINE i == IF pc[w] = "pop" THEN 1 ELSE scan[w] + 1
<1>1. /\ pc[w] \in {"pop", "steal"} /\ UNCHANGED <<q, stop, site, idleTerm>>
      /\ scan' = [scan EXCEPT ![w] = IF i < N THEN i ELSE 0]
      /\ pc' = [pc EXCEPT ![w] = IF i < N THEN "steal"
                                 ELSE IF idleTerm[w] THEN "exit" ELSE "idle"]
  <2>1. pc[w] \in {"pop", "steal"} /\ StealFrom(w, i)
    BY DEF popNone, stealPass
  <2> QED BY <2>1 DEF StealFrom, Goto
<1> HIDE DEF i
<1>2. /\ \A u \in Threads : u # w => pc'[u] = pc[u] /\ scan'[u] = scan[u]
      /\ IF i < N THEN pc'[w] = "steal" /\ scan'[w] = i
         ELSE pc'[w] = IF idleTerm[w] THEN "exit" ELSE "idle"
  <2>1. pc \in [Threads -> PCs] /\ scan \in [Threads -> Workers]
    BY DEF TInv, TypeOK, SchedTypeOK, ThreadTypeOK
  <2> QED BY <1>1, <2>1
<1>3. N \in Nat /\ scan[w] \in Nat /\ scan[w] < N /\ i \in Nat
  <2>1. N \in Nat \ {0} /\ scan[w] \in 0 .. (N - 1)
    BY NAssumption DEF TInv, TypeOK, SchedTypeOK, ThreadTypeOK, Workers
  <2>2. N \in Nat /\ scan[w] \in Nat /\ scan[w] < N
    BY <2>1
  <2> QED BY <2>2 DEF i
<1>4. Watched'
  <2> SUFFICES ASSUME NEW v \in Workers, q[v] # <<>>
               PROVE  MainWillLook(v)' \/ \E t \in Workers : WillLook(t, v)'
    BY <1>1 DEF Watched
  <2>1. /\ MainWillLook(v) => MainWillLook(v)'
        /\ \A t \in Workers : t # w /\ WillLook(t, v) => WillLook(t, v)'
    BY <1>1, <1>2 DEF MainWillLook, WillLook
  <2>2. CASE ~idleTerm[w]
    <3>1. WillLook(w, v)'
      BY <1>1, <1>2, <2>2 DEF WillLook
    <3> QED BY <3>1
  <2>3. CASE idleTerm[w] /\ popNone(w)
    <3>1. v # w /\ i = 1
      BY <2>3 DEF popNone, i
    <3>2. PICK j \in 1 .. (N - 1) : (w + j) % N = v
      BY <3>1, Visits
    <3>3. i < N /\ j \in i .. (N - 1)
      BY <1>3, <3>1
    <3>4. WillLook(w, v)'
      BY <1>2, <3>2, <3>3 DEF WillLook
    <3> QED BY <3>4
  <2>4. CASE idleTerm[w] /\ stealPass(w) /\ WillLook(w, v)
    <3>1. PICK j \in scan[w] .. (N - 1) : (w + j) % N = v
      BY <2>4 DEF WillLook, stealPass
    <3>2. i = scan[w] + 1 /\ j \in Nat
      BY <1>3, <2>4 DEF stealPass, i
    <3>3. CASE j = scan[w]
      <4>1. Victim(w) = v
        BY <3>1, <3>3 DEF Victim
      <4>2. PICK t \in Threads \ {w} : Locking(t, v)
        BY <2>4, <4>1 DEF stealPass
      <4> QED BY <2>1, <4>2, LockerLooks
    <3>4. CASE j # scan[w]
      <4>1. i < N /\ j \in i .. (N - 1)
        BY <1>3, <3>2, <3>4
      <4>2. WillLook(w, v)'
        BY <1>2, <3>1, <4>1 DEF WillLook
      <4> QED BY <4>2
    <3> QED BY <3>3, <3>4
  <2>5. CASE ~WillLook(w, v)
    BY <2>1, <2>5 DEF SInv, Watched
  <2> QED BY <2>2, <2>3, <2>4, <2>5
<1>5. pc[Main] # "done" /\ \A v \in Workers : pc[v] # "off"
  BY <1>1 DEF SInv, NotStarted, OwnerAt
<1>6. NotStarted'
  BY <1>2, <1>5 DEF NotStarted
<1>7. OwnerAt'
  BY <1>1, <1>2, <1>5 DEF SInv, OwnerAt, StoppingPCs
<1> QED BY <1>4, <1>6, <1>7 DEF SInv

LEMMA S_worker ==
  ASSUME TInv, SInv, NEW w \in Workers, worker(w) \/ pollInterrupted(w)
  PROVE  SInv'
<1> USE ThreadIds
<1> DEFINE Stays == /\ pc[w] \notin {"off", "exit"} /\ stop' = stop /\ site'[Main] = site[Main]
                    /\ \E p \in PCs \ {"off", "exit", "steal"} : pc' = [pc EXCEPT ![w] = p]
<1>1. Stays => SInv'
  BY S_stays
<1>2. site \in [Threads -> {"submit", "stop", "final", "pre", "post"}] /\ w # Main
  BY DEF TInv, TypeOK, SchedTypeOK, ThreadTypeOK
<1>3. CASE run(w) /\ UNCHANGED ioVars
  <2>1. CASE popNone(w) \/ stealPass(w)
    BY <1>3, <2>1, S_stealFrom
  <2>2. CASE ~popNone(w) /\ ~stealPass(w)
    <3>1. Stays
      BY <1>3, <2>2, PcNames
         DEF run, popOwn, stealTask, countIn, beginCb, lockFiber, handBack, dropTerm,
             resumeFiber, requeue, unlockFiber, countOut, idleQuit, Goto
    <3> QED BY <1>1, <3>1
  <2> QED BY <2>1, <2>2
<1>4. CASE userBody(w)
  <2>1. Stays
    BY <1>4, PcNames DEF userBody, body, bodyReturn, bodyYield, bodyHold, submitCb,
                         submitNew, submitFiber, Claim, Goto
  <2> QED BY <1>1, <2>1
<1>5. CASE idle(w) \/ pollInterrupted(w)
  <2>1. CASE readEventFd(w) \/ \E f \in Fibers : handleEvent(w, f) /\ ~armed[f]
    <3>1. pc' = pc /\ pc[w] = "handle" /\ UNCHANGED <<stop, site>>
      BY <2>1 DEF readEventFd, schedVars, handleEvent
    <3>2. pc' = [pc EXCEPT ![w] = "handle"]
      BY <3>1, FiberTypes
    <3> QED BY <1>1, <3>1, <3>2, PcNames
  <2>2. CASE ~readEventFd(w) /\ ~\E f \in Fibers : handleEvent(w, f) /\ ~armed[f]
    <3>1. Stays
      BY <1>2, <1>5, <2>2, PcNames
         DEF idle, idleEnter, hasTask, hasNoTask, poll, pollInterrupted, idleWoke,
             handleEvent, triggerPush, idleHandled, Goto
    <3> QED BY <1>1, <3>1
  <2> QED BY <2>1, <2>2
<1>6. CASE doIo(w)
  <2>1. Stays
    BY <1>6, PcNames DEF doIo, ioEnter, ioRetry, SysFunc, registerEvent, pendingAddHold,
                         unregisterEvent, pendingSub, eventCallback, Goto, IoPCs
  <2> QED BY <1>1, <2>1
<1>7. CASE submitPush(w) \/ tickle(w) \/ writeEventFd(w)
  <2>1. /\ UNCHANGED <<stop, site>> /\ pc[w] \in {"push", "tickle", "wake"}
        /\ \/ \E p \in {"tickle", "wake"} : pc' = [pc EXCEPT ![w] = p]
           \/ TickleReturn(w) \/ TickleLoop(w)
    BY <1>7 DEF submitPush, tickle, writeEventFd, wakeCall, Goto
  <2>2. \E p \in {"running", "tickle", "wake"} : pc' = [pc EXCEPT ![w] = p]
    BY <2>1, TickleEnds
  <2> QED BY <1>1, <2>1, <2>2, PcNames
<1>8. CASE stoppingFlags(w) \/ stoppingPending(w) \/ stoppingQueue(w)
  <2>1. pc[w] \in StoppingPCs /\ site[w] \in {"pre", "post"}
    BY <1>8, StoppingSteps DEF TInv, Sites
  <2>2. CASE \E p \in {"stop_pending", "stop_queue"}, j \in Workers : StoppingNext(w, p, j)
    <3>1. UNCHANGED <<stop, site>>
          /\ \E p \in {"stop_pending", "stop_queue"} : pc' = [pc EXCEPT ![w] = p]
      BY <2>2 DEF StoppingNext, Goto
    <3> QED BY <1>1, <2>1, <3>1, PcNames DEF StoppingPCs
  <2>3. CASE \E b \in BOOLEAN : StoppingReturn(w, b)
    <3>1. stop' = stop /\ site'[Main] = site[Main]
          /\ \E p \in {"quit", "has_task", "pop"} : pc' = [pc EXCEPT ![w] = p]
      BY <1>2, <2>1, <2>3 DEF StoppingReturn, Goto
    <3> QED BY <1>1, <2>1, <3>1, PcNames DEF StoppingPCs
  <2> QED BY <1>8, <2>2, <2>3, StoppingSteps
<1> QED BY <1>3, <1>4, <1>5, <1>6, <1>7, <1>8 DEF worker, call

-----------------------------------------------------------------------------
(* A step of the owner, in two cases: it is going to look into every queue *)
(* after the step, or the queues are left alone and none with a task is    *)
(* passed over.                                                            *)
LEMMA S_main ==
  ASSUME TInv, SInv, NEW p, pc' = [pc EXCEPT ![Main] = p],
         UNCHANGED <<idleTerm>>, \A w \in Workers : scan'[w] = scan[w],
         OwnerAt', NotStarted',
         \/ site'[Main] # "final" /\ p \notin {"done", "stop_queue"}
         \/ /\ q' = q
            /\ \A v \in Workers : q[v] # <<>> /\ MainWillLook(v) => MainWillLook(v)'
  PROVE  SInv'
<1>1. \A u \in Threads : IF u = Main THEN pc'[u] = p ELSE pc'[u] = pc[u]
  BY FiberTypes, ThreadIds
<1>2. \A w \in Workers : \A v : WillLook(w, v) => WillLook(w, v)'
  BY <1>1, ThreadIds DEF WillLook
<1>3. CASE site'[Main] # "final" /\ p \notin {"done", "stop_queue"}
  <2>1. \A v : MainWillLook(v)'
    BY <1>1, <1>3, ThreadIds DEF MainWillLook
  <2> QED BY <2>1 DEF SInv, Watched
<1>4. CASE /\ q' = q
           /\ \A v \in Workers : q[v] # <<>> /\ MainWillLook(v) => MainWillLook(v)'
  BY <1>2, <1>4 DEF SInv, Watched
<1> QED BY <1>3, <1>4

LEMMA S_mainStart ==
  ASSUME TInv, SInv, mainStart
  PROVE  SInv'
<1> USE ThreadIds
<1>0. /\ pc \in [Threads -> PCs] /\ site \in [Threads -> {"submit", "stop", "final", "pre", "post"}]
  BY DEF TInv, TypeOK, SchedTypeOK, ThreadTypeOK
<1>1. CASE init
  <2>1. /\ pc'[Main] = "main" /\ pc[Main] = "main" /\ ~stop' /\ UNCHANGED <<q, site>>
        /\ \A w \in Workers : pc[w] = "off" /\ pc'[w] = "pop"
    BY <1>1 DEF init
  <2>2. \A w \in Workers : q[w] = <<>>
    BY <2>1 DEF SInv, NotStarted
  <2> QED BY <2>1, <2>2 DEF SInv, Watched, NotStarted, OwnerAt, StoppingPCs
<1>2. CASE mainSubmit
  <2>1. /\ pc[Main] = "main" /\ pc[0] # "off" /\ pc' = [pc EXCEPT ![Main] = "push"]
        /\ UNCHANGED <<q, stop, site, scan, idleTerm>>
    BY <1>2 DEF mainSubmit, submitCb, submitNew, submitFiber, MaySubmit, Claim, Goto
  <2>2. pc'[Main] = "push" /\ \A w \in Workers : pc'[w] = pc[w]
    BY <1>0, <2>1
  <2>3. NotStarted' /\ OwnerAt' /\ site'[Main] = "submit"
    BY <2>1, <2>2 DEF SInv, NotStarted, OwnerAt, StoppingPCs
  <2> QED BY <2>1, <2>3, S_main
<1>3. CASE stopCall
  <2>1. /\ pc[Main] = "main" /\ ~stop /\ stop' /\ pc' = [pc EXCEPT ![Main] = "tickle"]
        /\ site' = [site EXCEPT ![Main] = "stop"] /\ UNCHANGED <<q, scan, idleTerm>>
    BY <1>3 DEF stopCall, Goto
  <2>2. pc'[Main] = "tickle" /\ site'[Main] = "stop" /\ \A w \in Workers : pc'[w] = pc[w]
    BY <1>0, <2>1
  <2>3. NotStarted' /\ OwnerAt'
    BY <2>1, <2>2 DEF SInv, NotStarted, OwnerAt, StoppingPCs
  <2> QED BY <2>1, <2>2, <2>3, S_main
<1>4. CASE stopAgain
  <2>1. /\ pc[Main] = "main" /\ stop /\ pc' = [pc EXCEPT ![Main] = "done"]
        /\ UNCHANGED <<q, stop, site, scan, idleTerm>>
    BY <1>4 DEF stopAgain, Goto
  <2>2. pc'[Main] = "done" /\ \A w \in Workers : pc'[w] = pc[w]
    BY <1>0, <2>1
  <2>3. \A w \in Workers : pc[w] = "off" /\ q[w] = <<>>
    BY <2>1 DEF SInv, NotStarted, OwnerAt
  <2> QED BY <2>1, <2>2, <2>3 DEF SInv, Watched, NotStarted, OwnerAt, StoppingPCs
<1> QED BY <1>1, <1>2, <1>3, <1>4 DEF mainStart

LEMMA S_mainTickle ==
  ASSUME TInv, SInv, submitPush(Main) \/ tickle(Main) \/ writeEventFd(Main)
  PROVE  SInv'
<1> USE ThreadIds
<1>1. /\ pc[Main] \in {"push", "tickle", "wake"}
      /\ UNCHANGED <<stop, site, scan, idleTerm>>
      /\ pc[Main] # "push" => q' = q
      /\ \/ \E p \in {"tickle", "wake"} : pc' = [pc EXCEPT ![Main] = p]
         \/ TickleReturn(Main) \/ TickleLoop(Main)
  BY DEF submitPush, tickle, writeEventFd, wakeCall, Goto
<1>2. PICK p \in {"main", "tickle", "wake", "stopping", "join"} :
         /\ pc' = [pc EXCEPT ![Main] = p]
         /\ p = "main" => site[Main] = "submit"
         /\ p = "stopping" => site[Main] = "stop"
         /\ p = "join" => site[Main] = "final"
  BY <1>1 DEF TickleReturn, TickleLoop, Goto
<1>3. pc'[Main] = p /\ \A w \in Workers : pc'[w] = pc[w]
  BY <1>2, FiberTypes
<1>4. pc[0] # "off" /\ \A w \in Workers : pc[w] # "off"
  BY <1>1 DEF SInv, NotStarted
<1>5. NotStarted' /\ OwnerAt'
  BY <1>1, <1>2, <1>3, <1>4 DEF SInv, NotStarted, OwnerAt, StoppingPCs
<1>6. CASE site[Main] = "final"
  <2>1. q' = q /\ \A v : ~MainWillLook(v)
    BY <1>1, <1>6 DEF SInv, OwnerAt, MainWillLook
  <2> QED BY <1>1, <1>2, <1>5, <2>1, S_main
<1>7. CASE site[Main] # "final"
  <2>1. p \notin {"done", "stop_queue"} /\ site'[Main] # "final"
    BY <1>1, <1>7
  <2> QED BY <1>1, <1>2, <1>5, <2>1, S_main
<1> QED BY <1>6, <1>7

LEMMA S_mainStopping ==
  ASSUME TInv, SInv,
         stoppingFlags(Main) \/ stoppingPending(Main) \/ stoppingQueue(Main)
  PROVE  SInv'
<1> USE ThreadIds
<1>1. pc[Main] \in StoppingPCs /\ site[Main] = "stop"
  BY StoppingSteps DEF SInv, OwnerAt
<1>2. /\ pc \in [Threads -> PCs] /\ scan \in [Threads -> Workers] /\ scan[Main] \in Nat
      /\ site \in [Threads -> {"submit", "stop", "final", "pre", "post"}] /\ N \in Nat
  <2>1. /\ pc \in [Threads -> PCs] /\ scan \in [Threads -> Workers]
        /\ site \in [Threads -> {"submit", "stop", "final", "pre", "post"}]
    BY DEF TInv, TypeOK, SchedTypeOK, ThreadTypeOK
  <2>2. N \in Nat /\ \A v \in Workers : v \in Nat
    BY NAssumption DEF Workers
  <2> QED BY <2>1, <2>2
<1>3. \A w \in Workers : pc[w] # "off"
  BY <1>1 DEF SInv, NotStarted, StoppingPCs
<1>4. /\ UNCHANGED <<q, stop, idleTerm>>
      /\ \/ \E p \in {"stop_pending", "stop_queue"}, j \in Workers :
               StoppingNext(Main, p, j)
         \/ \E b \in BOOLEAN : StoppingReturn(Main, b)
  BY StoppingSteps DEF StoppingNext, StoppingReturn
<1>5. ASSUME NEW p \in {"stop_pending", "stop_queue"}, NEW j \in Workers,
             StoppingNext(Main, p, j),
             p = "stop_queue" => \A v \in Workers : q[v] # <<>> /\ MainWillLook(v) => j <= v
      PROVE  SInv'
  <2>1. /\ pc' = [pc EXCEPT ![Main] = p] /\ scan' = [scan EXCEPT ![Main] = j]
        /\ site' = site
    BY <1>5 DEF StoppingNext, Goto
  <2>2. /\ pc'[Main] = p /\ scan'[Main] = j
        /\ \A w \in Workers : pc'[w] = pc[w] /\ scan'[w] = scan[w]
    BY <1>2, <2>1
  <2>3. NotStarted' /\ OwnerAt'
    BY <1>1, <1>3, <1>4, <2>1, <2>2 DEF SInv, NotStarted, OwnerAt, StoppingPCs
  <2>4. \A v \in Workers : q[v] # <<>> /\ MainWillLook(v) => MainWillLook(v)'
    BY <1>1, <1>5, <2>1, <2>2 DEF MainWillLook
  <2> QED BY <1>4, <2>1, <2>2, <2>3, <2>4, S_main
<1>6. ASSUME NEW b \in BOOLEAN, StoppingReturn(Main, b),
             b => \A v \in Workers : q[v] # <<>> => ~MainWillLook(v)
      PROVE  SInv'
  <2>1. /\ pc' = [pc EXCEPT ![Main] = "tickle"] /\ scan' = [scan EXCEPT ![Main] = 0]
        /\ site' = [site EXCEPT ![Main] = IF b THEN "final" ELSE "stop"]
    BY <1>1, <1>6 DEF StoppingReturn, Goto
  <2>2. /\ pc'[Main] = "tickle" /\ site'[Main] = IF b THEN "final" ELSE "stop"
        /\ \A w \in Workers : pc'[w] = pc[w] /\ scan'[w] = scan[w]
    BY <1>2, <2>1
  <2>3. NotStarted' /\ OwnerAt'
    BY <1>1, <1>3, <1>4, <2>2 DEF SInv, NotStarted, OwnerAt, StoppingPCs
  <2>4. CASE b
    BY <1>4, <1>6, <2>1, <2>2, <2>3, <2>4, S_main
  <2>5. CASE ~b
    <3>1. site'[Main] # "final" /\ "tickle" \notin {"done", "stop_queue"}
      BY <2>2, <2>5
    <3> QED BY <1>4, <2>1, <2>2, <2>3, <3>1, S_main
  <2> QED BY <2>4, <2>5
<1>7. CASE stoppingFlags(Main)
  BY <1>5, <1>6, <1>7 DEF stoppingFlags
<1>8. CASE stoppingPending(Main)
  <2>1. \A v \in Workers : 0 <= v
    BY DEF Workers
  <2> QED BY <1>5, <1>6, <1>8, <2>1 DEF stoppingPending
<1>9. CASE stoppingQueue(Main)
  <2>1. \A v \in Workers : v \in Nat /\ v < N
    BY <1>2 DEF Workers
  <2>2. \A v \in Workers : MainWillLook(v) => scan[Main] <= v
    BY <1>9 DEF stoppingQueue, MainWillLook
  <2>3. CASE q[scan[Main]] = <<>> /\ scan[Main] + 1 < N
    <3>1. scan[Main] + 1 \in Workers
      BY <1>2, <2>3 DEF Workers
    <3>2. \A v \in Workers : q[v] # <<>> /\ MainWillLook(v) => scan[Main] + 1 <= v
      BY <1>2, <2>1, <2>2, <2>3
    <3> QED BY <1>5, <1>9, <2>3, <3>1, <3>2 DEF stoppingQueue
  <2>4. CASE ~(q[scan[Main]] = <<>> /\ scan[Main] + 1 < N)
    <3>1. q[scan[Main]] = <<>> => \A v \in Workers : q[v] # <<>> => ~MainWillLook(v)
      BY <1>2, <2>1, <2>2, <2>4
    <3>2. StoppingReturn(Main, q[scan[Main]] = <<>>)
      BY <1>9, <2>4 DEF stoppingQueue
    <3> QED BY <1>6, <3>1, <3>2
  <2> QED BY <2>3, <2>4
<1> QED BY <1>7, <1>8, <1>9

-----------------------------------------------------------------------------
LEMMA SInvNext == TInv /\ SInv /\ [Next]_vars => SInv'
<1> SUFFICES ASSUME TInv, SInv, [Next]_vars
             PROVE  SInv'
  OBVIOUS
<1>1. ASSUME NEW w \in Workers, worker(w) \/ pollInterrupted(w)
      PROVE  SInv'
  BY <1>1, S_worker
<1>2. CASE mainStart
  BY <1>2, S_mainStart
<1>3. CASE join
  <2>1. /\ pc[Main] = "join" /\ pc' = [pc EXCEPT ![Main] = "done"]
        /\ \A w \in Workers : pc[w] = "exit"
        /\ UNCHANGED <<q, stop, site, scan, idleTerm>>
    BY <1>3 DEF join, Goto
  <2>2. pc'[Main] = "done" /\ \A w \in Workers : pc'[w] = "exit"
    BY <2>1, FiberTypes, ThreadIds
  <2>3. site[Main] = "final"
    BY <2>1 DEF SInv, OwnerAt
  <2>4. NotStarted' /\ OwnerAt'
    BY <2>1, <2>2, <2>3 DEF NotStarted, OwnerAt, StoppingPCs
  <2>5. \A v : ~MainWillLook(v)
    BY <2>3 DEF MainWillLook
  <2> QED BY <2>1, <2>4, <2>5, S_main
<1>4. CASE call(Main) \/ writeEventFd(Main)
  BY <1>4, S_mainTickle, S_mainStopping DEF call
<1>5. CASE (\E f \in Fibers : arrive(f)) \/ UNCHANGED vars
  <2>1. UNCHANGED <<pc, q, stop, site, scan, idleTerm>>
    BY <1>5 DEF arrive, vars, schedVars
  <2> QED BY <2>1 DEF SInv, Watched, NotStarted, OwnerAt, WillLook, MainWillLook
<1> QED BY <1>1, <1>2, <1>3, <1>4, <1>5 DEF Next, mainFinish

LEMMA SInvAlways == Spec => []SInv
<1> QED BY TInvAlways, SInvInit, SInvNext, PTL DEF Spec

(* When stop() has returned, every task that was ever submitted has been   *)
(* run to its end or to a hold(): no queue has a task, and no fiber is     *)
(* posted, ready or running, although stopping() and the last round of     *)
(* every worker look at the queues one after the other, and a try_to_lock  *)
(* may fail.                                                               *)
THEOREM StopLeavesNoTask == Spec => []StopDrains
<1>1. TInv /\ FInv /\ SInv => StopDrains
  <2> SUFFICES ASSUME TInv, FInv, SInv, pc[Main] = "done"
               PROVE  /\ \A w \in Workers : q[w] = <<>>
                      /\ \A f \in Fibers : state[f] \in {"none", "kHold", "kTerm"}
    BY DEF StopDrains
  <2>1. \A w \in Workers : pc[w] \in {"off", "exit"}
    BY DEF SInv, OwnerAt
  <2>2. \A w \in Workers : q[w] = <<>>
    BY <2>1 DEF SInv, Watched, WillLook, MainWillLook
  <2>3. \A t \in Threads : Carried[t] = NoTask
    <3>1. \A t \in Threads : t \in Workers \/ t = Main
      BY NAssumption DEF Threads, Workers, Main
    <3>2. \A t \in Threads : out[t] = NoTask
      BY <2>1, <3>1 DEF FInv, OutEmpty
    <3> QED BY <2>1, <3>2 DEF Carried
  <2>4. \A x : x \notin InPlay(q, Carried)
    <3>1. \A w \in Workers : Range(q[w]) = {}
      BY <2>2 DEF Range
    <3> QED BY <2>3, <3>1, PlayIs
  <2>5. \A f \in Fibers : ~execute[f]
    BY <2>1, FiberTypes DEF FInv, ExecuteHeld, HoldPCs, IoPCs
  <2>6. \A f \in Fibers : state[f] \notin {"posted", "kReady", "kRunning"}
    BY <2>4, <2>5 DEF FInv, ReadyQueued, StateAt
  <2>7. \A f \in Fibers : state[f] \in State \cup NoObject
    BY DEF TInv, TypeOK, SchedTypeOK, FiberTypeOK
  <2> QED BY <2>2, <2>6, <2>7 DEF State, NoObject
<1> QED BY <1>1, FInvAlways, SInvAlways, PTL
=============================================================================
