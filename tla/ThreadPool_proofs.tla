------------------------- MODULE ThreadPool_proofs -------------------------
(***************************************************************************)
(* ThreadPool for every number of workers and every set of tasks: type     *)
(* correctness, no lost wake-up, and that it implements TaskPool.          *)
(*                                                                         *)
(* The core of the argument is where a task is.  A task that is not ready  *)
(* is in exactly one place, and its future says in which kind: with the    *)
(* submitter that has wrapped it, in one position of one queue, or in the  *)
(* hands of one worker.                                                    *)
(***************************************************************************)
EXTENDS ThreadPool, SequenceTheorems, TLAPS

WorkerPCs == {"top", "steal", "recheck", "wait", "run", "exit", "push", "notify"}
DtorPCs   == {"dtor_stop", "dtor_notify", "join", "done"}
OwnerPCs  == {"main", "push", "notify"} \cup DtorPCs

(* a thread is where its kind can be, with a task in hand where it uses it *)
Control ==
  /\ \A w \in Workers : pc[w] \in WorkerPCs
  /\ pc[Main] \in OwnerPCs
  /\ \A t \in Threads : pc[t] = "push" => out[t] # NoTask
  /\ \A w \in Workers : task[w] # NoTask <=> pc[w] \in {"run", "push", "notify"}

(* workers leave because they were told to, and only the destructor tells  *)
Stopped ==
  \A w \in Workers : /\ pc[w] = "exit" => stop[w]
                     /\ stop[w] => pc[Main] \in DtorPCs

(* a task that was wrapped and not queued belongs to one submitter         *)
WrappedOK ==
  \A t \in Threads : out[t] # NoTask =>
     /\ fut[out[t]] = "none"
     /\ \A u \in Threads : u # t => out[u] # out[t]

(* a running task is in the hands of exactly one worker                    *)
RunningOK ==
  /\ \A w \in Workers : task[w] # NoTask =>
        /\ fut[task[w]] = "running"
        /\ \A v \in Workers : v # w => task[v] # task[w]
  /\ \A k \in Tasks : fut[k] = "running" => \E w \in Workers : task[w] = k

(* a pending task is at exactly one position of one queue                  *)
QueuedPending ==
  \A w \in Workers : \A i \in 1..Len(queue[w]) : fut[queue[w][i]] = "pending"

QueuedOnce ==
  \A w, v \in Workers : \A i \in 1..Len(queue[w]) : \A j \in 1..Len(queue[v]) :
     queue[v][j] = queue[w][i] => v = w /\ j = i

PendingQueued ==
  \A k \in Tasks : fut[k] = "pending" =>
     \E w \in Workers : \E i \in 1..Len(queue[w]) : queue[w][i] = k

PendingOK == QueuedPending /\ QueuedOnce /\ PendingQueued

(* what the destructor answers for was submitted, and is not in the queue  *)
(* of a worker that has left                                               *)
OwedOK ==
  /\ \A k \in owed : fut[k] # "none"
  /\ \A w \in Workers : pc[w] = "exit" =>
        \A i \in 1..Len(queue[w]) : queue[w][i] \notin owed

(* The inductive invariant.                                                *)
PInv == /\ TypeOK /\ Control /\ Stopped
        /\ WrappedOK /\ RunningOK /\ PendingOK /\ OwedOK
        /\ NoLostWakeup

-----------------------------------------------------------------------------
LEMMA ThreadIds ==
  Workers \subseteq Threads /\ Main \in Threads \ Workers /\ 0 \in Workers
BY NAssumption DEF Workers, Threads, Main

LEMMA OwnerOrWorker == \A t \in Threads : t \in Workers \/ t = Main
BY NAssumption DEF Workers, Threads, Main

(* Round-robin and stealing stay inside the vector of queues.              *)
LEMMA ModRange == \A a \in Nat : a % N \in Workers
BY NAssumption DEF Workers

LEMMA VictimWorker ==
  ASSUME TypeOK, NEW w \in Workers
  PROVE  Victim(w) \in Workers
<1>1. w \in Nat /\ idx[w] \in Nat
  BY NAssumption, ThreadIds DEF TypeOK, Workers
<1>2. w + idx[w] \in Nat
  BY <1>1
<1> QED BY <1>2, ModRange DEF Victim

(* r is s without its p-th element                                         *)
Without(s, p, r) ==
  /\ r \in Seq(Tasks)
  /\ Len(r) = Len(s) - 1
  /\ \A i \in 1..Len(r) : r[i] = s[IF i < p THEN i ELSE i + 1]

LEMMA TakeFront ==
  ASSUME NEW s \in Seq(Tasks), s # <<>>
  PROVE  1 \in 1..Len(s) /\ Head(s) = s[1] /\ Without(s, 1, Tail(s))
BY DEF Without

LEMMA TakeBack ==
  ASSUME NEW s \in Seq(Tasks), s # <<>>
  PROVE  /\ Len(s) \in 1..Len(s) /\ Last(s) = s[Len(s)]
         /\ Without(s, Len(s), Front(s))
<1>1. Len(s) \in Nat \ {0} /\ \A i \in 1..Len(s) : s[i] \in Tasks
  OBVIOUS
<1>2. /\ Front(s) \in Seq(Tasks) /\ Len(Front(s)) = Len(s) - 1
      /\ \A i \in 1..Len(s) - 1 : Front(s)[i] = s[i]
  <2> DEFINE n == Len(s) - 1
  <2>1. n \in Nat /\ \A i \in 1..n : s[i] \in Tasks
    BY <1>1
  <2> HIDE DEF n
  <2>2. /\ SubSeq(s, 1, n) \in Seq(Tasks)
        /\ Len(SubSeq(s, 1, n)) = IF 1 <= n THEN n - 1 + 1 ELSE 0
        /\ \A i \in 1..n - 1 + 1 : SubSeq(s, 1, n)[i] = s[1 + i - 1]
    BY <2>1, SubSeqProperties
  <2>3. Len(SubSeq(s, 1, n)) = n /\ \A i \in 1..n : SubSeq(s, 1, n)[i] = s[i]
    BY <2>1, <2>2
  <2> QED BY <2>2, <2>3 DEF Front, n
<1> QED BY <1>1, <1>2 DEF Without, Last

LEMMA QueueElems ==
  ASSUME TypeOK
  PROVE  \A w \in Workers : /\ queue[w] \in Seq(Tasks) /\ Len(queue[w]) \in Nat
                            /\ \A i \in 1..Len(queue[w]) : queue[w][i] \in Tasks
BY DEF TypeOK

LEMMA QueueAppend ==
  ASSUME NEW s \in Seq(Tasks), NEW k \in Tasks
  PROVE  /\ Append(s, k) \in Seq(Tasks) /\ Append(s, k) # <<>>
         /\ Len(Append(s, k)) = Len(s) + 1 /\ Len(s) \in Nat
         /\ \A i \in 1..Len(s) : Append(s, k)[i] = s[i]
         /\ Append(s, k)[Len(s) + 1] = k
OBVIOUS

LEMMA PInvInit == Init => PInv
<1> SUFFICES ASSUME Init
             PROVE  PInv
  OBVIOUS
<1> USE ThreadIds, NAssumption, NoTaskAssumption DEF Init
<1>1. TypeOK
  BY DEF TypeOK, PCs, Pool!Futures, Threads
<1>2. Control /\ Stopped
  BY DEF Control, Stopped, WorkerPCs, OwnerPCs, DtorPCs
<1>3. WrappedOK /\ RunningOK /\ PendingOK /\ OwedOK /\ NoLostWakeup
  BY DEF WrappedOK, RunningOK, PendingOK, QueuedPending, QueuedOnce,
         PendingQueued, OwedOK, NoLostWakeup
<1> QED BY <1>1, <1>2, <1>3 DEF PInv

-----------------------------------------------------------------------------
(***************************************************************************)
(* The steps of a worker that leave queues, futures and tasks alone        *)
(***************************************************************************)

(* Worker w goes to p: it leaves only with an empty queue and after being  *)
(* told to, and blocks only with an empty queue and before.                *)
Move(w, p) ==
  /\ pc[w] \in {"top", "steal", "recheck", "wait"}
  /\ p \in {"top", "steal", "recheck", "wait", "exit"}
  /\ p = "exit" => queue[w] = <<>> /\ stop[w]
  /\ p = "wait" => queue[w] = <<>> /\ ~stop[w]
  /\ Goto(w, p)
  /\ idx' \in [Threads -> Workers]
  /\ \A t \in Threads \ {w} : idx'[t] = idx[t]
  /\ notified' \in [Workers -> BOOLEAN]
  /\ \A v \in Workers \ {w} : notified'[v] = notified[v]
  /\ UNCHANGED <<queue, stop, cur_id, task, out, fut, owed>>

(* A step that touches no task leaves every task where it is.              *)
LEMMA PlacesKept ==
  ASSUME PInv, UNCHANGED <<queue, task, out, fut>>
  PROVE  WrappedOK' /\ RunningOK' /\ PendingOK'
<1>1. WrappedOK'
  BY DEF PInv, WrappedOK
<1>2. RunningOK'
  BY DEF PInv, RunningOK
<1>3. PendingOK'
  BY DEF PInv, PendingOK, QueuedPending, QueuedOnce, PendingQueued
<1> QED BY <1>1, <1>2, <1>3

LEMMA MoveKeeps ==
  ASSUME PInv, NEW w \in Workers, NEW p, Move(w, p)
  PROVE  PInv'
<1> USE ThreadIds DEF PInv, Move, Goto
<1>1. TypeOK'
  BY DEF TypeOK, PCs
<1>2. Control' /\ Stopped'
  BY DEF TypeOK, Control, Stopped, WorkerPCs, OwnerPCs, DtorPCs
<1>3. WrappedOK' /\ RunningOK' /\ PendingOK'
  BY PlacesKept
<1>4. OwedOK'
  <2>1. \A v \in Workers : pc'[v] = "exit" => pc[v] = "exit" \/ queue[v] = <<>>
    BY DEF TypeOK
  <2>2. Len(<<>>) = 0 /\ 1..0 = {}
    OBVIOUS
  <2> QED BY <2>1, <2>2 DEF OwedOK
<1>5. NoLostWakeup'
  <2> SUFFICES ASSUME NEW v \in Workers, pc'[v] = "wait", queue[v] # <<>> \/ stop[v]
               PROVE  \/ notified'[v]
                      \/ \E t \in Threads : /\ pc'[t] \in {"notify", "dtor_notify"}
                                             /\ idx'[t] = v
    BY DEF NoLostWakeup
  <2>1. v # w /\ pc[v] = "wait"
    BY DEF TypeOK
  <2>2. CASE notified[v]
    BY <2>1, <2>2
  <2>3. CASE \E t \in Threads : pc[t] \in {"notify", "dtor_notify"} /\ idx[t] = v
    BY <2>3 DEF TypeOK
  <2> QED BY <2>1, <2>2, <2>3 DEF NoLostWakeup
<1> QED BY <1>1, <1>2, <1>3, <1>4, <1>5

(* the end of one round of stealTask                                       *)
LEMMA StealMoves ==
  ASSUME PInv, NEW w \in Workers, NEW i \in Nat, StealFrom(w, i),
         pc[w] \in {"top", "steal"},
         UNCHANGED <<queue, stop, notified, cur_id, task, out, fut, owed>>
  PROVE  PInv'
<1>1. (IF i < N THEN i ELSE 0) \in Workers
  BY NAssumption DEF Workers
<1>2. idx' \in [Threads -> Workers] /\ \A t \in Threads \ {w} : idx'[t] = idx[t]
  BY <1>1 DEF StealFrom, PInv, TypeOK
<1>3. Move(w, IF i < N THEN "steal" ELSE "recheck")
  BY <1>2 DEF Move, StealFrom, Goto, PInv, TypeOK
<1> QED BY <1>3, MoveKeeps

LEMMA P_recheck ==
  ASSUME PInv, NEW w \in Workers, recheck(w)
  PROVE  PInv'
<1>1. Move(w, IF queue[w] = <<>> /\ ~stop[w] THEN "wait" ELSE "top")
  BY DEF recheck, Move, Goto, PInv, TypeOK
<1> QED BY <1>1, MoveKeeps

LEMMA P_waitReturn ==
  ASSUME PInv, NEW w \in Workers, waitReturn(w)
  PROVE  PInv'
<1>1. Move(w, IF queue[w] # <<>> \/ stop[w] THEN "top" ELSE "wait")
  BY DEF waitReturn, Move, Goto, PInv, TypeOK
<1> QED BY <1>1, MoveKeeps

LEMMA P_waitSpurious ==
  ASSUME PInv, NEW w \in Workers, waitSpurious(w)
  PROVE  PInv'
<1>1. Move(w, "top")
  BY DEF waitSpurious, Move, Goto, PInv, TypeOK
<1> QED BY <1>1, MoveKeeps

-----------------------------------------------------------------------------
(***************************************************************************)
(* A task moves: from its submitter into a queue, from a queue to a        *)
(* worker, and away from the worker                                        *)
(***************************************************************************)

(* submit() chooses a task that is nowhere.                                *)
LEMMA P_submit ==
  ASSUME PInv, NEW t \in Threads, NEW k \in Tasks, submit(t, k)
  PROVE  PInv'
<1> USE ThreadIds, NoTaskAssumption DEF PInv, submit, Goto
<1>1. TypeOK'
  <2>1. cur_id + 1 \in Nat
    BY NAssumption DEF TypeOK, Workers
  <2>2. (cur_id + 1) % N \in Workers
    BY <2>1, ModRange
  <2> QED BY <2>2 DEF TypeOK, PCs
<1>2. Control'
  BY OwnerOrWorker DEF TypeOK, Control, WorkerPCs, OwnerPCs, DtorPCs
<1>3. Stopped'
  BY OwnerOrWorker DEF TypeOK, Stopped, Control, WorkerPCs, DtorPCs
<1>4. WrappedOK'
  BY DEF TypeOK, WrappedOK
<1>5. RunningOK' /\ PendingOK'
  BY DEF RunningOK, PendingOK, QueuedPending, QueuedOnce, PendingQueued
<1>6. OwedOK'
  BY DEF TypeOK, OwedOK
<1>7. NoLostWakeup'
  BY DEF TypeOK, NoLostWakeup
<1> QED BY <1>1, <1>2, <1>3, <1>4, <1>5, <1>6, <1>7

LEMMA P_submitPush ==
  ASSUME PInv, NEW t \in Threads, submitPush(t)
  PROVE  PInv'
<1> DEFINE k == out[t]
           v == idx[t]
<1> USE ThreadIds, NoTaskAssumption DEF PInv, submitPush, Goto
<1>1. k \in Tasks /\ v \in Workers /\ fut[k] = "none"
  BY DEF TypeOK, Control, WrappedOK
<1>2. /\ queue'[v] = Append(queue[v], k)
      /\ \A w \in Workers : w # v => queue'[w] = queue[w]
      /\ queue[v] \in Seq(Tasks) /\ queue' \in [Workers -> Seq(Tasks)]
  BY <1>1, QueueAppend DEF TypeOK
<1>3. /\ fut'[k] = "pending"
      /\ \A j \in Tasks : j # k => fut'[j] = fut[j]
  BY <1>1 DEF TypeOK
<1>4. TypeOK'
  BY <1>1, <1>2 DEF TypeOK, PCs, Pool!Futures
<1>5. Control'
  BY OwnerOrWorker DEF TypeOK, Control, WorkerPCs, OwnerPCs, DtorPCs
<1>6. Stopped'
  BY OwnerOrWorker DEF TypeOK, Stopped, Control, WorkerPCs, DtorPCs
<1>7. WrappedOK'
  BY <1>1, <1>3 DEF TypeOK, WrappedOK
<1>8. RunningOK'
  <2>1. task' = task /\ \A w \in Workers : task[w] # NoTask => task[w] \in Tasks \ {k}
    BY <1>1 DEF TypeOK, RunningOK
  <2>2. \A j \in Tasks : fut'[j] = "running" <=> fut[j] = "running"
    BY <1>1, <1>3
  <2> QED BY <2>1, <2>2 DEF RunningOK
<1>9. PendingOK'
  <2>1. \A w \in Workers : \A i \in 1..Len(queue'[w]) :
           \/ i \in 1..Len(queue[w]) /\ queue'[w][i] = queue[w][i] /\ queue[w][i] # k
           \/ w = v /\ i = Len(queue[v]) + 1 /\ queue'[w][i] = k
    BY <1>1, <1>2, QueueAppend DEF PendingOK, QueuedPending
  <2>2. \A w \in Workers : \A i \in 1..Len(queue[w]) :
           /\ queue[w][i] \in Tasks
           /\ i \in 1..Len(queue'[w]) /\ queue'[w][i] = queue[w][i]
    <3> TAKE w \in Workers
    <3> TAKE i \in 1..Len(queue[w])
    <3>1. queue[w] \in Seq(Tasks)
      BY DEF TypeOK
    <3>2. queue[w][i] \in Tasks
      BY <3>1
    <3>3. CASE w = v
      BY <1>1, <1>2, <3>1, <3>2, <3>3, QueueAppend
    <3>4. CASE w # v
      BY <1>2, <3>2, <3>4
    <3> QED BY <3>3, <3>4
  <2>3. Len(queue[v]) + 1 \in 1..Len(queue'[v]) /\ queue'[v][Len(queue[v]) + 1] = k
    BY <1>1, <1>2, QueueAppend
  <2>4. \A w \in Workers : \A i \in 1..Len(queue'[w]) : fut'[queue'[w][i]] = "pending"
    BY <1>3, <2>1, <2>2 DEF PendingOK, QueuedPending
  <2>5. \A w, u \in Workers : \A i \in 1..Len(queue'[w]) : \A j \in 1..Len(queue'[u]) :
           queue'[u][j] = queue'[w][i] => u = w /\ j = i
    BY <2>1 DEF PendingOK, QueuedOnce
  <2>6. \A j \in Tasks : fut'[j] = "pending" =>
           \E w \in Workers : \E i \in 1..Len(queue'[w]) : queue'[w][i] = j
    <3> SUFFICES ASSUME NEW j \in Tasks, fut'[j] = "pending"
                 PROVE  \E w \in Workers : \E i \in 1..Len(queue'[w]) : queue'[w][i] = j
      OBVIOUS
    <3>1. CASE j = k
      BY <1>1, <2>3, <3>1
    <3>2. CASE j # k
      <4>1. PICK w \in Workers : \E i \in 1..Len(queue[w]) : queue[w][i] = j
        BY <1>3, <3>2 DEF PendingOK, PendingQueued
      <4> QED BY <2>2, <4>1
    <3> QED BY <3>1, <3>2
  <2> QED BY <2>4, <2>5, <2>6 DEF PendingOK, QueuedPending, QueuedOnce, PendingQueued
<1>10. OwedOK'
  <2>1. k \notin owed
    BY <1>1 DEF OwedOK
  <2>2. \A j \in owed : fut'[j] # "none"
    BY <1>3, <2>1 DEF TypeOK, OwedOK
  <2>3. \A w \in Workers : \A i \in 1..Len(queue'[w]) :
           queue'[w][i] = k \/ (i \in 1..Len(queue[w]) /\ queue'[w][i] = queue[w][i])
    BY <1>1, <1>2, QueueAppend
  <2>4. \A w \in Workers : pc'[w] = "exit" => pc[w] = "exit"
    BY DEF TypeOK
  <2> QED BY <2>1, <2>2, <2>3, <2>4 DEF OwedOK
<1>11. NoLostWakeup'
  <2> SUFFICES ASSUME NEW w \in Workers, pc'[w] = "wait", queue'[w] # <<>> \/ stop[w]
               PROVE  \/ notified[w]
                      \/ \E u \in Threads : /\ pc'[u] \in {"notify", "dtor_notify"}
                                             /\ idx[u] = w
    BY DEF NoLostWakeup
  <2>1. CASE w = v
    BY <2>1 DEF TypeOK
  <2>2. CASE w # v
    BY <1>2, <2>2, ZenonT(60) DEF TypeOK, NoLostWakeup
  <2> QED BY <2>1, <2>2
<1> QED BY <1>4, <1>5, <1>6, <1>7, <1>8, <1>9, <1>10, <1>11
LEMMA P_submitNotify ==
  ASSUME PInv, NEW t \in Threads, submitNotify(t)
  PROVE  PInv'
<1> DEFINE v == idx[t]
<1> USE ThreadIds DEF PInv, submitNotify, NotifyOne, Goto
<1>1. v \in Workers
  BY DEF TypeOK
<1>2. notified' \in [Workers -> BOOLEAN]
  BY DEF TypeOK
<1>3. TypeOK'
  BY <1>2 DEF TypeOK, PCs
<1>4. Control'
  BY OwnerOrWorker DEF TypeOK, Control, WorkerPCs, OwnerPCs, DtorPCs
<1>5. Stopped'
  BY OwnerOrWorker DEF TypeOK, Stopped, Control, WorkerPCs, DtorPCs
<1>6. WrappedOK' /\ RunningOK' /\ PendingOK'
  BY PlacesKept
<1>7. OwedOK'
  BY DEF TypeOK, OwedOK
<1>8. NoLostWakeup'
  <2> SUFFICES ASSUME NEW w \in Workers, pc'[w] = "wait", queue[w] # <<>> \/ stop[w]
               PROVE  \/ notified'[w]
                      \/ \E u \in Threads : /\ pc'[u] \in {"notify", "dtor_notify"}
                                             /\ idx'[u] = w
    BY DEF NoLostWakeup
  <2>1. pc[w] = "wait"
    BY DEF TypeOK
  <2>2. CASE w = v \/ notified[w]
    BY <1>1, <2>1, <2>2 DEF TypeOK
  <2>3. CASE w # v /\ ~notified[w]
    <3>1. PICK u \in Threads : pc[u] \in {"notify", "dtor_notify"} /\ idx[u] = w
      BY <2>1, <2>3 DEF NoLostWakeup
    <3> QED BY <2>3, <3>1 DEF TypeOK
  <2> QED BY <2>2, <2>3
<1> QED BY <1>3, <1>4, <1>5, <1>6, <1>7, <1>8

(* A worker takes the p-th task of queue v.                                *)
LEMMA TakeKeeps ==
  ASSUME PInv, NEW w \in Workers, pc[w] \in {"top", "steal"},
         NEW v \in Workers, NEW p \in 1..Len(queue[v]), NEW r,
         Without(queue[v], p, r), queue' = [queue EXCEPT ![v] = r],
         Take(w, queue[v][p]),
         idx' \in [Threads -> Workers],
         \A t \in Threads \ {w} : idx'[t] = idx[t],
         UNCHANGED <<stop, notified, cur_id, out, owed>>
  PROVE  PInv'
<1> DEFINE k == queue[v][p]
<1> USE ThreadIds, NoTaskAssumption DEF PInv, Take, Goto
<1>1. k \in Tasks /\ fut[k] = "pending" /\ Len(queue[v]) \in Nat /\ p \in Nat
  BY QueueElems DEF PendingOK, QueuedPending
<1>2. /\ queue' \in [Workers -> Seq(Tasks)]
      /\ queue'[v] = r
      /\ \A u \in Workers : u # v => queue'[u] = queue[u]
  BY DEF TypeOK, Without
<1>3. /\ fut'[k] = "running"
      /\ \A j \in Tasks : j # k => fut'[j] = fut[j]
  BY <1>1 DEF TypeOK
<1>4. TypeOK'
  BY <1>1, <1>2 DEF TypeOK, PCs, Pool!Futures
<1>5. Control'
  BY <1>1 DEF TypeOK, Control, WorkerPCs, OwnerPCs, DtorPCs
<1>6. Stopped'
  BY DEF TypeOK, Stopped
<1>7. WrappedOK'
  <2>1. \A t \in Threads : out[t] # NoTask => out[t] \in Tasks /\ out[t] # k
    BY <1>1, ZenonT(60) DEF TypeOK, WrappedOK
  <2> QED BY <1>3, <2>1 DEF WrappedOK
<1>8. RunningOK'
  <2>1. task'[w] = k /\ \A u \in Workers : u # w => task'[u] = task[u]
    BY DEF TypeOK
  <2>2. task[w] = NoTask
    BY DEF Control
  <2>3. \A u \in Workers : task[u] # NoTask => task[u] \in Tasks /\ task[u] # k
    <3>1. \A u \in Workers : task[u] # NoTask => task[u] \in Tasks
      BY DEF TypeOK
    <3>2. \A u \in Workers : task[u] # NoTask => fut[task[u]] = "running"
      BY DEF RunningOK
    <3> QED BY <1>1, <3>1, <3>2
  <2> QED BY <1>1, <1>3, <2>1, <2>2, <2>3 DEF RunningOK
<1>9. PendingOK'
  <2> DEFINE old(u, i) == IF u = v /\ i >= p THEN i + 1 ELSE i
             new(u, i) == IF u = v /\ i > p THEN i - 1 ELSE i
  <2>1. /\ r \in Seq(Tasks) /\ Len(r) = Len(queue[v]) - 1 /\ Len(r) \in Nat
        /\ \A i \in 1..Len(r) : r[i] = queue[v][IF i < p THEN i ELSE i + 1]
    BY <1>1 DEF Without
  <2>2. \A u \in Workers : \A i \in 1..Len(queue'[u]) :
           /\ old(u, i) \in 1..Len(queue[u])
           /\ queue'[u][i] = queue[u][old(u, i)]
           /\ ~(u = v /\ old(u, i) = p)
    <3> TAKE u \in Workers
    <3> TAKE i \in 1..Len(queue'[u])
    <3>1. CASE u = v
      BY <1>1, <1>2, <2>1, <3>1
    <3>2. CASE u # v
      BY <1>2, <3>2
    <3> QED BY <3>1, <3>2
  <2>3. \A u \in Workers : \A i \in 1..Len(queue[u]) :
           ~(u = v /\ i = p) => /\ new(u, i) \in 1..Len(queue'[u])
                                /\ queue'[u][new(u, i)] = queue[u][i]
    <3> TAKE u \in Workers
    <3> TAKE i \in 1..Len(queue[u])
    <3>1. CASE u = v /\ i < p
      BY <1>1, <1>2, <2>1, <3>1
    <3>3. CASE u = v /\ i > p
      <4>1. i - 1 \in 1..Len(r) /\ ~(i - 1 < p) /\ (i - 1) + 1 = i
        BY <1>1, <2>1, <3>3
      <4>2. r[i - 1] = queue[v][i]
        BY <2>1, <4>1
      <4> QED BY <1>2, <3>3, <4>1, <4>2
    <3>2. CASE u # v
      BY <1>2, <3>2
    <3> QED BY <1>1, <3>1, <3>2, <3>3
  <2>4. \A u \in Workers : \A i \in 1..Len(queue[u]) :
           queue[u][i] \in Tasks /\ (queue[u][i] = k => u = v /\ i = p)
    BY QueueElems DEF PendingOK, QueuedOnce
  <2>5. \A u \in Workers : \A i, j \in 1..Len(queue'[u]) : old(u, i) = old(u, j) => i = j
    BY <1>1
  <2> HIDE DEF old, new
  <2>6. \A u \in Workers : \A i \in 1..Len(queue'[u]) : fut'[queue'[u][i]] = "pending"
    <3> TAKE u \in Workers
    <3> TAKE i \in 1..Len(queue'[u])
    <3>1. PICK j \in 1..Len(queue[u]) : queue'[u][i] = queue[u][j] /\ ~(u = v /\ j = p)
      BY <2>2, ZenonT(60)
    <3>2. queue[u][j] \in Tasks /\ queue[u][j] # k
      BY <2>4, <3>1
    <3>3. fut[queue[u][j]] = "pending"
      BY DEF PendingOK, QueuedPending
    <3> QED BY <1>3, <3>1, <3>2, <3>3
  <2>7. \A u, x \in Workers : \A i \in 1..Len(queue'[u]) : \A j \in 1..Len(queue'[x]) :
           queue'[x][j] = queue'[u][i] => x = u /\ j = i
    <3> TAKE u, x \in Workers
    <3> TAKE i \in 1..Len(queue'[u])
    <3> TAKE j \in 1..Len(queue'[x])
    <3> HAVE queue'[x][j] = queue'[u][i]
    <3> DEFINE a == old(u, i)
               b == old(x, j)
    <3>1. /\ a \in 1..Len(queue[u]) /\ queue'[u][i] = queue[u][a]
          /\ b \in 1..Len(queue[x]) /\ queue'[x][j] = queue[x][b]
      BY <2>2
    <3> HIDE DEF a, b
    <3>2. x = u /\ a = b
      BY <3>1 DEF PendingOK, QueuedOnce
    <3> QED BY <2>5, <3>2 DEF a, b
  <2>8. \A j \in Tasks : fut'[j] = "pending" =>
           \E u \in Workers : \E i \in 1..Len(queue'[u]) : queue'[u][i] = j
    <3> SUFFICES ASSUME NEW j \in Tasks, fut'[j] = "pending"
                 PROVE  \E u \in Workers : \E i \in 1..Len(queue'[u]) : queue'[u][i] = j
      OBVIOUS
    <3>1. j # k /\ fut[j] = "pending"
      BY <1>3
    <3>2. PICK u \in Workers : \E i \in 1..Len(queue[u]) : queue[u][i] = j
      BY <3>1 DEF PendingOK, PendingQueued
    <3>3. PICK i \in 1..Len(queue[u]) : queue[u][i] = j
      BY <3>2
    <3> QED BY <2>3, <3>1, <3>3, SMTT(30)
  <2> QED BY <2>6, <2>7, <2>8 DEF PendingOK, QueuedPending, QueuedOnce, PendingQueued
<1>10. OwedOK'
  <2>1. \A j \in owed : fut'[j] # "none"
    BY <1>3 DEF TypeOK, OwedOK
  <2>2. \A u \in Workers : \A i \in 1..Len(queue'[u]) :
           \E j \in 1..Len(queue[u]) : queue'[u][i] = queue[u][j]
    <3> TAKE u \in Workers
    <3> TAKE i \in 1..Len(queue'[u])
    <3>1. CASE u = v
      BY <1>1, <1>2, <3>1, SMTT(30) DEF Without
    <3>2. CASE u # v
      BY <1>2, <3>2
    <3> QED BY <3>1, <3>2
  <2>3. \A u \in Workers : pc'[u] = "exit" => pc[u] = "exit"
    BY DEF TypeOK
  <2>4. ASSUME NEW u \in Workers, pc'[u] = "exit", NEW i \in 1..Len(queue'[u])
        PROVE  queue'[u][i] \notin owed
    BY <2>2, <2>3, <2>4 DEF OwedOK
  <2> QED BY <2>1, <2>4 DEF OwedOK
<1>11. NoLostWakeup'
  <2> SUFFICES ASSUME NEW u \in Workers, pc'[u] = "wait", queue'[u] # <<>> \/ stop[u]
               PROVE  \/ notified[u]
                      \/ \E t \in Threads : /\ pc'[t] \in {"notify", "dtor_notify"}
                                             /\ idx'[t] = u
    BY DEF NoLostWakeup
  <2>1. u # w /\ pc[u] = "wait"
    BY DEF TypeOK
  <2>2. queue[u] # <<>> \/ stop[u]
    <3>1. CASE u = v
      BY <3>1, <1>1
    <3>2. CASE u # v
      BY <1>2, <3>2
    <3> QED BY <3>1, <3>2
  <2>3. CASE \E t \in Threads : pc[t] \in {"notify", "dtor_notify"} /\ idx[t] = u
    BY <2>3 DEF TypeOK
  <2> QED BY <2>1, <2>2, <2>3 DEF NoLostWakeup
<1> QED BY <1>4, <1>5, <1>6, <1>7, <1>8, <1>9, <1>10, <1>11

LEMMA P_workerTop ==
  ASSUME PInv, NEW w \in Workers, workerTop(w)
  PROVE  PInv'
<1>1. CASE queue[w] # <<>>
  <2>1. queue[w] \in Seq(Tasks)
    BY DEF PInv, TypeOK
  <2>2. /\ pc[w] = "top" /\ Take(w, queue[w][1]) /\ 1 \in 1..Len(queue[w])
        /\ queue' = [queue EXCEPT ![w] = Tail(queue[w])]
        /\ UNCHANGED <<idx, stop, notified, cur_id, out, owed>>
    BY <1>1, <2>1, TakeFront DEF workerTop
  <2> QED BY <1>1, <2>1, <2>2, TakeFront, TakeKeeps DEF PInv, TypeOK
<1>2. CASE queue[w] = <<>> /\ ~stop[w]
  BY <1>2, StealMoves DEF workerTop
<1>3. CASE queue[w] = <<>> /\ stop[w]
  <2>1. Move(w, "exit")
    BY <1>3 DEF workerTop, Move, PInv, TypeOK
  <2> QED BY <2>1, MoveKeeps
<1> QED BY <1>1, <1>2, <1>3

LEMMA P_stealTask ==
  ASSUME PInv, NEW w \in Workers, stealTask(w)
  PROVE  PInv'
<1> DEFINE v == Victim(w)
<1>1. v \in Workers /\ queue[v] \in Seq(Tasks)
  BY VictimWorker DEF PInv, TypeOK
<1>2. CASE queue[v] # <<>> /\ Take(w, Last(queue[v]))
            /\ queue' = [queue EXCEPT ![v] = Front(@)]
            /\ idx' = [idx EXCEPT ![w] = 0]
  <2>1. /\ idx' \in [Threads -> Workers]
        /\ \A t \in Threads \ {w} : idx'[t] = idx[t]
    BY <1>2, ThreadIds DEF PInv, TypeOK
  <2>2. /\ Len(queue[v]) \in 1..Len(queue[v])
        /\ Take(w, queue[v][Len(queue[v])])
        /\ Without(queue[v], Len(queue[v]), Front(queue[v]))
        /\ queue' = [queue EXCEPT ![v] = Front(queue[v])]
    BY <1>1, <1>2, TakeBack
  <2>3. pc[w] = "steal" /\ UNCHANGED <<stop, notified, cur_id, out, owed>>
    BY DEF stealTask
  <2> HIDE DEF v
  <2> QED BY <1>1, <2>1, <2>2, <2>3, TakeKeeps
<1>3. CASE StealFrom(w, idx[w] + 1) /\ UNCHANGED <<queue, task, fut>>
  <2>1. idx[w] \in Workers
    BY ThreadIds DEF PInv, TypeOK
  <2>2. idx[w] + 1 \in Nat
    BY <2>1, NAssumption DEF Workers
  <2> QED BY <1>3, <2>2, StealMoves DEF stealTask
<1> QED BY <1>2, <1>3 DEF stealTask

LEMMA P_runTask ==
  ASSUME PInv, NEW w \in Workers, runTask(w)
  PROVE  PInv'
<1> DEFINE k == task[w]
<1> USE ThreadIds, NoTaskAssumption DEF PInv, runTask, Goto
<1>1. k \in Tasks /\ fut[k] = "running"
  BY DEF TypeOK, Control, RunningOK
<1>2. /\ fut'[k] = "ready"
      /\ \A j \in Tasks : j # k => fut'[j] = fut[j]
  BY <1>1 DEF TypeOK
<1>3. task'[w] = NoTask /\ \A u \in Workers : u # w => task'[u] = task[u]
  BY DEF TypeOK
<1>4. TypeOK'
  BY <1>1 DEF TypeOK, PCs, Pool!Futures
<1>5. Control' /\ Stopped'
  BY <1>3 DEF TypeOK, Control, Stopped, WorkerPCs, OwnerPCs, DtorPCs
<1>6. WrappedOK'
  <2>1. \A t \in Threads : out[t] # NoTask => out[t] \in Tasks /\ out[t] # k
    BY <1>1 DEF TypeOK, WrappedOK
  <2> QED BY <1>2, <2>1 DEF WrappedOK
<1>7. RunningOK'
  <2>1. \A u \in Workers : task[u] # NoTask => task[u] \in Tasks
    BY DEF TypeOK
  <2>2. \A u \in Workers : u # w => task[u] # k
    BY <1>1 DEF RunningOK
  <2> QED BY <1>2, <1>3, <2>1, <2>2 DEF RunningOK
<1>8. PendingOK'
  <2>1. \A u \in Workers : \A i \in 1..Len(queue[u]) :
           queue[u][i] \in Tasks /\ queue[u][i] # k
    BY <1>1, QueueElems DEF PendingOK, QueuedPending
  <2>2. QueuedPending' /\ PendingQueued'
    BY <1>2, <2>1 DEF PendingOK, QueuedPending, PendingQueued
  <2>3. QueuedOnce'
    BY DEF PendingOK, QueuedOnce
  <2> QED BY <2>2, <2>3 DEF PendingOK
<1>9. OwedOK'
  <2>1. \A j \in owed : fut'[j] # "none"
    BY <1>1, <1>2 DEF TypeOK, OwedOK
  <2>2. \A u \in Workers : pc'[u] = "exit" => pc[u] = "exit"
    BY DEF TypeOK
  <2> QED BY <2>1, <2>2 DEF OwedOK
<1>10. NoLostWakeup'
  BY DEF TypeOK, NoLostWakeup
<1> QED BY <1>4, <1>5, <1>6, <1>7, <1>8, <1>9, <1>10

-----------------------------------------------------------------------------
(***************************************************************************)
(* The destructor                                                          *)
(***************************************************************************)

LEMMA P_dtorBegin ==
  ASSUME PInv, dtorBegin
  PROVE  PInv'
<1> USE ThreadIds DEF PInv, dtorBegin, Goto
<1>1. TypeOK'
  BY DEF TypeOK, PCs
<1>2. Control' /\ Stopped'
  BY DEF TypeOK, Control, Stopped, WorkerPCs, OwnerPCs, DtorPCs
<1>3. WrappedOK' /\ RunningOK' /\ PendingOK'
  BY PlacesKept
<1>4. OwedOK'
  <2>1. \A w \in Workers : pc'[w] # "exit"
    BY DEF TypeOK, Stopped, DtorPCs
  <2> QED BY <2>1 DEF OwedOK
<1>5. NoLostWakeup'
  BY DEF TypeOK, NoLostWakeup
<1> QED BY <1>1, <1>2, <1>3, <1>4, <1>5

LEMMA P_dtorStop ==
  ASSUME PInv, dtorStop
  PROVE  PInv'
<1> USE ThreadIds DEF PInv, dtorStop, Goto
<1>1. TypeOK'
  BY DEF TypeOK, PCs
<1>2. Control' /\ Stopped'
  BY DEF TypeOK, Control, Stopped, WorkerPCs, OwnerPCs, DtorPCs
<1>3. WrappedOK' /\ RunningOK' /\ PendingOK'
  BY PlacesKept
<1>4. OwedOK'
  BY DEF TypeOK, OwedOK
<1>5. NoLostWakeup'
  <2> SUFFICES ASSUME NEW w \in Workers, pc'[w] = "wait", queue[w] # <<>> \/ stop'[w]
               PROVE  \/ notified[w]
                      \/ \E u \in Threads : /\ pc'[u] \in {"notify", "dtor_notify"}
                                             /\ idx[u] = w
    BY DEF NoLostWakeup
  <2>1. CASE w = idx[Main]
    BY <2>1 DEF TypeOK
  <2>2. CASE w # idx[Main]
    <3>1. pc[w] = "wait" /\ (queue[w] # <<>> \/ stop[w])
      BY <2>2 DEF TypeOK
    <3> QED BY <2>2, <3>1 DEF TypeOK, NoLostWakeup
  <2> QED BY <2>1, <2>2
<1> QED BY <1>1, <1>2, <1>3, <1>4, <1>5

LEMMA P_dtorNotify ==
  ASSUME PInv, dtorNotify
  PROVE  PInv'
<1> DEFINE v == idx[Main]
<1> USE ThreadIds DEF PInv, dtorNotify, NotifyOne
<1>1. v \in Workers /\ notified' \in [Workers -> BOOLEAN]
  BY DEF TypeOK
<1>2. /\ idx' \in [Threads -> Workers]
      /\ \A t \in Threads : t # Main => idx'[t] = idx[t]
  <2>1. v + 1 < N => v + 1 \in Workers
    BY <1>1, NAssumption DEF Workers
  <2> QED BY <2>1 DEF TypeOK
<1>3. PICK p \in {"dtor_stop", "join"} : pc' = [pc EXCEPT ![Main] = p]
  BY DEF Goto
<1>4. TypeOK'
  BY <1>1, <1>2, <1>3 DEF TypeOK, PCs
<1>5. Control' /\ Stopped'
  BY <1>3 DEF TypeOK, Control, Stopped, WorkerPCs, OwnerPCs, DtorPCs
<1>6. WrappedOK' /\ RunningOK' /\ PendingOK'
  BY PlacesKept
<1>7. OwedOK'
  BY <1>3 DEF TypeOK, OwedOK
<1>8. NoLostWakeup'
  <2> SUFFICES ASSUME NEW w \in Workers, pc'[w] = "wait", queue[w] # <<>> \/ stop[w]
               PROVE  \/ notified'[w]
                      \/ \E u \in Threads : /\ pc'[u] \in {"notify", "dtor_notify"}
                                             /\ idx'[u] = w
    BY DEF NoLostWakeup
  <2>1. pc[w] = "wait"
    BY <1>3 DEF TypeOK
  <2>2. CASE w = v \/ notified[w]
    BY <1>1, <2>1, <2>2 DEF TypeOK
  <2>3. CASE w # v /\ ~notified[w]
    <3>1. PICK u \in Threads : pc[u] \in {"notify", "dtor_notify"} /\ idx[u] = w
      BY <2>1, <2>3 DEF NoLostWakeup
    <3> QED BY <1>2, <1>3, <2>3, <3>1 DEF TypeOK
  <2> QED BY <2>2, <2>3
<1> QED BY <1>4, <1>5, <1>6, <1>7, <1>8

LEMMA P_join ==
  ASSUME PInv, join
  PROVE  PInv'
<1> USE ThreadIds DEF PInv, join, Goto
<1>1. TypeOK'
  BY DEF TypeOK, PCs
<1>2. Control' /\ Stopped'
  BY DEF TypeOK, Control, Stopped, WorkerPCs, OwnerPCs, DtorPCs
<1>3. WrappedOK' /\ RunningOK' /\ PendingOK'
  BY PlacesKept
<1>4. OwedOK' /\ NoLostWakeup'
  BY DEF TypeOK, OwedOK, NoLostWakeup
<1> QED BY <1>1, <1>2, <1>3, <1>4

LEMMA PInvNext == PInv /\ [Next]_vars => PInv'
<1> SUFFICES ASSUME PInv, [Next]_vars
             PROVE  PInv'
  OBVIOUS
<1>1. ASSUME NEW w \in Workers, worker(w) \/ waitSpurious(w)
      PROVE  PInv'
  BY <1>1, ThreadIds, P_workerTop, P_stealTask, P_recheck, P_waitReturn,
     P_waitSpurious, P_runTask, P_submitPush, P_submitNotify
     DEF worker
<1>2. CASE \E t \in Threads, k \in Tasks : submit(t, k)
  BY <1>2, P_submit
<1>3. CASE submitPush(Main) \/ submitNotify(Main)
  BY <1>3, ThreadIds, P_submitPush, P_submitNotify
<1>4. CASE dtorBegin \/ dtor
  BY <1>4, P_dtorBegin, P_dtorStop, P_dtorNotify, P_join DEF dtor
<1>5. CASE UNCHANGED vars
  BY <1>5 DEF vars, PInv, TypeOK, Control, Stopped, WrappedOK, RunningOK,
              PendingOK, QueuedPending, QueuedOnce, PendingQueued, OwedOK, NoLostWakeup
<1> QED BY <1>1, <1>2, <1>3, <1>4, <1>5 DEF Next

LEMMA PInvAlways == Spec => []PInv
BY PInvInit, PInvNext, PTL DEF Spec

-----------------------------------------------------------------------------
(* Type correctness: for every number of workers and every set of tasks,   *)
(* every index of submit, stealTask and the destructor stays inside the    *)
(* vector of workers, and only tasks are queued and run.                   *)
THEOREM TypeCorrect == Spec => []TypeOK
<1>1. PInv => TypeOK
  BY DEF PInv
<1> QED BY <1>1, PInvAlways, PTL

(* No lost wake-up: whatever submit(), the destructor and the thieves do   *)
(* in between, a worker that waits on its condition variable although its  *)
(* queue is not empty or stop is set has been notified or is about to be.  *)
THEOREM WakeupNeverLost == Spec => []NoLostWakeup
<1>1. PInv => NoLostWakeup
  BY DEF PInv
<1> QED BY <1>1, PInvAlways, PTL

(* A worker leaves no task behind that was submitted before the destructor *)
(* began, although tasks submitted by running tasks may still be pushed    *)
(* into the queue of a worker that has left.                               *)
THEOREM LeavesNothingOwed == Spec => []ExitDrained
<1>1. PInv => ExitDrained
  <2> SUFFICES ASSUME PInv, NEW w \in Workers, pc[w] = "exit", NEW k \in owed,
                      k \in Range(queue[w])
               PROVE  FALSE
    BY DEF ExitDrained
  <2>1. \E i \in 1..Len(queue[w]) : queue[w][i] = k
    BY QueueElems DEF PInv, Range
  <2> QED BY <2>1 DEF PInv, OwedOK
<1> QED BY <1>1, PInvAlways, PTL

-----------------------------------------------------------------------------
(***************************************************************************)
(* Refinement of TaskPool                                                  *)
(***************************************************************************)

(* a worker takes a task: in TaskPool it is started, for the first time    *)
LEMMA R_take ==
  ASSUME PInv, NEW w \in Workers, workerTop(w) \/ stealTask(w)
  PROVE  Pool!Next \/ UNCHANGED <<fut, owed>>
<1>1. ASSUME NEW v \in Workers, NEW i \in 1..Len(queue[v]), Take(w, queue[v][i]),
             UNCHANGED owed
      PROVE  Pool!Next
  <2>1. queue[v][i] \in Tasks /\ fut[queue[v][i]] = "pending"
    BY QueueElems DEF PInv, PendingOK, QueuedPending
  <2>2. Pool!Start(queue[v][i])
    BY <1>1, <2>1 DEF Pool!Start, Take
  <2> QED BY <2>1, <2>2 DEF Pool!Next
<1>2. CASE workerTop(w)
  <2>1. CASE queue[w] # <<>> /\ Take(w, Head(queue[w]))
    BY <1>1, <1>2, <2>1, TakeFront, QueueElems DEF workerTop, PInv
  <2> QED BY <1>2, <2>1 DEF workerTop
<1>3. CASE stealTask(w)
  <2>1. Victim(w) \in Workers
    BY VictimWorker DEF PInv
  <2>2. CASE queue[Victim(w)] # <<>> /\ Take(w, Last(queue[Victim(w)]))
    BY <1>1, <1>3, <2>1, <2>2, TakeBack, QueueElems DEF stealTask, PInv
  <2> QED BY <1>3, <2>2 DEF stealTask
<1> QED BY <1>2, <1>3

(* The workers can all have left only when every task the destructor       *)
(* answers for is ready: it is in no queue and in nobody's hands.          *)
LEMMA R_join ==
  ASSUME PInv, join
  PROVE  Pool!Return
<1>1. ASSUME NEW k \in owed
      PROVE  fut[k] = "ready"
  <2>1. k \in Tasks /\ fut[k] \in {"pending", "running", "ready"}
    BY DEF PInv, TypeOK, OwedOK, Pool!Futures
  <2>2. fut[k] # "pending"
    BY <2>1 DEF PInv, PendingOK, PendingQueued, OwedOK, join
  <2>3. fut[k] # "running"
    BY <2>1, NoTaskAssumption DEF PInv, RunningOK, Control, join
  <2> QED BY <2>1, <2>2, <2>3
<1> QED BY <1>1 DEF join, Pool!Return

LEMMA StepRefines == PInv /\ [Next]_vars => [Pool!Next]_<<fut, owed>>
<1> SUFFICES ASSUME PInv, [Next]_vars
             PROVE  Pool!Next \/ UNCHANGED <<fut, owed>>
  OBVIOUS
<1>1. ASSUME NEW t \in Threads, submitPush(t)
      PROVE  Pool!Next
  <2>1. out[t] \in Tasks /\ fut[out[t]] = "none"
    BY <1>1 DEF submitPush, PInv, TypeOK, Control, WrappedOK
  <2>2. Pool!Submit(out[t])
    BY <1>1, <2>1 DEF Pool!Submit, submitPush
  <2> QED BY <2>1, <2>2 DEF Pool!Next
<1>2. ASSUME NEW w \in Workers, runTask(w)
      PROVE  Pool!Next
  <2>1. task[w] \in Tasks /\ fut[task[w]] = "running"
    BY <1>2 DEF runTask, PInv, TypeOK, Control, RunningOK
  <2>2. Pool!Finish(task[w])
    BY <1>2, <2>1 DEF Pool!Finish, runTask
  <2> QED BY <2>1, <2>2 DEF Pool!Next
<1>3. ASSUME NEW w \in Workers, worker(w) \/ waitSpurious(w)
      PROVE  Pool!Next \/ UNCHANGED <<fut, owed>>
  <2>1. CASE recheck(w) \/ waitReturn(w) \/ waitSpurious(w) \/ submitNotify(w)
    BY <2>1 DEF recheck, waitReturn, waitSpurious, submitNotify
  <2> QED BY <1>1, <1>2, <1>3, <2>1, R_take, ThreadIds DEF worker
<1>4. CASE \E t \in Threads, k \in Tasks : submit(t, k)
  BY <1>4 DEF submit
<1>5. CASE submitPush(Main) \/ submitNotify(Main)
  BY <1>1, <1>5, ThreadIds DEF submitNotify
<1>6. CASE dtorBegin
  <2>1. Pool!Close
    BY <1>6 DEF dtorBegin, Pool!Close
  <2> QED BY <2>1 DEF Pool!Next
<1>7. CASE dtorStop \/ dtorNotify
  BY <1>7 DEF dtorStop, dtorNotify
<1>8. CASE join
  BY <1>8, R_join DEF Pool!Next
<1>9. CASE UNCHANGED vars
  BY <1>9 DEF vars
<1> QED BY <1>3, <1>4, <1>5, <1>6, <1>7, <1>8, <1>9 DEF Next, dtor

(* ThreadPool implements TaskPool: whatever is stolen by whom, every task  *)
(* is started once and after its submission, its future becomes ready      *)
(* after the run, and the destructor returns only when each task that was  *)
(* submitted before it has been run.                                       *)
THEOREM ImplementsTaskPool == Spec => Refinement
<1>1. Init => Pool!Init
  BY DEF Init, Pool!Init
<1> QED BY <1>1, PInvAlways, StepRefines, PTL DEF Spec, Refinement, Pool!Spec
=============================================================================
