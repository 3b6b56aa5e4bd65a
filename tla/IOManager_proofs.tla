-------------------------- MODULE IOManager_proofs --------------------------
(***************************************************************************)
(* Type correctness of IOManager, and that it loses no wake-up, for every  *)
(* number of workers, every set of fibers and every bound.                 *)
(***************************************************************************)
EXTENDS IOManager, TLAPS

(* control points at which worker w has a task in its hands                *)
HandPCs == HoldPCs \cup {"count", "begin", "uncount"}

StoppingPCs == {"stopping", "stop_pending", "stop_queue"}

(* a thread that is about to use its task has one                          *)
TaskInHand ==
  /\ \A w \in Workers : pc[w] \in HandPCs => task[w] \in Task
  /\ \A t \in Threads : pc[t] \in {"push", "trigger"} => out[t] \in Task

(* stopping() is called by idle() on a worker and by stop() on the owner   *)
Sites ==
  /\ \A w \in Workers : IF pc[w] \in StoppingPCs THEN site[w] \in {"pre", "post"}
                                                  ELSE site[w] = "submit"
  /\ site[Main] \in {"submit", "stop", "final"}

(* a descriptor that is registered, reported or being handled belongs to   *)
(* the queue of the worker that handles it                                 *)
BoundOK ==
  /\ \A f \in Fibers : armed[f] => bound[f] \in Workers
  /\ \A w \in Workers : pc[w] \in IoPCs => bound[cur(w)] \in Workers
  /\ \A w \in Workers, f \in Fibers : f \in evs[w] => bound[f] = w
  /\ \A w \in Workers : pc[w] = "trigger" => bound[out[w].id] = w

(* The inductive form of type correctness.                                 *)
TInv == TypeOK /\ TaskInHand /\ Sites /\ BoundOK

-----------------------------------------------------------------------------
(* Round-robin and stealing stay inside the vector of queues.              *)
LEMMA ModRange == \A a \in Nat : a % N \in Workers
BY NAssumption DEF Workers

LEMMA ThreadIds ==
  Workers \subseteq Threads /\ Main \in Threads \ Workers /\ 0 \in Workers
BY NAssumption DEF Workers, Threads, Main

LEMMA SeqOps ==
  ASSUME NEW S, NEW s \in Seq(S)
  PROVE  /\ \A x \in S : Append(s, x) \in Seq(S) /\ Append(s, x) # <<>>
         /\ s # <<>> => /\ Head(s) \in S
                        /\ Tail(s) \in Seq(S)
                        /\ Last(s) \in S
                        /\ Front(s) \in Seq(S)
BY DEF Last, Front

(* the control points that the operations below lead to                    *)
LEMMA PcNames ==
  {"pop", "steal", "count", "begin", "locked", "running", "requeue", "unlock",
   "uncount", "exit", "push", "tickle", "wake", "stopping", "stop_pending",
   "stop_queue", "quit", "main", "join", "done", "idle", "has_task", "poll",
   "woke", "handle", "trigger", "io_call", "io_reg", "io_pend", "io_unpend"}
    \subseteq PCs
BY DEF PCs, RunPCs, CallPCs, MainPCs, IdlePCs, IoPCs

LEMMA TInvInit == Init => TInv
BY NAssumption, ThreadIds
   DEF Init, SchedInit, FiberInit, TInv, TypeOK, SchedTypeOK, FiberTypeOK,
       QueueTypeOK, ThreadTypeOK, IoTypeOK, TaskInHand, Sites, BoundOK,
       HandPCs, HoldPCs, IoPCs, StoppingPCs, State, NoObject, PCs, RunPCs,
       CallPCs, MainPCs, NoQueue, Main, Threads

LEMMA VictimWorker ==
  ASSUME ThreadTypeOK, NEW w \in Workers
  PROVE  Victim(w) \in Workers
<1>1. w \in Nat /\ scan[w] \in Nat
  BY NAssumption, ThreadIds DEF ThreadTypeOK, Workers
<1>2. w + scan[w] \in Nat
  BY <1>1
<1> QED BY <1>2, ModRange DEF Victim

LEMMA PostNext == post \in Workers => (post + 1) % N \in Workers
BY NAssumption, ModRange DEF Workers

(* Where a tickle ends: a worker goes back to its fiber, the owner to its  *)
(* program or on with stop().                                              *)
LEMMA TickleEnds ==
  ASSUME TInv, NEW t \in Threads, pc[t] \in {"push", "tickle", "wake"},
         TickleReturn(t) \/ TickleLoop(t)
  PROVE  /\ tgt' \in [Threads -> Workers]
         /\ \E p \in {"main", "running", "tickle", "stopping", "join"} :
               /\ pc' = [pc EXCEPT ![t] = p]
               /\ t \in Workers => p = "running"
               /\ t = Main => p # "running"
<1>1. tgt \in [Threads -> Workers] /\ t \in Workers \cup {Main}
  <2>1. tgt \in [Threads -> Workers]
    BY DEF TInv, TypeOK, SchedTypeOK, ThreadTypeOK
  <2>2. t \in Workers \cup {Main}
    BY NAssumption DEF Workers, Threads, Main
  <2> QED BY <2>1, <2>2
<1>2. CASE TickleReturn(t)
  BY <1>1, <1>2, ThreadIds DEF TickleReturn, Goto
<1>3. CASE TickleLoop(t)
  <2>1. t \in Workers => site[t] = "submit"
    BY DEF TInv, Sites, StoppingPCs
  <2>2. t = Main
    BY <1>1, <1>3, <2>1 DEF TickleLoop
  <2>3. CASE tgt[t] + 1 < N
    <3>1. tgt[t] + 1 \in Workers
      BY <1>1, <2>3, NAssumption DEF Workers
    <3>2. tgt' = [tgt EXCEPT ![t] = tgt[t] + 1] /\ pc' = [pc EXCEPT ![t] = "tickle"]
      BY <1>3, <2>3 DEF TickleLoop, Goto
    <3> QED BY <1>1, <2>2, <3>1, <3>2, ThreadIds
  <2>4. CASE ~(tgt[t] + 1 < N)
    <3>1. tgt' = [tgt EXCEPT ![t] = 0]
      BY <1>3, <2>4 DEF TickleLoop
    <3>2. \E p \in {"stopping", "join"} : pc' = [pc EXCEPT ![t] = p]
      BY <1>3, <2>4 DEF TickleLoop, Goto
    <3> QED BY <1>1, <2>2, <3>1, <3>2, ThreadIds
  <2> QED BY <2>3, <2>4
<1> QED BY <1>2, <1>3

LEMMA T_popOwn ==
  ASSUME TInv, NEW w \in Workers, popOwn(w), UNCHANGED ioVars
  PROVE  TInv'
<1> USE ThreadIds DEF TInv, TypeOK, SchedTypeOK, popOwn, fiberVars, boundVars,
                      ioVars
<1>1. FiberTypeOK' /\ IoTypeOK'
  BY DEF FiberTypeOK, IoTypeOK
<1>2. QueueTypeOK'
  BY SeqOps DEF QueueTypeOK
<1>3. ThreadTypeOK'
  BY PcNames, SeqOps DEF ThreadTypeOK, Goto, QueueTypeOK
<1>4. TaskInHand'
  BY SeqOps
     DEF TaskInHand, Goto, ThreadTypeOK, HandPCs, HoldPCs, IoPCs, QueueTypeOK
<1>5. Sites' /\ BoundOK'
  BY DEF Sites, BoundOK, Goto, ThreadTypeOK, StoppingPCs, cur, IoPCs
<1> QED BY <1>1, <1>2, <1>3, <1>4, <1>5

LEMMA T_popNone ==
  ASSUME TInv, NEW w \in Workers, popNone(w), UNCHANGED ioVars
  PROVE  TInv'
<1> USE ThreadIds DEF TInv, TypeOK, SchedTypeOK, popNone, StealFrom,
                      fiberVars, boundVars, ioVars
<1>1. FiberTypeOK' /\ QueueTypeOK' /\ IoTypeOK'
  BY DEF FiberTypeOK, QueueTypeOK, IoTypeOK
<1>2. ThreadTypeOK'
  <2>1. 1 \in Nat
    OBVIOUS
  <2>2. (IF 1 < N THEN 1 ELSE 0) \in Workers
    BY <2>1, NAssumption DEF Workers
  <2>3. scan' = [scan EXCEPT ![w] = IF 1 < N THEN 1 ELSE 0]
    OBVIOUS
  <2>4. \E p \in {"steal", "exit", "idle"} : pc' = [pc EXCEPT ![w] = p]
    BY DEF Goto
  <2> QED BY <2>2, <2>3, <2>4, PcNames DEF ThreadTypeOK
<1>3. TaskInHand' /\ Sites' /\ BoundOK'
  BY DEF TaskInHand, Sites, BoundOK, Goto, ThreadTypeOK, HandPCs, HoldPCs,
         IoPCs, StoppingPCs, cur
<1> QED BY <1>1, <1>2, <1>3

LEMMA T_stealTask ==
  ASSUME TInv, NEW w \in Workers, stealTask(w), UNCHANGED ioVars
  PROVE  TInv'
<1> USE ThreadIds DEF TInv, TypeOK, SchedTypeOK, stealTask, fiberVars,
                      boundVars, ioVars
<1>1. FiberTypeOK' /\ IoTypeOK'
  BY DEF FiberTypeOK, IoTypeOK
<1>2. QueueTypeOK'
  BY SeqOps, VictimWorker DEF QueueTypeOK, ThreadTypeOK
<1>3. ThreadTypeOK'
  BY PcNames, SeqOps, VictimWorker DEF ThreadTypeOK, Goto, QueueTypeOK
<1>4. TaskInHand'
  BY SeqOps, VictimWorker
     DEF TaskInHand, Goto, ThreadTypeOK, HandPCs, HoldPCs, IoPCs, QueueTypeOK
<1>5. Sites' /\ BoundOK'
  BY DEF Sites, BoundOK, Goto, ThreadTypeOK, StoppingPCs, cur, IoPCs
<1> QED BY <1>1, <1>2, <1>3, <1>4, <1>5

LEMMA T_stealPass ==
  ASSUME TInv, NEW w \in Workers, stealPass(w), UNCHANGED ioVars
  PROVE  TInv'
<1> USE ThreadIds DEF TInv, TypeOK, SchedTypeOK, stealPass, StealFrom,
                      fiberVars, boundVars, ioVars
<1>1. FiberTypeOK' /\ QueueTypeOK' /\ IoTypeOK'
  BY DEF FiberTypeOK, QueueTypeOK, IoTypeOK
<1>2. ThreadTypeOK'
  <2>1. scan[w] + 1 \in Nat
    <3>1. scan[w] \in Workers
      BY DEF ThreadTypeOK
    <3> QED BY <3>1, NAssumption DEF Workers
  <2>2. (IF scan[w] + 1 < N THEN scan[w] + 1 ELSE 0) \in Workers
    BY <2>1, NAssumption DEF Workers
  <2>3. scan' = [scan EXCEPT ![w] = IF scan[w] + 1 < N THEN scan[w] + 1 ELSE 0]
    OBVIOUS
  <2>4. \E p \in {"steal", "exit", "idle"} : pc' = [pc EXCEPT ![w] = p]
    BY DEF Goto
  <2> QED BY <2>2, <2>3, <2>4, PcNames DEF ThreadTypeOK
<1>3. TaskInHand' /\ Sites' /\ BoundOK'
  BY DEF TaskInHand, Sites, BoundOK, Goto, ThreadTypeOK, HandPCs, HoldPCs,
         IoPCs, StoppingPCs, cur
<1> QED BY <1>1, <1>2, <1>3

LEMMA T_countIn ==
  ASSUME TInv, NEW w \in Workers, countIn(w), UNCHANGED ioVars
  PROVE  TInv'
<1> USE ThreadIds DEF TInv, TypeOK, SchedTypeOK, countIn, fiberVars,
                      boundVars, ioVars
<1>1. FiberTypeOK' /\ QueueTypeOK' /\ IoTypeOK'
  BY DEF FiberTypeOK, QueueTypeOK, IoTypeOK
<1>2. ThreadTypeOK'
  BY PcNames DEF ThreadTypeOK, Goto
<1>3. TaskInHand' /\ Sites' /\ BoundOK'
  BY DEF TaskInHand, Sites, BoundOK, Goto, ThreadTypeOK, HandPCs, HoldPCs,
         IoPCs, StoppingPCs, cur
<1> QED BY <1>1, <1>2, <1>3

LEMMA T_beginCb ==
  ASSUME TInv, NEW w \in Workers, beginCb(w), UNCHANGED ioVars
  PROVE  TInv'
<1> USE ThreadIds DEF TInv, TypeOK, SchedTypeOK, beginCb, fiberVars,
                      boundVars, ioVars
<1>1. QueueTypeOK' /\ IoTypeOK'
  BY DEF QueueTypeOK, IoTypeOK
<1>2. FiberTypeOK'
  BY DEF FiberTypeOK, launch, State, cur, Task, ThreadTypeOK, TaskInHand,
         HandPCs, HoldPCs, IoPCs
<1>3. ThreadTypeOK'
  BY PcNames DEF ThreadTypeOK, Goto
<1>4. TaskInHand' /\ Sites' /\ BoundOK'
  BY DEF TaskInHand, Sites, BoundOK, Goto, ThreadTypeOK, HandPCs, HoldPCs,
         IoPCs, StoppingPCs, cur
<1> QED BY <1>1, <1>2, <1>3, <1>4

LEMMA T_lockFiber ==
  ASSUME TInv, NEW w \in Workers, lockFiber(w), UNCHANGED ioVars
  PROVE  TInv'
<1> USE ThreadIds DEF TInv, TypeOK, SchedTypeOK, lockFiber, fiberVars,
                      boundVars, ioVars
<1>1. QueueTypeOK' /\ IoTypeOK'
  BY DEF QueueTypeOK, IoTypeOK
<1>2. FiberTypeOK'
  BY DEF FiberTypeOK, tryLock, cur, Task, ThreadTypeOK, TaskInHand, HandPCs,
         HoldPCs, IoPCs
<1>3. ThreadTypeOK'
  BY PcNames DEF ThreadTypeOK, Goto
<1>4. TaskInHand' /\ Sites' /\ BoundOK'
  BY DEF TaskInHand, Sites, BoundOK, Goto, ThreadTypeOK, HandPCs, HoldPCs,
         IoPCs, StoppingPCs, cur
<1> QED BY <1>1, <1>2, <1>3, <1>4

LEMMA T_handBack ==
  ASSUME TInv, NEW w \in Workers, handBack(w), UNCHANGED ioVars
  PROVE  TInv'
<1> USE ThreadIds DEF TInv, TypeOK, SchedTypeOK, handBack, fiberVars,
                      boundVars, ioVars
<1>1. FiberTypeOK' /\ IoTypeOK'
  BY DEF FiberTypeOK, IoTypeOK
<1>2. QueueTypeOK'
  BY SeqOps DEF QueueTypeOK, Push, TaskInHand, HandPCs, HoldPCs, IoPCs
<1>3. ThreadTypeOK'
  BY PcNames DEF ThreadTypeOK, Goto
<1>4. TaskInHand' /\ Sites' /\ BoundOK'
  BY DEF TaskInHand, Sites, BoundOK, Goto, ThreadTypeOK, HandPCs, HoldPCs,
         IoPCs, StoppingPCs, cur
<1> QED BY <1>1, <1>2, <1>3, <1>4

LEMMA T_dropTerm ==
  ASSUME TInv, NEW w \in Workers, dropTerm(w), UNCHANGED ioVars
  PROVE  TInv'
<1> USE ThreadIds DEF TInv, TypeOK, SchedTypeOK, dropTerm, fiberVars,
                      boundVars, ioVars
<1>1. FiberTypeOK' /\ QueueTypeOK' /\ IoTypeOK'
  BY DEF FiberTypeOK, QueueTypeOK, IoTypeOK
<1>2. ThreadTypeOK'
  BY PcNames DEF ThreadTypeOK, Goto
<1>3. TaskInHand' /\ Sites' /\ BoundOK'
  BY DEF TaskInHand, Sites, BoundOK, Goto, ThreadTypeOK, HandPCs, HoldPCs,
         IoPCs, StoppingPCs, cur
<1> QED BY <1>1, <1>2, <1>3

LEMMA T_resumeFiber ==
  ASSUME TInv, NEW w \in Workers, resumeFiber(w), UNCHANGED ioVars
  PROVE  TInv'
<1> USE ThreadIds DEF TInv, TypeOK, SchedTypeOK, resumeFiber, fiberVars,
                      boundVars, ioVars
<1>1. QueueTypeOK' /\ IoTypeOK'
  BY DEF QueueTypeOK, IoTypeOK
<1>2. FiberTypeOK'
  BY DEF FiberTypeOK, resume, State, cur, Task, ThreadTypeOK, TaskInHand,
         HandPCs, HoldPCs, IoPCs
<1>3. ThreadTypeOK'
  BY PcNames DEF ThreadTypeOK, Goto
<1>4. TaskInHand' /\ Sites' /\ BoundOK'
  BY DEF TaskInHand, Sites, BoundOK, Goto, ThreadTypeOK, HandPCs, HoldPCs,
         IoPCs, StoppingPCs, cur
<1> QED BY <1>1, <1>2, <1>3, <1>4

LEMMA T_requeue ==
  ASSUME TInv, NEW w \in Workers, requeue(w), UNCHANGED ioVars
  PROVE  TInv'
<1> USE ThreadIds DEF TInv, TypeOK, SchedTypeOK, requeue, fiberVars,
                      boundVars, ioVars
<1>1. FiberTypeOK' /\ IoTypeOK'
  BY DEF FiberTypeOK, IoTypeOK
<1>2. QueueTypeOK'
  BY SeqOps
     DEF QueueTypeOK, Push, FiberOf, cur, Task, ThreadTypeOK, TaskInHand,
         HandPCs, HoldPCs, IoPCs
<1>3. ThreadTypeOK'
  BY PcNames DEF ThreadTypeOK, Goto
<1>4. TaskInHand' /\ Sites' /\ BoundOK'
  BY DEF TaskInHand, Sites, BoundOK, Goto, ThreadTypeOK, HandPCs, HoldPCs,
         IoPCs, StoppingPCs, cur
<1> QED BY <1>1, <1>2, <1>3, <1>4

LEMMA T_unlockFiber ==
  ASSUME TInv, NEW w \in Workers, unlockFiber(w), UNCHANGED ioVars
  PROVE  TInv'
<1> USE ThreadIds DEF TInv, TypeOK, SchedTypeOK, unlockFiber, fiberVars,
                      boundVars, ioVars
<1>1. QueueTypeOK' /\ IoTypeOK'
  BY DEF QueueTypeOK, IoTypeOK
<1>2. FiberTypeOK'
  BY DEF FiberTypeOK, unlock, cur, Task, ThreadTypeOK, TaskInHand, HandPCs,
         HoldPCs, IoPCs
<1>3. ThreadTypeOK'
  BY PcNames DEF ThreadTypeOK, Goto
<1>4. TaskInHand' /\ Sites' /\ BoundOK'
  BY DEF TaskInHand, Sites, BoundOK, Goto, ThreadTypeOK, HandPCs, HoldPCs,
         IoPCs, StoppingPCs, cur
<1> QED BY <1>1, <1>2, <1>3, <1>4

LEMMA T_countOut ==
  ASSUME TInv, NEW w \in Workers, countOut(w), UNCHANGED ioVars
  PROVE  TInv'
<1> USE ThreadIds DEF TInv, TypeOK, SchedTypeOK, countOut, fiberVars,
                      boundVars, ioVars
<1>1. FiberTypeOK' /\ QueueTypeOK' /\ IoTypeOK'
  BY DEF FiberTypeOK, QueueTypeOK, IoTypeOK
<1>2. ThreadTypeOK'
  BY PcNames DEF ThreadTypeOK, Goto
<1>3. TaskInHand' /\ Sites' /\ BoundOK'
  BY DEF TaskInHand, Sites, BoundOK, Goto, ThreadTypeOK, HandPCs, HoldPCs,
         IoPCs, StoppingPCs, cur
<1> QED BY <1>1, <1>2, <1>3

LEMMA T_idleQuit ==
  ASSUME TInv, NEW w \in Workers, idleQuit(w), UNCHANGED ioVars
  PROVE  TInv'
<1> USE ThreadIds DEF TInv, TypeOK, SchedTypeOK, idleQuit, fiberVars,
                      boundVars, ioVars
<1>1. FiberTypeOK' /\ QueueTypeOK' /\ IoTypeOK'
  BY DEF FiberTypeOK, QueueTypeOK, IoTypeOK
<1>2. ThreadTypeOK'
  BY PcNames DEF ThreadTypeOK, Goto
<1>3. TaskInHand' /\ Sites' /\ BoundOK'
  BY DEF TaskInHand, Sites, BoundOK, Goto, ThreadTypeOK, HandPCs, HoldPCs,
         IoPCs, StoppingPCs, cur
<1> QED BY <1>1, <1>2, <1>3

LEMMA T_bodyReturn ==
  ASSUME TInv, NEW w \in Workers, bodyReturn(w), UNCHANGED ioVars
  PROVE  TInv'
<1> USE ThreadIds DEF TInv, TypeOK, SchedTypeOK, bodyReturn, fiberVars,
                      boundVars, ioVars
<1>1. QueueTypeOK' /\ IoTypeOK'
  BY DEF QueueTypeOK, IoTypeOK
<1>2. FiberTypeOK'
  BY DEF FiberTypeOK, mainFuncReturn, State, cur, Task, ThreadTypeOK,
         TaskInHand, HandPCs, HoldPCs, IoPCs
<1>3. ThreadTypeOK'
  BY PcNames DEF ThreadTypeOK, Goto
<1>4. TaskInHand' /\ Sites' /\ BoundOK'
  BY DEF TaskInHand, Sites, BoundOK, Goto, ThreadTypeOK, HandPCs, HoldPCs,
         IoPCs, StoppingPCs, cur
<1> QED BY <1>1, <1>2, <1>3, <1>4

LEMMA T_bodyYield ==
  ASSUME TInv, NEW w \in Workers, bodyYield(w), UNCHANGED ioVars
  PROVE  TInv'
<1> USE ThreadIds DEF TInv, TypeOK, SchedTypeOK, bodyYield, fiberVars,
                      boundVars, ioVars
<1>1. QueueTypeOK' /\ IoTypeOK'
  BY DEF QueueTypeOK, IoTypeOK
<1>2. FiberTypeOK'
  BY DEF FiberTypeOK, yield, State, cur, Task, ThreadTypeOK, TaskInHand,
         HandPCs, HoldPCs, IoPCs
<1>3. ThreadTypeOK'
  BY PcNames
     DEF ThreadTypeOK, Goto, cur, Task, TaskInHand, HandPCs, HoldPCs, IoPCs
<1>4. TaskInHand' /\ Sites' /\ BoundOK'
  BY DEF TaskInHand, Sites, BoundOK, Goto, ThreadTypeOK, HandPCs, HoldPCs,
         IoPCs, StoppingPCs, cur
<1> QED BY <1>1, <1>2, <1>3, <1>4

LEMMA T_bodyHold ==
  ASSUME TInv, NEW w \in Workers, bodyHold(w), UNCHANGED ioVars
  PROVE  TInv'
<1> USE ThreadIds DEF TInv, TypeOK, SchedTypeOK, bodyHold, fiberVars,
                      boundVars, ioVars
<1>1. QueueTypeOK' /\ IoTypeOK'
  BY DEF QueueTypeOK, IoTypeOK
<1>2. FiberTypeOK'
  BY DEF FiberTypeOK, hold, State, cur, Task, ThreadTypeOK, TaskInHand,
         HandPCs, HoldPCs, IoPCs
<1>3. ThreadTypeOK'
  BY PcNames
     DEF ThreadTypeOK, Goto, cur, Task, TaskInHand, HandPCs, HoldPCs, IoPCs
<1>4. TaskInHand' /\ Sites' /\ BoundOK'
  BY DEF TaskInHand, Sites, BoundOK, Goto, ThreadTypeOK, HandPCs, HoldPCs,
         IoPCs, StoppingPCs, cur
<1> QED BY <1>1, <1>2, <1>3, <1>4

LEMMA T_submitCb ==
  ASSUME TInv, NEW t \in Threads, NEW f \in Fibers,
         submitCb(t, f), UNCHANGED ioVars
  PROVE  TInv'
<1> USE ThreadIds DEF TInv, TypeOK, SchedTypeOK, submitCb, Claim, MaySubmit,
                      fiberVars, boundVars, ioVars
<1>1. IoTypeOK'
  BY DEF IoTypeOK
<1>2. FiberTypeOK'
  BY DEF FiberTypeOK, NoObject
<1>3. QueueTypeOK'
  BY PostNext DEF QueueTypeOK
<1>4. ThreadTypeOK'
  BY PcNames DEF ThreadTypeOK, Goto, QueueTypeOK, Task, Cb
<1>5. TaskInHand'
  BY DEF TaskInHand, Goto, ThreadTypeOK, HandPCs, HoldPCs, IoPCs, Cb, Task
<1>6. Sites' /\ BoundOK'
  BY DEF Sites, BoundOK, Goto, ThreadTypeOK, StoppingPCs, cur, IoPCs
<1> QED BY <1>1, <1>2, <1>3, <1>4, <1>5, <1>6

LEMMA T_submitNew ==
  ASSUME TInv, NEW t \in Threads, NEW f \in Fibers,
         submitNew(t, f), UNCHANGED ioVars
  PROVE  TInv'
<1> USE ThreadIds DEF TInv, TypeOK, SchedTypeOK, submitNew, Claim, MaySubmit,
                      fiberVars, boundVars, ioVars
<1>1. IoTypeOK'
  BY DEF IoTypeOK
<1>2. FiberTypeOK'
  BY DEF FiberTypeOK, construct, State
<1>3. QueueTypeOK'
  BY PostNext DEF QueueTypeOK
<1>4. ThreadTypeOK'
  BY PcNames DEF ThreadTypeOK, Goto, QueueTypeOK, Task, FiberOf
<1>5. TaskInHand'
  BY DEF TaskInHand, Goto, ThreadTypeOK, HandPCs, HoldPCs, IoPCs, FiberOf,
         Task
<1>6. Sites' /\ BoundOK'
  BY DEF Sites, BoundOK, Goto, ThreadTypeOK, StoppingPCs, cur, IoPCs
<1> QED BY <1>1, <1>2, <1>3, <1>4, <1>5, <1>6

LEMMA T_submitFiber ==
  ASSUME TInv, NEW t \in Threads, NEW f \in Fibers,
         submitFiber(t, f), UNCHANGED ioVars
  PROVE  TInv'
<1> USE ThreadIds DEF TInv, TypeOK, SchedTypeOK, submitFiber, Claim,
                      MaySubmit, fiberVars, boundVars, ioVars
<1>1. IoTypeOK'
  BY DEF IoTypeOK
<1>2. FiberTypeOK'
  BY DEF FiberTypeOK
<1>3. QueueTypeOK'
  BY PostNext DEF QueueTypeOK
<1>4. ThreadTypeOK'
  <2>1. FiberOf(f) \in Task
    BY DEF FiberOf, Task
  <2>2. wakes' \in Nat
    BY DEF ThreadTypeOK
  <2> QED BY <2>1, <2>2, PcNames DEF ThreadTypeOK, QueueTypeOK, Goto
<1>5. TaskInHand'
  BY DEF TaskInHand, Goto, ThreadTypeOK, HandPCs, HoldPCs, IoPCs, FiberOf,
         Task
<1>6. Sites' /\ BoundOK'
  BY DEF Sites, BoundOK, Goto, ThreadTypeOK, StoppingPCs, cur, IoPCs
<1> QED BY <1>1, <1>2, <1>3, <1>4, <1>5, <1>6

LEMMA T_submitPush ==
  ASSUME TInv, NEW t \in Threads, submitPush(t), UNCHANGED ioVars
  PROVE  TInv'
<1> USE ThreadIds DEF TInv, TypeOK, SchedTypeOK, submitPush, fiberVars,
                      boundVars, ioVars
<1>1. FiberTypeOK' /\ IoTypeOK'
  BY DEF FiberTypeOK, IoTypeOK
<1>2. QueueTypeOK'
  BY SeqOps DEF QueueTypeOK, Push, ThreadTypeOK, TaskInHand
<1>3. ThreadTypeOK'
  <2>1. tgt' \in [Threads -> Workers]
    BY TickleEnds DEF ThreadTypeOK
  <2>2. \E p \in PCs : pc' = [pc EXCEPT ![t] = p]
    BY TickleEnds, PcNames DEF Goto
  <2> QED BY <2>1, <2>2 DEF ThreadTypeOK
<1>4. TaskInHand'
  BY TickleEnds DEF TaskInHand, Goto, ThreadTypeOK, HandPCs, HoldPCs, IoPCs
<1>5. Sites'
  BY TickleEnds, ZenonT(60) DEF Sites, Goto, ThreadTypeOK, StoppingPCs
<1>6. BoundOK'
  BY TickleEnds DEF BoundOK, Goto, cur, ThreadTypeOK, IoPCs
<1> QED BY <1>1, <1>2, <1>3, <1>4, <1>5, <1>6

LEMMA T_tickle ==
  ASSUME TInv, NEW t \in Threads, tickle(t), UNCHANGED ioVars
  PROVE  TInv'
<1> USE ThreadIds DEF TInv, TypeOK, SchedTypeOK, tickle, fiberVars, boundVars,
                      ioVars
<1>1. FiberTypeOK' /\ QueueTypeOK' /\ IoTypeOK'
  BY DEF FiberTypeOK, QueueTypeOK, IoTypeOK
<1>2. ThreadTypeOK'
  <2>1. tgt' \in [Threads -> Workers]
    BY TickleEnds DEF ThreadTypeOK
  <2>2. \E p \in PCs : pc' = [pc EXCEPT ![t] = p]
    BY TickleEnds, PcNames DEF Goto
  <2> QED BY <2>1, <2>2 DEF ThreadTypeOK
<1>3. TaskInHand'
  BY TickleEnds DEF TaskInHand, Goto, ThreadTypeOK, HandPCs, HoldPCs, IoPCs
<1>4. Sites'
  BY TickleEnds, ZenonT(60) DEF Sites, Goto, ThreadTypeOK, StoppingPCs
<1>5. BoundOK'
  BY TickleEnds DEF BoundOK, Goto, cur, ThreadTypeOK, IoPCs
<1> QED BY <1>1, <1>2, <1>3, <1>4, <1>5

LEMMA T_writeEventFd ==
  ASSUME TInv, NEW t \in Threads, writeEventFd(t)
  PROVE  TInv'
<1> USE ThreadIds DEF TInv, TypeOK, SchedTypeOK, writeEventFd, wakeCall,
                      fiberVars, boundVars, ioVars, chanVars, kernVars
<1>1. FiberTypeOK' /\ QueueTypeOK' /\ IoTypeOK'
  BY DEF FiberTypeOK, QueueTypeOK, IoTypeOK
<1>2. ThreadTypeOK'
  <2>1. tgt' \in [Threads -> Workers]
    BY TickleEnds DEF ThreadTypeOK
  <2>2. \E p \in PCs : pc' = [pc EXCEPT ![t] = p]
    BY TickleEnds, PcNames DEF Goto
  <2> QED BY <2>1, <2>2 DEF ThreadTypeOK
<1>3. TaskInHand'
  BY TickleEnds DEF TaskInHand, Goto, ThreadTypeOK, HandPCs, HoldPCs, IoPCs
<1>4. Sites'
  BY TickleEnds, ZenonT(60) DEF Sites, Goto, ThreadTypeOK, StoppingPCs
<1>5. BoundOK'
  BY TickleEnds, ZenonT(60) DEF BoundOK, Goto, cur, ThreadTypeOK, IoPCs
<1> QED BY <1>1, <1>2, <1>3, <1>4, <1>5

LEMMA T_stopRead ==
  ASSUME TInv, NEW t \in Threads, NEW p \in {"stop_pending", "stop_queue"},
         NEW i \in Workers,
         pc[t] \in StoppingPCs, StoppingNext(t, p, i), UNCHANGED ioVars
  PROVE  TInv'
<1> USE ThreadIds DEF TInv, TypeOK, SchedTypeOK, StoppingNext, fiberVars,
                      boundVars, ioVars
<1>1. FiberTypeOK' /\ QueueTypeOK' /\ IoTypeOK'
  BY DEF FiberTypeOK, QueueTypeOK, IoTypeOK
<1>2. ThreadTypeOK'
  BY PcNames DEF ThreadTypeOK, Goto
<1>3. TaskInHand' /\ Sites' /\ BoundOK'
  BY DEF TaskInHand, Sites, BoundOK, Goto, ThreadTypeOK, HandPCs, HoldPCs,
         IoPCs, StoppingPCs, cur
<1> QED BY <1>1, <1>2, <1>3

LEMMA T_stopAnswer ==
  ASSUME TInv, NEW t \in Threads, NEW b \in BOOLEAN,
         pc[t] \in StoppingPCs, StoppingReturn(t, b), UNCHANGED ioVars
  PROVE  TInv'
<1> USE ThreadIds DEF TInv, TypeOK, SchedTypeOK, StoppingReturn, fiberVars,
                      boundVars, ioVars
<1>1. FiberTypeOK' /\ QueueTypeOK' /\ IoTypeOK'
  BY DEF FiberTypeOK, QueueTypeOK, IoTypeOK
<1>2. ThreadTypeOK'
  BY PcNames DEF ThreadTypeOK, Goto
<1>3. TaskInHand'
  BY DEF TaskInHand, Goto, ThreadTypeOK, HandPCs, HoldPCs, IoPCs, Sites,
         StoppingPCs
<1>4. Sites' /\ BoundOK'
  BY DEF Sites, BoundOK, Goto, ThreadTypeOK, StoppingPCs, cur, IoPCs
<1> QED BY <1>1, <1>2, <1>3, <1>4

LEMMA T_idleEnter ==
  ASSUME TInv, NEW w \in Workers, idleEnter(w)
  PROVE  TInv'
<1> USE ThreadIds DEF TInv, TypeOK, SchedTypeOK, idleEnter, fiberVars,
                      boundVars, ioVars
<1>1. FiberTypeOK' /\ QueueTypeOK' /\ IoTypeOK'
  BY DEF FiberTypeOK, QueueTypeOK, IoTypeOK
<1>2. ThreadTypeOK'
  BY PcNames DEF ThreadTypeOK, Goto
<1>3. TaskInHand' /\ Sites' /\ BoundOK'
  BY DEF TaskInHand, Sites, BoundOK, Goto, ThreadTypeOK, HandPCs, HoldPCs,
         IoPCs, StoppingPCs, cur
<1> QED BY <1>1, <1>2, <1>3

LEMMA T_hasTask ==
  ASSUME TInv, NEW w \in Workers, hasTask(w)
  PROVE  TInv'
<1> USE ThreadIds DEF TInv, TypeOK, SchedTypeOK, hasTask, fiberVars,
                      boundVars, ioVars
<1>1. FiberTypeOK' /\ QueueTypeOK' /\ IoTypeOK'
  BY DEF FiberTypeOK, QueueTypeOK, IoTypeOK
<1>2. ThreadTypeOK'
  BY PcNames DEF ThreadTypeOK, Goto
<1>3. TaskInHand' /\ Sites' /\ BoundOK'
  BY DEF TaskInHand, Sites, BoundOK, Goto, ThreadTypeOK, HandPCs, HoldPCs,
         IoPCs, StoppingPCs, cur
<1> QED BY <1>1, <1>2, <1>3

LEMMA T_hasNoTask ==
  ASSUME TInv, NEW w \in Workers, hasNoTask(w)
  PROVE  TInv'
<1> USE ThreadIds DEF TInv, TypeOK, SchedTypeOK, hasNoTask, fiberVars,
                      boundVars, ioVars
<1>1. FiberTypeOK' /\ QueueTypeOK' /\ IoTypeOK'
  BY DEF FiberTypeOK, QueueTypeOK, IoTypeOK
<1>2. ThreadTypeOK'
  BY PcNames DEF ThreadTypeOK, Goto
<1>3. TaskInHand' /\ Sites' /\ BoundOK'
  BY DEF TaskInHand, Sites, BoundOK, Goto, ThreadTypeOK, HandPCs, HoldPCs,
         IoPCs, StoppingPCs, cur
<1> QED BY <1>1, <1>2, <1>3

LEMMA T_pollInterrupted ==
  ASSUME TInv, NEW w \in Workers, pollInterrupted(w)
  PROVE  TInv'
<1> USE ThreadIds DEF TInv, TypeOK, SchedTypeOK, pollInterrupted, fiberVars,
                      boundVars, ioVars
<1>1. FiberTypeOK' /\ QueueTypeOK' /\ IoTypeOK'
  BY DEF FiberTypeOK, QueueTypeOK, IoTypeOK
<1>2. ThreadTypeOK'
  BY PcNames DEF ThreadTypeOK, Goto
<1>3. TaskInHand' /\ Sites' /\ BoundOK'
  BY DEF TaskInHand, Sites, BoundOK, Goto, ThreadTypeOK, HandPCs, HoldPCs,
         IoPCs, StoppingPCs, cur
<1> QED BY <1>1, <1>2, <1>3

LEMMA T_idleWoke ==
  ASSUME TInv, NEW w \in Workers, idleWoke(w)
  PROVE  TInv'
<1> USE ThreadIds DEF TInv, TypeOK, SchedTypeOK, idleWoke, fiberVars,
                      boundVars, ioVars
<1>1. FiberTypeOK' /\ QueueTypeOK' /\ IoTypeOK'
  BY DEF FiberTypeOK, QueueTypeOK, IoTypeOK
<1>2. ThreadTypeOK'
  BY PcNames DEF ThreadTypeOK, Goto
<1>3. TaskInHand' /\ Sites' /\ BoundOK'
  BY DEF TaskInHand, Sites, BoundOK, Goto, ThreadTypeOK, HandPCs, HoldPCs,
         IoPCs, StoppingPCs, cur
<1> QED BY <1>1, <1>2, <1>3

LEMMA T_idleHandled ==
  ASSUME TInv, NEW w \in Workers, idleHandled(w)
  PROVE  TInv'
<1> USE ThreadIds DEF TInv, TypeOK, SchedTypeOK, idleHandled, fiberVars,
                      boundVars, ioVars
<1>1. FiberTypeOK' /\ QueueTypeOK' /\ IoTypeOK'
  BY DEF FiberTypeOK, QueueTypeOK, IoTypeOK
<1>2. ThreadTypeOK'
  BY PcNames DEF ThreadTypeOK, Goto
<1>3. TaskInHand' /\ Sites' /\ BoundOK'
  BY DEF TaskInHand, Sites, BoundOK, Goto, ThreadTypeOK, HandPCs, HoldPCs,
         IoPCs, StoppingPCs, cur
<1> QED BY <1>1, <1>2, <1>3

LEMMA T_poll ==
  ASSUME TInv, NEW w \in Workers, poll(w)
  PROVE  TInv'
<1> USE ThreadIds DEF TInv, TypeOK, SchedTypeOK, poll, fiberVars, boundVars,
                      ioVars, chanVars, kernVars
<1>1. FiberTypeOK' /\ QueueTypeOK'
  BY DEF FiberTypeOK, QueueTypeOK
<1>2. ThreadTypeOK'
  BY PcNames DEF ThreadTypeOK, Goto
<1>3. IoTypeOK'
  BY DEF IoTypeOK, Ready
<1>4. BoundOK'
  <2>1. evs' = [evs EXCEPT ![w] = Ready(w) \cup (IF evfd[w] THEN {Wakeup} ELSE {})]
    OBVIOUS
  <2>2. \A v \in Workers, f \in Fibers : f \in evs'[v] => bound[f] = v
    <3> SUFFICES ASSUME NEW v \in Workers, NEW f \in Fibers, f \in evs'[v]
                 PROVE  bound[f] = v
      OBVIOUS
    <3>1. CASE v = w
      BY <2>1, <3>1, WakeupAssumption DEF Ready, IoTypeOK
    <3>2. CASE v # w
      BY <2>1, <3>2 DEF IoTypeOK, BoundOK
    <3> QED BY <3>1, <3>2
  <2>3. \A v \in Workers : pc'[v] \in IoPCs \cup {"trigger"} => pc[v] = pc'[v]
    BY DEF ThreadTypeOK, Goto, IoPCs
  <2> QED BY <2>2, <2>3 DEF BoundOK, cur, IoPCs
<1>5. TaskInHand' /\ Sites'
  BY DEF TaskInHand, Sites, Goto, ThreadTypeOK, HandPCs, HoldPCs, IoPCs,
         StoppingPCs
<1> QED BY <1>1, <1>2, <1>3, <1>4, <1>5

LEMMA T_readEventFd ==
  ASSUME TInv, NEW w \in Workers, readEventFd(w)
  PROVE  TInv'
<1> USE ThreadIds DEF TInv, TypeOK, SchedTypeOK, readEventFd, schedVars,
                      fiberVars, boundVars, ioVars, chanVars, kernVars
<1>1. FiberTypeOK' /\ QueueTypeOK' /\ IoTypeOK'
  BY DEF FiberTypeOK, QueueTypeOK, IoTypeOK
<1>2. ThreadTypeOK'
  BY PcNames DEF ThreadTypeOK, Goto
<1>3. BoundOK'
  BY DEF BoundOK, cur, IoTypeOK
<1>4. TaskInHand' /\ Sites'
  BY DEF TaskInHand, Sites, Goto, ThreadTypeOK, HandPCs, HoldPCs, IoPCs,
         StoppingPCs
<1> QED BY <1>1, <1>2, <1>3, <1>4

LEMMA T_handleEvent ==
  ASSUME TInv, NEW w \in Workers, NEW f \in Fibers, handleEvent(w, f)
  PROVE  TInv'
<1> USE ThreadIds DEF TInv, TypeOK, SchedTypeOK, handleEvent, fiberVars,
                      boundVars, ioVars, chanVars, kernVars
<1>1. FiberTypeOK' /\ QueueTypeOK' /\ IoTypeOK'
  BY DEF FiberTypeOK, QueueTypeOK, IoTypeOK
<1>2. ThreadTypeOK'
  <2>1. Event(f, reg[f]) \in Task
    BY DEF Event, Task, IoTypeOK
  <2>2. CASE armed[f]
    <3>1. /\ out' = [out EXCEPT ![w] = Event(f, reg[f])]
          /\ pc' = [pc EXCEPT ![w] = "trigger"]
      BY <2>2 DEF Goto
    <3>2. out' \in [Threads -> Task \cup {NoTask}] /\ pc' \in [Threads -> PCs]
      BY <2>1, <3>1, PcNames DEF ThreadTypeOK
    <3> QED BY <3>2 DEF ThreadTypeOK
  <2>3. CASE ~armed[f]
    BY <2>3 DEF ThreadTypeOK
  <2> QED BY <2>2, <2>3
<1>3. TaskInHand'
  <2>1. Event(f, reg[f]) \in Task
    BY DEF Event, Task, IoTypeOK
  <2>2. CASE armed[f]
    <3>1. /\ out' = [out EXCEPT ![w] = Event(f, reg[f])]
          /\ pc' = [pc EXCEPT ![w] = "trigger"]
          /\ task' = task
      BY <2>2 DEF Goto
    <3>2. pc'[w] = "trigger" /\ out'[w] \in Task
      BY <2>1, <3>1 DEF ThreadTypeOK
    <3>3. \A t \in Threads : t # w => pc'[t] = pc[t] /\ out'[t] = out[t]
      BY <3>1 DEF ThreadTypeOK
    <3>4. "trigger" \notin HandPCs
      BY DEF HandPCs, HoldPCs, IoPCs
    <3> QED BY <3>1, <3>2, <3>3, <3>4 DEF TaskInHand
  <2>3. CASE ~armed[f]
    BY <2>3 DEF TaskInHand
  <2> QED BY <2>2, <2>3
<1>4. BoundOK'
  <2>1. bound[f] = w /\ Event(f, reg[f]).id = f
    BY DEF Event, BoundOK
  <2>2. \A v \in Workers : evs'[v] \subseteq evs[v]
    BY DEF IoTypeOK
  <2>3. CASE armed[f]
    <3>1. /\ out' = [out EXCEPT ![w] = Event(f, reg[f])]
          /\ pc' = [pc EXCEPT ![w] = "trigger"]
          /\ UNCHANGED <<task, armed, bound>>
      BY <2>3 DEF Goto
    <3>2. pc'[w] = "trigger" /\ bound[out'[w].id] = w
      BY <2>1, <3>1 DEF ThreadTypeOK
    <3>3. \A v \in Workers : v # w => pc'[v] = pc[v] /\ out'[v] = out[v]
      BY <3>1 DEF ThreadTypeOK
    <3> QED BY <2>2, <3>1, <3>2, <3>3 DEF BoundOK, cur, IoPCs
  <2>4. CASE ~armed[f]
    BY <2>2, <2>4 DEF BoundOK, cur
  <2> QED BY <2>3, <2>4
<1>5. Sites'
  BY DEF Sites, Goto, ThreadTypeOK, StoppingPCs
<1> QED BY <1>1, <1>2, <1>3, <1>4, <1>5

LEMMA T_triggerPush ==
  ASSUME TInv, NEW w \in Workers, triggerPush(w)
  PROVE  TInv'
<1> USE ThreadIds DEF TInv, TypeOK, SchedTypeOK, triggerPush, fiberVars,
                      boundVars, ioVars
<1>1. FiberTypeOK' /\ IoTypeOK'
  BY DEF FiberTypeOK, IoTypeOK
<1>2. QueueTypeOK'
  BY SeqOps, ZenonT(60) DEF QueueTypeOK, Push, ThreadTypeOK, TaskInHand, BoundOK
<1>3. ThreadTypeOK'
  BY PcNames DEF ThreadTypeOK, Goto
<1>4. TaskInHand' /\ Sites' /\ BoundOK'
  BY DEF TaskInHand, Sites, BoundOK, Goto, ThreadTypeOK, HandPCs, HoldPCs,
         IoPCs, StoppingPCs, cur
<1> QED BY <1>1, <1>2, <1>3, <1>4

LEMMA T_ioEnter ==
  ASSUME TInv, NEW w \in Workers, ioEnter(w)
  PROVE  TInv'
<1> USE ThreadIds DEF TInv, TypeOK, SchedTypeOK, ioEnter, SysFunc, fiberVars,
                      boundVars, ioVars, chanVars, kernVars
<1>1. FiberTypeOK' /\ QueueTypeOK'
  BY DEF FiberTypeOK, QueueTypeOK
<1>2. ThreadTypeOK'
  BY PcNames DEF ThreadTypeOK, Goto
<1>3. IoTypeOK'
  BY DEF IoTypeOK, cur, Task, ThreadTypeOK, TaskInHand, HandPCs, HoldPCs,
         IoPCs
<1>4. BoundOK'
  <2>1. cur(w) \in Fibers
    BY DEF TaskInHand, HandPCs, HoldPCs, cur, Task
  <2>2. bound'[cur(w)] \in Workers
    BY <2>1 DEF IoTypeOK, NoQueue
  <2>3. \A f \in Fibers : bound[f] \in Workers => bound'[f] = bound[f]
    BY <2>1 DEF IoTypeOK, NoQueue, Main
  <2>4. \A v \in Workers : v # w => pc'[v] = pc[v]
    BY DEF ThreadTypeOK, Goto
  <2>5. pc'[w] # "trigger"
    BY DEF ThreadTypeOK, Goto
  <2>6. \A v \in Workers : pc[v] \in IoPCs => cur(v) \in Fibers
    BY DEF TaskInHand, HandPCs, HoldPCs, cur, Task
  <2>7. \A v \in Workers : pc[v] = "trigger" => out[v].id \in Fibers
    BY DEF TaskInHand, Task
  <2>8. UNCHANGED <<armed, evs, task, out>>
    OBVIOUS
  <2> QED BY <2>2, <2>3, <2>4, <2>5, <2>6, <2>7, <2>8 DEF BoundOK, cur
<1>5. TaskInHand' /\ Sites'
  BY DEF TaskInHand, Sites, Goto, ThreadTypeOK, HandPCs, HoldPCs, IoPCs,
         StoppingPCs
<1> QED BY <1>1, <1>2, <1>3, <1>4, <1>5

LEMMA T_ioRetry ==
  ASSUME TInv, NEW w \in Workers, ioRetry(w)
  PROVE  TInv'
<1> USE ThreadIds DEF TInv, TypeOK, SchedTypeOK, ioRetry, SysFunc, fiberVars,
                      boundVars, ioVars, chanVars, kernVars
<1>1. FiberTypeOK' /\ QueueTypeOK'
  BY DEF FiberTypeOK, QueueTypeOK
<1>2. ThreadTypeOK'
  BY PcNames DEF ThreadTypeOK, Goto
<1>3. IoTypeOK'
  BY DEF IoTypeOK, cur, Task, ThreadTypeOK, TaskInHand, HandPCs, HoldPCs,
         IoPCs
<1>4. TaskInHand' /\ Sites' /\ BoundOK'
  BY DEF TaskInHand, Sites, BoundOK, Goto, ThreadTypeOK, HandPCs, HoldPCs,
         IoPCs, StoppingPCs, cur
<1> QED BY <1>1, <1>2, <1>3, <1>4

LEMMA T_registerEvent ==
  ASSUME TInv, NEW w \in Workers, registerEvent(w)
  PROVE  TInv'
<1> USE ThreadIds DEF TInv, TypeOK, SchedTypeOK, registerEvent, updateChannel,
                      fiberVars, boundVars, ioVars, chanVars, kernVars
<1>1. FiberTypeOK' /\ QueueTypeOK'
  BY DEF FiberTypeOK, QueueTypeOK
<1>2. ThreadTypeOK'
  BY PcNames DEF ThreadTypeOK, Goto
<1>3. IoTypeOK'
  BY DEF IoTypeOK, cur, Task, ThreadTypeOK, TaskInHand, HandPCs, HoldPCs,
         IoPCs
<1>4. BoundOK'
  BY DEF BoundOK, Goto, IoTypeOK, cur, Task, ThreadTypeOK, TaskInHand,
         HandPCs, HoldPCs, IoPCs
<1>5. TaskInHand' /\ Sites'
  BY DEF TaskInHand, Sites, Goto, ThreadTypeOK, HandPCs, HoldPCs, IoPCs,
         StoppingPCs
<1> QED BY <1>1, <1>2, <1>3, <1>4, <1>5

LEMMA T_pendingAddHold ==
  ASSUME TInv, NEW w \in Workers, pendingAddHold(w)
  PROVE  TInv'
<1> USE ThreadIds DEF TInv, TypeOK, SchedTypeOK, pendingAddHold, fiberVars,
                      boundVars, ioVars
<1>1. QueueTypeOK' /\ IoTypeOK'
  BY DEF QueueTypeOK, IoTypeOK
<1>2. FiberTypeOK'
  BY DEF FiberTypeOK, hold, State, cur, Task, ThreadTypeOK, TaskInHand,
         HandPCs, HoldPCs, IoPCs
<1>3. ThreadTypeOK'
  BY PcNames DEF ThreadTypeOK, Goto
<1>4. TaskInHand' /\ Sites' /\ BoundOK'
  BY DEF TaskInHand, Sites, BoundOK, Goto, ThreadTypeOK, HandPCs, HoldPCs,
         IoPCs, StoppingPCs, cur
<1> QED BY <1>1, <1>2, <1>3, <1>4

LEMMA T_unregisterEvent ==
  ASSUME TInv, NEW w \in Workers, unregisterEvent(w)
  PROVE  TInv'
<1> USE ThreadIds DEF TInv, TypeOK, SchedTypeOK, unregisterEvent,
                      updateChannel, fiberVars, boundVars, ioVars, chanVars,
                      kernVars
<1>1. FiberTypeOK' /\ QueueTypeOK'
  BY DEF FiberTypeOK, QueueTypeOK
<1>2. ThreadTypeOK'
  BY PcNames DEF ThreadTypeOK, Goto
<1>3. IoTypeOK'
  BY DEF IoTypeOK, cur, Task, ThreadTypeOK, TaskInHand, HandPCs, HoldPCs,
         IoPCs
<1>4. BoundOK'
  BY DEF BoundOK, Goto, IoTypeOK, cur, Task, ThreadTypeOK, TaskInHand,
         HandPCs, HoldPCs, IoPCs
<1>5. TaskInHand' /\ Sites'
  BY DEF TaskInHand, Sites, Goto, ThreadTypeOK, HandPCs, HoldPCs, IoPCs,
         StoppingPCs
<1> QED BY <1>1, <1>2, <1>3, <1>4, <1>5

LEMMA T_pendingSub ==
  ASSUME TInv, NEW w \in Workers, pendingSub(w)
  PROVE  TInv'
<1> USE ThreadIds DEF TInv, TypeOK, SchedTypeOK, pendingSub, fiberVars,
                      boundVars, ioVars
<1>1. FiberTypeOK' /\ QueueTypeOK' /\ IoTypeOK'
  BY DEF FiberTypeOK, QueueTypeOK, IoTypeOK
<1>2. ThreadTypeOK'
  BY PcNames DEF ThreadTypeOK, Goto
<1>3. TaskInHand' /\ Sites' /\ BoundOK'
  BY DEF TaskInHand, Sites, BoundOK, Goto, ThreadTypeOK, HandPCs, HoldPCs,
         IoPCs, StoppingPCs, cur
<1> QED BY <1>1, <1>2, <1>3

LEMMA T_eventCallback ==
  ASSUME TInv, NEW w \in Workers, eventCallback(w)
  PROVE  TInv'
<1> USE ThreadIds DEF TInv, TypeOK, SchedTypeOK, eventCallback, fiberVars,
                      boundVars, ioVars, chanVars, kernVars
<1>1. FiberTypeOK'
  BY DEF FiberTypeOK
<1>2. QueueTypeOK'
  <2>1. cur(w) \in Fibers
    BY DEF TaskInHand, HandPCs, cur, Task
  <2>2. FiberOf(cur(w)) \in Task
    BY <2>1 DEF FiberOf, Task
  <2>3. \/ q' = q
        \/ q' = [q EXCEPT ![w] = Append(@, FiberOf(cur(w)))]
    BY DEF Push
  <2>4. q \in [Workers -> Seq(Task)]
    BY DEF QueueTypeOK
  <2>5. Append(q[w], FiberOf(cur(w))) \in Seq(Task)
    BY <2>2, <2>4, SeqOps
  <2>6. q' \in [Workers -> Seq(Task)]
    BY <2>3, <2>4, <2>5
  <2> QED BY <2>6 DEF QueueTypeOK
<1>3. ThreadTypeOK'
  BY PcNames DEF ThreadTypeOK, Goto
<1>4. IoTypeOK'
  BY DEF IoTypeOK, cur, Task, ThreadTypeOK, TaskInHand, HandPCs, HoldPCs,
         IoPCs
<1>5. TaskInHand' /\ Sites' /\ BoundOK'
  BY DEF TaskInHand, Sites, BoundOK, Goto, ThreadTypeOK, HandPCs, HoldPCs,
         IoPCs, StoppingPCs, cur
<1> QED BY <1>1, <1>2, <1>3, <1>4, <1>5

LEMMA T_arrive ==
  ASSUME TInv, NEW f \in Fibers, arrive(f)
  PROVE  TInv'
<1> USE ThreadIds DEF TInv, TypeOK, SchedTypeOK, arrive, schedVars, fiberVars,
                      boundVars, ioVars, chanVars, kernVars
<1>1. FiberTypeOK' /\ QueueTypeOK' /\ ThreadTypeOK' /\ TaskInHand' /\ Sites' /\ BoundOK'
  BY DEF FiberTypeOK, QueueTypeOK, ThreadTypeOK, TaskInHand, Sites, BoundOK,
         cur
<1>2. IoTypeOK'
  BY DEF IoTypeOK
<1> QED BY <1>1, <1>2

LEMMA T_init ==
  ASSUME TInv, init, UNCHANGED ioVars
  PROVE  TInv'
<1> USE ThreadIds DEF TInv, TypeOK, SchedTypeOK, init, fiberVars, boundVars,
                      ioVars
<1>1. FiberTypeOK' /\ QueueTypeOK' /\ IoTypeOK'
  BY DEF FiberTypeOK, QueueTypeOK, IoTypeOK
<1>2. ThreadTypeOK'
  BY PcNames DEF ThreadTypeOK
<1>3. TaskInHand'
  BY DEF TaskInHand, ThreadTypeOK, HandPCs, HoldPCs, IoPCs
<1>4. Sites'
  BY DEF Sites, ThreadTypeOK, StoppingPCs
<1>5. BoundOK'
  BY DEF BoundOK, cur, ThreadTypeOK, IoPCs
<1> QED BY <1>1, <1>2, <1>3, <1>4, <1>5

LEMMA T_stopCall ==
  ASSUME TInv, stopCall, UNCHANGED ioVars
  PROVE  TInv'
<1> USE ThreadIds DEF TInv, TypeOK, SchedTypeOK, stopCall, fiberVars,
                      boundVars, ioVars
<1>1. FiberTypeOK' /\ QueueTypeOK' /\ IoTypeOK'
  BY DEF FiberTypeOK, QueueTypeOK, IoTypeOK
<1>2. ThreadTypeOK'
  BY PcNames DEF ThreadTypeOK, Goto
<1>3. TaskInHand' /\ Sites' /\ BoundOK'
  BY DEF TaskInHand, Sites, BoundOK, Goto, ThreadTypeOK, HandPCs, HoldPCs,
         IoPCs, StoppingPCs, cur
<1> QED BY <1>1, <1>2, <1>3

LEMMA T_stopAgain ==
  ASSUME TInv, stopAgain, UNCHANGED ioVars
  PROVE  TInv'
<1> USE ThreadIds DEF TInv, TypeOK, SchedTypeOK, stopAgain, fiberVars,
                      boundVars, ioVars
<1>1. FiberTypeOK' /\ QueueTypeOK' /\ IoTypeOK'
  BY DEF FiberTypeOK, QueueTypeOK, IoTypeOK
<1>2. ThreadTypeOK'
  BY PcNames DEF ThreadTypeOK, Goto
<1>3. TaskInHand' /\ Sites' /\ BoundOK'
  BY DEF TaskInHand, Sites, BoundOK, Goto, ThreadTypeOK, HandPCs, HoldPCs,
         IoPCs, StoppingPCs, cur
<1> QED BY <1>1, <1>2, <1>3

LEMMA T_join ==
  ASSUME TInv, join, UNCHANGED ioVars
  PROVE  TInv'
<1> USE ThreadIds DEF TInv, TypeOK, SchedTypeOK, join, fiberVars, boundVars,
                      ioVars
<1>1. FiberTypeOK' /\ QueueTypeOK' /\ IoTypeOK'
  BY DEF FiberTypeOK, QueueTypeOK, IoTypeOK
<1>2. ThreadTypeOK'
  BY PcNames DEF ThreadTypeOK, Goto
<1>3. TaskInHand' /\ Sites' /\ BoundOK'
  BY DEF TaskInHand, Sites, BoundOK, Goto, ThreadTypeOK, HandPCs, HoldPCs,
         IoPCs, StoppingPCs, cur
<1> QED BY <1>1, <1>2, <1>3

(* Every step of stopping() is one of the two kinds above.                 *)
LEMMA StoppingSteps ==
  ASSUME TInv, NEW t \in Threads,
         stoppingFlags(t) \/ stoppingPending(t) \/ stoppingQueue(t)
  PROVE  /\ pc[t] \in StoppingPCs
         /\ \/ \E p \in {"stop_pending", "stop_queue"}, i \in Workers :
                  StoppingNext(t, p, i)
            \/ \E b \in BOOLEAN : StoppingReturn(t, b)
<1>1. CASE stoppingFlags(t)
  BY <1>1, ThreadIds DEF stoppingFlags, StoppingPCs
<1>2. CASE stoppingPending(t)
  BY <1>2, ThreadIds DEF stoppingPending, StoppingPCs
<1>3. CASE stoppingQueue(t)
  <2>1. scan[t] \in Workers
    BY DEF TInv, TypeOK, SchedTypeOK, ThreadTypeOK
  <2>2. scan[t] + 1 < N => scan[t] + 1 \in Workers
    BY <2>1, NAssumption DEF Workers
  <2> QED BY <1>3, <2>2 DEF stoppingQueue, StoppingPCs
<1> QED BY <1>1, <1>2, <1>3

LEMMA T_call ==
  ASSUME TInv, NEW t \in Threads, call(t), UNCHANGED ioVars
  PROVE  TInv'
<1>1. CASE submitPush(t) \/ tickle(t)
  BY <1>1, T_submitPush, T_tickle
<1>2. CASE stoppingFlags(t) \/ stoppingPending(t) \/ stoppingQueue(t)
  <2>1. pc[t] \in StoppingPCs
    BY <1>2, StoppingSteps
  <2>2. CASE \E p \in {"stop_pending", "stop_queue"}, i \in Workers :
                StoppingNext(t, p, i)
    BY <2>1, <2>2, T_stopRead
  <2>3. CASE \E b \in BOOLEAN : StoppingReturn(t, b)
    BY <2>1, <2>3, T_stopAnswer
  <2> QED BY <1>2, <2>2, <2>3, StoppingSteps
<1> QED BY <1>1, <1>2 DEF call

LEMMA T_worker ==
  ASSUME TInv, NEW w \in Workers, worker(w)
  PROVE  TInv'
<1>1. CASE run(w) /\ UNCHANGED ioVars
  BY <1>1, T_popOwn, T_popNone, T_stealTask, T_stealPass, T_countIn, T_beginCb,
     T_lockFiber, T_handBack, T_dropTerm, T_resumeFiber, T_requeue,
     T_unlockFiber, T_countOut, T_idleQuit
     DEF run
<1>2. CASE userBody(w)
  BY <1>2, ThreadIds, T_bodyReturn, T_bodyYield, T_bodyHold, T_submitCb,
     T_submitNew, T_submitFiber
     DEF userBody, body
<1>3. CASE idle(w)
  BY <1>3, T_idleEnter, T_hasTask, T_hasNoTask, T_poll, T_idleWoke,
     T_readEventFd, T_handleEvent, T_triggerPush, T_idleHandled
     DEF idle
<1>4. CASE doIo(w)
  BY <1>4, T_ioEnter, T_ioRetry, T_registerEvent, T_pendingAddHold,
     T_unregisterEvent, T_pendingSub, T_eventCallback
     DEF doIo
<1>5. CASE call(w) /\ UNCHANGED ioVars
  BY <1>5, ThreadIds, T_call
<1>6. CASE writeEventFd(w)
  BY <1>6, ThreadIds, T_writeEventFd
<1> QED BY <1>1, <1>2, <1>3, <1>4, <1>5, <1>6 DEF worker

LEMMA TInvNext == TInv /\ [Next]_vars => TInv'
<1> SUFFICES ASSUME TInv, [Next]_vars
             PROVE  TInv'
  OBVIOUS
<1>1. ASSUME NEW w \in Workers, worker(w)
      PROVE  TInv'
  BY <1>1, T_worker
<1>2. ASSUME NEW w \in Workers, pollInterrupted(w)
      PROVE  TInv'
  BY <1>2, T_pollInterrupted
<1>3. CASE mainStart
  BY <1>3, ThreadIds, T_init, T_submitCb, T_submitNew, T_submitFiber,
     T_stopCall, T_stopAgain
     DEF mainStart, mainSubmit
<1>4. CASE mainFinish
  BY <1>4, ThreadIds, T_call, T_join, T_writeEventFd DEF mainFinish
<1>5. ASSUME NEW f \in Fibers, arrive(f)
      PROVE  TInv'
  BY <1>5, T_arrive
<1>6. CASE UNCHANGED vars
  BY <1>6
     DEF vars, schedVars, ioVars, TInv, TypeOK, SchedTypeOK, FiberTypeOK,
         QueueTypeOK, ThreadTypeOK, IoTypeOK, TaskInHand, Sites, BoundOK, cur
<1> QED BY <1>1, <1>2, <1>3, <1>4, <1>5, <1>6 DEF Next

LEMMA TInvAlways == Spec => []TInv
BY TInvInit, TInvNext, PTL DEF Spec

(* Type correctness: whatever is submitted, yields, waits for I/O or is    *)
(* stopped, and for every number of workers, every index stays inside the  *)
(* vector of queues and every variable keeps its type.                     *)
THEOREM TypeCorrect == Spec => []TypeOK
<1>1. TInv => TypeOK
  BY DEF TInv
<1> QED BY <1>1, TInvAlways, PTL

-----------------------------------------------------------------------------
(***************************************************************************)
(* No wake-up is lost                                                      *)
(*                                                                         *)
(* The argument is the one behind the order of idle() and submit(): a      *)
(* worker publishes idling before it looks at its queue for the last time, *)
(* and a submitter pushes before it looks at idling.  Most steps do not    *)
(* touch any of this (Quiet below); the three that do are submitPush,      *)
(* tickle and writeEventFd.                                                *)
(***************************************************************************)

(* worker w is past idling.store(true) and has not taken it back           *)
Idles(w) == \/ pc[w] \in {"has_task", "poll"}
            \/ pc[w] \in StoppingPCs /\ site[w] = "pre"

(* A worker that may block has told the others.                            *)
IdleFlag == \A w \in Workers : Idles(w) => idling[w]

WInv == NoLostWakeup /\ IdleFlag

(* A step of thread t that neither answers for a wake-up nor creates the   *)
(* need for one: t is not inside tickle(), no other thread moves, no other *)
(* queue becomes non-empty, and t does not block over a task.              *)
Quiet(t) ==
  /\ pc[t] \notin {"tickle", "wake"}
  /\ \A s \in Threads \ {t} :
        pc'[s] = pc[s] /\ tgt'[s] = tgt[s] /\ site'[s] = site[s]
  /\ \A w \in Workers \ {t} : /\ q'[w] # <<>> => q[w] # <<>>
                              /\ evfd'[w] = evfd[w]
                              /\ idling'[w] = idling[w]
  /\ t \in Workers => (pc'[t] = "poll" => q'[t] = <<>>) /\ (Idles(t)' => idling'[t])

LEMMA WInvInit == Init => WInv
BY ThreadIds
   DEF Init, SchedInit, WInv, NoLostWakeup, IdleFlag, Idles, StoppingPCs, Main

LEMMA QuietKeeps ==
  ASSUME TInv, WInv, NEW t \in Threads, Quiet(t)
  PROVE  WInv'
<1>1. NoLostWakeup'
  <2> SUFFICES ASSUME NEW w \in Workers, pc'[w] = "poll", q'[w] # <<>>
               PROVE  \/ evfd'[w]
                      \/ \E s \in Threads : pc'[s] \in {"tickle", "wake"} /\ tgt'[s] = w
    BY DEF NoLostWakeup
  <2>1. w # t /\ w \in Threads
    BY ThreadIds DEF Quiet
  <2>2. pc[w] = "poll" /\ q[w] # <<>> /\ evfd'[w] = evfd[w]
    BY <2>1 DEF Quiet
  <2>3. CASE evfd[w]
    BY <2>2, <2>3
  <2>4. CASE \E s \in Threads : pc[s] \in {"tickle", "wake"} /\ tgt[s] = w
    BY <2>4 DEF Quiet
  <2> QED BY <2>2, <2>3, <2>4 DEF WInv, NoLostWakeup
<1>2. IdleFlag'
  <2> SUFFICES ASSUME NEW w \in Workers, Idles(w)'
               PROVE  idling'[w]
    BY DEF IdleFlag
  <2>1. CASE w = t
    BY <2>1 DEF Quiet
  <2>2. CASE w # t
    BY <2>2, ThreadIds DEF Quiet, WInv, IdleFlag, Idles
  <2> QED BY <2>1, <2>2
<1> QED BY <1>1, <1>2 DEF WInv

-----------------------------------------------------------------------------
LEMMA QuietRun ==
  ASSUME TInv, WInv, NEW w \in Workers, run(w), UNCHANGED ioVars
  PROVE  Quiet(w)
<1> USE DEF TInv, TypeOK, SchedTypeOK, ThreadTypeOK, ioVars
<1>1. CASE popOwn(w)
  BY <1>1, ThreadIds
     DEF Quiet, Idles, StoppingPCs, Goto, popOwn, QueueTypeOK
<1>2. CASE popNone(w)
  BY <1>2, ThreadIds
     DEF Quiet, Idles, StoppingPCs, Goto, popNone, StealFrom
<1>3. CASE stealTask(w)
  BY <1>3, ThreadIds, VictimWorker, SeqOps
     DEF Quiet, Idles, StoppingPCs, Goto, stealTask, QueueTypeOK
<1>4. CASE stealPass(w)
  BY <1>4, ThreadIds
     DEF Quiet, Idles, StoppingPCs, Goto, stealPass, StealFrom
<1>5. CASE countIn(w)
  BY <1>5, ThreadIds
     DEF Quiet, Idles, StoppingPCs, Goto, countIn
<1>6. CASE beginCb(w)
  BY <1>6, ThreadIds
     DEF Quiet, Idles, StoppingPCs, Goto, beginCb
<1>7. CASE lockFiber(w)
  BY <1>7, ThreadIds
     DEF Quiet, Idles, StoppingPCs, Goto, lockFiber
<1>8. CASE handBack(w)
  BY <1>8, ThreadIds
     DEF Quiet, Idles, StoppingPCs, Goto, handBack, Push, QueueTypeOK
<1>9. CASE dropTerm(w)
  BY <1>9, ThreadIds
     DEF Quiet, Idles, StoppingPCs, Goto, dropTerm
<1>10. CASE resumeFiber(w)
  BY <1>10, ThreadIds
     DEF Quiet, Idles, StoppingPCs, Goto, resumeFiber
<1>11. CASE requeue(w)
  BY <1>11, ThreadIds
     DEF Quiet, Idles, StoppingPCs, Goto, requeue, Push, QueueTypeOK
<1>12. CASE unlockFiber(w)
  BY <1>12, ThreadIds
     DEF Quiet, Idles, StoppingPCs, Goto, unlockFiber
<1>13. CASE countOut(w)
  BY <1>13, ThreadIds
     DEF Quiet, Idles, StoppingPCs, Goto, countOut
<1>14. CASE idleQuit(w)
  BY <1>14, ThreadIds
     DEF Quiet, Idles, StoppingPCs, Goto, idleQuit, QueueTypeOK
<1> QED BY <1>1, <1>2, <1>3, <1>4, <1>5, <1>6, <1>7, <1>8, <1>9, <1>10,
           <1>11, <1>12, <1>13, <1>14
        DEF run

LEMMA QuietBody ==
  ASSUME TInv, WInv, NEW w \in Workers, body(w), UNCHANGED ioVars
  PROVE  Quiet(w)
<1> USE DEF TInv, TypeOK, SchedTypeOK, ThreadTypeOK, ioVars
<1>1. CASE bodyReturn(w)
  BY <1>1, ThreadIds
     DEF Quiet, Idles, StoppingPCs, Goto, bodyReturn
<1>2. CASE bodyYield(w)
  BY <1>2, ThreadIds
     DEF Quiet, Idles, StoppingPCs, Goto, bodyYield
<1>3. CASE bodyHold(w)
  BY <1>3, ThreadIds
     DEF Quiet, Idles, StoppingPCs, Goto, bodyHold
<1>4. CASE \E f \in Fibers : submitCb(w, f) \/ submitNew(w, f) \/ submitFiber(w, f)
  BY <1>4, ThreadIds
     DEF Quiet, Idles, StoppingPCs, Goto, submitCb, submitNew, submitFiber,
         Claim, MaySubmit
<1> QED BY <1>1, <1>2, <1>3, <1>4 DEF body

LEMMA QuietIdle ==
  ASSUME TInv, WInv, NEW w \in Workers, idle(w) \/ pollInterrupted(w)
  PROVE  Quiet(w)
<1> USE DEF TInv, TypeOK, SchedTypeOK, ThreadTypeOK, ioVars
<1>1. CASE idleEnter(w)
  BY <1>1, ThreadIds
     DEF Quiet, Idles, StoppingPCs, Goto, idleEnter, QueueTypeOK
<1>2. CASE hasTask(w)
  BY <1>2, ThreadIds
     DEF Quiet, Idles, StoppingPCs, Goto, hasTask, QueueTypeOK
<1>3. CASE hasNoTask(w)
  BY <1>3, ThreadIds
     DEF Quiet, Idles, StoppingPCs, Goto, hasNoTask, WInv, IdleFlag
<1>4. CASE poll(w)
  BY <1>4, ThreadIds
     DEF Quiet, Idles, StoppingPCs, Goto, poll
<1>5. CASE pollInterrupted(w)
  BY <1>5, ThreadIds
     DEF Quiet, Idles, StoppingPCs, Goto, pollInterrupted
<1>6. CASE idleWoke(w)
  BY <1>6, ThreadIds
     DEF Quiet, Idles, StoppingPCs, Goto, idleWoke, QueueTypeOK
<1>7. CASE readEventFd(w)
  BY <1>7, ThreadIds
     DEF Quiet, Idles, StoppingPCs, Goto, readEventFd, schedVars, IoTypeOK
<1>8. CASE \E f \in Fibers : handleEvent(w, f)
  BY <1>8, ThreadIds
     DEF Quiet, Idles, StoppingPCs, Goto, handleEvent
<1>9. CASE triggerPush(w)
  BY <1>9, ThreadIds
     DEF Quiet, Idles, StoppingPCs, Goto, triggerPush, Push, BoundOK,
         QueueTypeOK
<1>10. CASE idleHandled(w)
  BY <1>10, ThreadIds
     DEF Quiet, Idles, StoppingPCs, Goto, idleHandled
<1> QED BY <1>1, <1>2, <1>3, <1>4, <1>5, <1>6, <1>7, <1>8, <1>9, <1>10 DEF idle

LEMMA QuietIo ==
  ASSUME TInv, WInv, NEW w \in Workers, doIo(w)
  PROVE  Quiet(w)
<1> USE DEF TInv, TypeOK, SchedTypeOK, ThreadTypeOK, ioVars
<1>1. CASE ioEnter(w)
  BY <1>1, ThreadIds
     DEF Quiet, Idles, StoppingPCs, Goto, ioEnter, SysFunc
<1>2. CASE ioRetry(w)
  BY <1>2, ThreadIds
     DEF Quiet, Idles, StoppingPCs, Goto, ioRetry, SysFunc
<1>3. CASE registerEvent(w)
  BY <1>3, ThreadIds
     DEF Quiet, Idles, StoppingPCs, Goto, registerEvent, updateChannel
<1>4. CASE pendingAddHold(w)
  BY <1>4, ThreadIds
     DEF Quiet, Idles, StoppingPCs, Goto, pendingAddHold
<1>5. CASE unregisterEvent(w)
  BY <1>5, ThreadIds
     DEF Quiet, Idles, StoppingPCs, Goto, unregisterEvent, updateChannel
<1>6. CASE pendingSub(w)
  BY <1>6, ThreadIds
     DEF Quiet, Idles, StoppingPCs, Goto, pendingSub
<1>7. CASE eventCallback(w)
  BY <1>7, ThreadIds
     DEF Quiet, Idles, StoppingPCs, Goto, eventCallback, Push, QueueTypeOK
<1> QED BY <1>1, <1>2, <1>3, <1>4, <1>5, <1>6, <1>7 DEF doIo

(* The owner's calls, and the steps of stopping() on any thread.           *)
LEMMA QuietMain ==
  ASSUME TInv, WInv, mainSubmit \/ stopCall \/ stopAgain \/ join, UNCHANGED ioVars
  PROVE  Quiet(Main)
<1> USE DEF TInv, TypeOK, SchedTypeOK, ThreadTypeOK, ioVars
<1>1. CASE mainSubmit
  BY <1>1, ThreadIds
     DEF Quiet, Goto, mainSubmit, submitCb, submitNew, submitFiber, Claim,
         MaySubmit
<1>2. CASE stopCall
  BY <1>2, ThreadIds DEF Quiet, Goto, stopCall
<1>3. CASE stopAgain
  BY <1>3, ThreadIds DEF Quiet, Goto, stopAgain
<1>4. CASE join
  BY <1>4, ThreadIds DEF Quiet, Goto, join
<1> QED BY <1>1, <1>2, <1>3, <1>4

LEMMA QuietStopping ==
  ASSUME TInv, WInv, NEW t \in Threads, UNCHANGED ioVars,
         stoppingFlags(t) \/ stoppingPending(t) \/ stoppingQueue(t)
  PROVE  Quiet(t)
<1>1. pc[t] \in StoppingPCs
  BY StoppingSteps
<1>2. CASE \E p \in {"stop_pending", "stop_queue"}, i \in Workers :
              StoppingNext(t, p, i)
  BY <1>1, <1>2, ThreadIds
     DEF Quiet, Idles, StoppingPCs, Goto, StoppingNext, TInv, TypeOK,
         SchedTypeOK, ThreadTypeOK, WInv, IdleFlag, ioVars
<1>3. CASE \E b \in BOOLEAN : StoppingReturn(t, b)
  <2>1. t \in Workers => site[t] \in {"pre", "post"}
    BY <1>1 DEF TInv, Sites
  <2>2. t \in Workers /\ pc'[t] \in {"has_task", "poll"} => idling[t]
    BY <1>1, <1>3, <2>1
       DEF Goto, StoppingReturn, StoppingPCs, Idles, WInv, IdleFlag, TInv,
           TypeOK, SchedTypeOK, ThreadTypeOK
  <2>3. pc'[t] \notin StoppingPCs /\ pc'[t] # "poll"
    BY <1>3
       DEF Goto, StoppingReturn, StoppingPCs, TInv, TypeOK, SchedTypeOK,
           ThreadTypeOK
  <2> QED BY <1>1, <1>3, <2>2, <2>3, ThreadIds
          DEF Quiet, Idles, StoppingPCs, Goto, StoppingReturn, TInv, TypeOK,
              SchedTypeOK, ThreadTypeOK, ioVars
<1> QED BY <1>2, <1>3, StoppingSteps

-----------------------------------------------------------------------------
(* The end of a tickle does not make a worker block or idle.               *)
LEMMA TickleEndsIdle ==
  ASSUME TInv, WInv, NEW t \in Threads, pc[t] \in {"push", "tickle", "wake"},
         \E p \in {"main", "running", "tickle", "wake", "stopping", "join"} :
            /\ pc' = [pc EXCEPT ![t] = p]
            /\ t \in Workers => p \in {"running", "tickle", "wake"},
         UNCHANGED <<site, idling>>
  PROVE  /\ IdleFlag'
         /\ \A w \in Workers : pc'[w] = "poll" => pc[w] = "poll" /\ w # t
BY ThreadIds
   DEF WInv, IdleFlag, Idles, StoppingPCs, TInv, TypeOK, SchedTypeOK,
       ThreadTypeOK

(* The submitter pushes first and looks at idling afterwards.              *)
LEMMA W_submitPush ==
  ASSUME TInv, WInv, NEW t \in Threads, submitPush(t), UNCHANGED ioVars
  PROVE  WInv'
<1> DEFINE v == tgt[t]
<1>1. v \in Workers /\ pc[t] = "push" /\ UNCHANGED <<site, idling, evfd>>
  BY DEF submitPush, TInv, TypeOK, SchedTypeOK, ThreadTypeOK, ioVars
<1>2. \A w \in Workers : w # v => q'[w] = q[w]
  BY <1>1 DEF submitPush, Push, TInv, TypeOK, SchedTypeOK, QueueTypeOK
<1>3. \A s \in Threads : s # t => pc'[s] = pc[s] /\ tgt'[s] = tgt[s]
  BY DEF submitPush, TickleReturn, Goto, TInv, TypeOK, SchedTypeOK, ThreadTypeOK
<1>4. q[v] = <<>> => pc'[t] = "tickle" /\ tgt'[t] = v
  BY DEF submitPush, Goto, TInv, TypeOK, SchedTypeOK, ThreadTypeOK
<1>5. \E p \in {"main", "running", "tickle"} :
         /\ pc' = [pc EXCEPT ![t] = p]
         /\ t \in Workers => p \in {"running", "tickle"}
  BY ThreadIds DEF submitPush, TickleReturn, Goto
<1>6. IdleFlag' /\ \A w \in Workers : pc'[w] = "poll" => pc[w] = "poll" /\ w # t
  BY <1>1, <1>5, TickleEndsIdle
<1>7. NoLostWakeup'
  <2> SUFFICES ASSUME NEW w \in Workers, pc'[w] = "poll", q'[w] # <<>>
               PROVE  \/ evfd'[w]
                      \/ \E s \in Threads : pc'[s] \in {"tickle", "wake"} /\ tgt'[s] = w
    BY DEF NoLostWakeup
  <2>1. CASE q[w] = <<>>
    BY <1>2, <1>4, <2>1
  <2>2. CASE q[w] # <<>>
    <3>1. \/ evfd[w]
          \/ \E s \in Threads : pc[s] \in {"tickle", "wake"} /\ tgt[s] = w
      BY <1>6, <2>2 DEF WInv, NoLostWakeup
    <3> QED BY <1>1, <1>3, <3>1
  <2> QED BY <2>1, <2>2
<1> QED BY <1>6, <1>7 DEF WInv

(* A tickle that gives up has seen idling false, so its worker is awake.   *)
LEMMA W_tickle ==
  ASSUME TInv, WInv, NEW t \in Threads, tickle(t), UNCHANGED ioVars
  PROVE  WInv'
<1>1. pc[t] = "tickle" /\ UNCHANGED <<q, site, idling, evfd>>
  BY DEF tickle, ioVars
<1>2. CASE idling[tgt[t]]
  <2>1. pc' = [pc EXCEPT ![t] = "wake"] /\ tgt' = tgt
    BY <1>2 DEF tickle, Goto
  <2>2. IdleFlag' /\ \A w \in Workers : pc'[w] = "poll" => pc[w] = "poll" /\ w # t
    BY <1>1, <2>1, TickleEndsIdle
  <2>3. \A s \in Threads : pc[s] \in {"tickle", "wake"} => pc'[s] \in {"tickle", "wake"}
    BY <2>1 DEF TInv, TypeOK, SchedTypeOK, ThreadTypeOK
  <2> QED BY <1>1, <2>1, <2>2, <2>3 DEF WInv, NoLostWakeup
<1>3. CASE ~idling[tgt[t]]
  <2>1. TickleReturn(t) \/ TickleLoop(t)
    BY <1>3 DEF tickle
  <2>2. IdleFlag' /\ \A w \in Workers : pc'[w] = "poll" => pc[w] = "poll" /\ w # t
    BY <1>1, <2>1, TickleEnds, TickleEndsIdle
  <2>3. \A s \in Threads : s # t => pc'[s] = pc[s] /\ tgt'[s] = tgt[s]
    BY <2>1 DEF TickleReturn, TickleLoop, Goto, TInv, TypeOK, SchedTypeOK,
                ThreadTypeOK
  <2>4. \A w \in Workers : pc[w] = "poll" => tgt[t] # w
    BY <1>3 DEF WInv, IdleFlag, Idles
  <2> QED BY <1>1, <2>2, <2>3, <2>4 DEF WInv, NoLostWakeup
<1> QED BY <1>2, <1>3

LEMMA W_writeEventFd ==
  ASSUME TInv, WInv, NEW t \in Threads, writeEventFd(t)
  PROVE  WInv'
<1>1. pc[t] = "wake" /\ UNCHANGED <<q, site, idling>>
  BY DEF writeEventFd, wakeCall
<1>2. TickleReturn(t) \/ TickleLoop(t)
  BY DEF writeEventFd, wakeCall
<1>3. IdleFlag' /\ \A w \in Workers : pc'[w] = "poll" => pc[w] = "poll" /\ w # t
  BY <1>1, <1>2, TickleEnds, TickleEndsIdle
<1>4. \A s \in Threads : s # t => pc'[s] = pc[s] /\ tgt'[s] = tgt[s]
  BY <1>2 DEF TickleReturn, TickleLoop, Goto, TInv, TypeOK, SchedTypeOK,
              ThreadTypeOK
<1>5. \A w \in Workers : evfd[w] \/ w = tgt[t] => evfd'[w]
  BY DEF writeEventFd, TInv, TypeOK, IoTypeOK
<1>6. NoLostWakeup'
  <2> SUFFICES ASSUME NEW w \in Workers, pc'[w] = "poll", q'[w] # <<>>, ~evfd'[w]
               PROVE  \E s \in Threads : pc'[s] \in {"tickle", "wake"} /\ tgt'[s] = w
    BY DEF NoLostWakeup
  <2>1. pc[w] = "poll" /\ q[w] # <<>> /\ ~evfd[w] /\ w # tgt[t]
    BY <1>1, <1>3, <1>5
  <2>2. PICK s \in Threads : pc[s] \in {"tickle", "wake"} /\ tgt[s] = w
    BY <2>1 DEF WInv, NoLostWakeup
  <2> QED BY <1>4, <2>1, <2>2
<1> QED BY <1>3, <1>6 DEF WInv

-----------------------------------------------------------------------------
LEMMA W_call ==
  ASSUME TInv, WInv, NEW t \in Threads, call(t), UNCHANGED ioVars
  PROVE  WInv'
BY W_submitPush, W_tickle, QuietStopping, QuietKeeps DEF call

LEMMA W_worker ==
  ASSUME TInv, WInv, NEW w \in Workers, worker(w) \/ pollInterrupted(w)
  PROVE  WInv'
<1>1. CASE run(w) /\ UNCHANGED ioVars
  BY <1>1, ThreadIds, QuietRun, QuietKeeps
<1>2. CASE userBody(w)
  BY <1>2, ThreadIds, QuietBody, QuietKeeps DEF userBody
<1>3. CASE idle(w) \/ pollInterrupted(w)
  BY <1>3, ThreadIds, QuietIdle, QuietKeeps
<1>4. CASE doIo(w)
  BY <1>4, ThreadIds, QuietIo, QuietKeeps
<1>5. CASE call(w) /\ UNCHANGED ioVars
  BY <1>5, ThreadIds, W_call
<1>6. CASE writeEventFd(w)
  BY <1>6, ThreadIds, W_writeEventFd
<1> QED BY <1>1, <1>2, <1>3, <1>4, <1>5, <1>6 DEF worker

(* init() starts every worker in its run loop: nobody blocks.              *)
LEMMA W_init ==
  ASSUME TInv, WInv, init, UNCHANGED ioVars
  PROVE  WInv'
BY ThreadIds DEF init, WInv, NoLostWakeup, IdleFlag, Idles, StoppingPCs

LEMMA WInvNext == TInv /\ WInv /\ [Next]_vars => WInv'
<1> SUFFICES ASSUME TInv, WInv, [Next]_vars
             PROVE  WInv'
  OBVIOUS
<1>1. ASSUME NEW w \in Workers, worker(w) \/ pollInterrupted(w)
      PROVE  WInv'
  BY <1>1, W_worker
<1>2. CASE mainStart
  BY <1>2, ThreadIds, W_init, QuietMain, QuietKeeps DEF mainStart
<1>3. CASE mainFinish
  BY <1>3, ThreadIds, W_call, QuietMain, QuietKeeps, W_writeEventFd
     DEF mainFinish
<1>4. ASSUME NEW f \in Fibers, arrive(f)
      PROVE  WInv'
  BY <1>4
     DEF arrive, schedVars, WInv, NoLostWakeup, IdleFlag, Idles, StoppingPCs
<1>5. CASE UNCHANGED vars
  BY <1>5
     DEF vars, schedVars, ioVars, WInv, NoLostWakeup, IdleFlag, Idles,
         StoppingPCs
<1> QED BY <1>1, <1>2, <1>3, <1>4, <1>5 DEF Next

(* No lost wake-up: for every number of workers and every interleaving of  *)
(* submit(), tickle() and idle(), a worker that is blocked in epoll_wait   *)
(* over a non-empty queue has its eventfd set or about to be set.          *)
THEOREM WakeupNeverLost == Spec => []NoLostWakeup
<1>1. WInv => NoLostWakeup
  BY DEF WInv
<1> QED BY <1>1, TInvAlways, WInvInit, WInvNext, PTL DEF Spec
=============================================================================
