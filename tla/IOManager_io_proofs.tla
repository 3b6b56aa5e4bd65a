------------------------ MODULE IOManager_io_proofs ------------------------
(***************************************************************************)
(* A fiber that waits in do_io is not left waiting for an event that came, *)
(* and the two counters that stopping() reads are what they say, for every *)
(* number of workers and every set of fibers.                              *)
(*                                                                         *)
(* Between the failed call, the registration, hold() and the callback on   *)
(* another worker, the news that a descriptor is ready moves from the      *)
(* kernel to the poller, to the callback, and to the fiber's own task.     *)
(* The invariant Woken says where it is at every moment.                   *)
(***************************************************************************)
EXTENDS IOManager_fiber_proofs, FiniteSetTheorems

(* where do_io has no registration in force                                *)
UnarmedPCs == {"io_call", "io_reg", "io_unpend"}

(* where the events of the last epoll_wait are still being handled         *)
EventPCs == {"woke", "handle", "trigger"}

(* where a fiber that waited is about to give up its registration          *)
WokenPCs == {"locked", "running"}

IoStage ==
  \A w \in Workers : /\ pc[w] \in UnarmedPCs => ~armed[cur(w)]
                     /\ pc[w] = "io_pend" => armed[cur(w)]

(* only a fiber in do_io has a registration                                *)
ArmedState == \A f \in Fibers : armed[f] => state[f] \in {"kRunning", "kHold"}

(* no callback of a registration that is still to come                     *)
RegBounds ==
  /\ \A f \in Fibers : \A n \in fired[f] : n <= reg[f]
  /\ \A x \in InPlay(q, Carried) : x.kind = "event" => x.n <= reg[x.id]

EvsEmpty == \A w \in Workers : pc[w] \notin EventPCs => evs[w] = {}

(* While nobody is about to act on the registration of f: once its         *)
(* callback ran, the task of f is in play; before, a ready descriptor is   *)
(* on the ready list, reported, or its callback is in play.                *)
Woken ==
  \A f \in Fibers :
    armed[f] /\ ~(\E w \in Workers : pc[w] \in WokenPCs /\ cur(w) = f) =>
      IF reg[f] \in fired[f]
      THEN FiberOf(f) \in InPlay(q, Carried)
      ELSE avail[f] => \/ rdy[f]
                       \/ f \in evs[bound[f]]
                       \/ Event(f, reg[f]) \in InPlay(q, Carried)

Armed  == {f \in Fibers : armed[f]}
AtPend == {w \in Workers : pc[w] = "io_pend"}
AtSub  == {w \in Workers : pc[w] = "io_unpend"}

(* PendingCount, of a set that is finite                                   *)
Pending ==
  /\ IsFiniteSet(Armed)
  /\ pending = Cardinality(Armed) - Cardinality(AtPend) + Cardinality(AtSub)

(* The inductive invariant, on top of TInv and FInv.                       *)
EInv == IoStage /\ ArmedState /\ RegBounds /\ EvsEmpty /\ Woken /\ Pending

-----------------------------------------------------------------------------
(* Counting: a set that gains or loses one element.                        *)
LEMMA CountSame ==
  ASSUME NEW S, NEW T, \A x : x \in S <=> x \in T
  PROVE  S = T
OBVIOUS

LEMMA CountMore ==
  ASSUME NEW S, NEW T, NEW e, IsFiniteSet(S), e \notin S,
         \A x : x \in T <=> x \in S \/ x = e
  PROVE  IsFiniteSet(T) /\ Cardinality(T) = Cardinality(S) + 1 /\ Cardinality(S) \in Nat
<1>1. T = S \cup {e}
  OBVIOUS
<1> QED BY <1>1, FS_AddElement, FS_CardinalityType

LEMMA CountLess ==
  ASSUME NEW S, NEW T, NEW e, IsFiniteSet(S), e \in S,
         \A x : x \in T <=> x \in S /\ x # e
  PROVE  IsFiniteSet(T) /\ Cardinality(T) = Cardinality(S) - 1 /\ Cardinality(S) \in Nat
<1>1. T = S \ {e}
  OBVIOUS
<1> QED BY <1>1, FS_RemoveElement, FS_CardinalityType

LEMMA WorkersFinite ==
  IsFiniteSet(Workers) /\ \A S : S \subseteq Workers => IsFiniteSet(S) /\ Cardinality(S) \in Nat
<1>1. IsFiniteSet(Workers)
  BY NAssumption, FS_Interval DEF Workers
<1> QED BY <1>1, FS_Subset, FS_CardinalityType

LEMMA EInvInit == Init => EInv
<1> SUFFICES ASSUME Init PROVE EInv
  OBVIOUS
<1>1. /\ \A w \in Workers : pc[w] = "off" /\ evs[w] = {}
      /\ \A f \in Fibers : ~armed[f] /\ fired[f] = {}
      /\ pending = 0
  BY ThreadIds DEF Init, SchedInit
<1>2. \A x : x \notin InPlay(q, Carried)
  <2>1. \A w \in Workers : q[w] = <<>>
    BY DEF Init, SchedInit
  <2>2. \A t \in Threads : Carried[t] = NoTask
    BY <1>1 DEF Init, SchedInit, Carried
  <2>3. \A w \in Workers : Range(q[w]) = {}
    BY <2>1 DEF Range
  <2> QED BY <2>2, <2>3, PlayIs
<1>3. Pending
  <2>1. Armed = {} /\ AtPend = {} /\ AtSub = {}
    BY <1>1 DEF Armed, AtPend, AtSub
  <2> QED BY <1>1, <2>1, FS_EmptySet DEF Pending
<1> QED BY <1>1, <1>2, <1>3
        DEF EInv, IoStage, ArmedState, RegBounds, EvsEmpty, Woken, UnarmedPCs

-----------------------------------------------------------------------------
(* Steps outside do_io, the poller and the kernel.                         *)

(* The worker does not touch a registration, act on the callback of one,   *)
(* or forget events that were reported to it.                              *)
PlainMove(w) ==
  \/ pc'[w] = pc[w] /\ task'[w] = task[w]
  \/ /\ pc[w] \notin IoPCs /\ pc'[w] \notin IoPCs
     /\ pc[w] \in WokenPCs /\ armed[cur(w)] => pc'[w] \in WokenPCs /\ cur(w)' = cur(w)
     /\ pc[w] = "begin" => pc'[w] # "uncount"
     /\ pc[w] \in EventPCs /\ evs[w] # {} => pc'[w] \in EventPCs

PlainStep ==
  /\ UNCHANGED <<pending, evs, bound, armed, reg, fired, avail, rdy>>
  /\ \A f \in Fibers : armed[f] => state'[f] \in {"kRunning", "kHold"}
  /\ \A w \in Workers : PlainMove(w)

(* The task of a fiber leaves play when a worker locks the fiber, and the  *)
(* callback of a registration when it runs.                                *)
LEMMA PlayKept ==
  ASSUME TInv, FStep, NEW f \in Fibers, NEW n,
         ~(\E w \in Workers : pc[w] \in WokenPCs /\ cur(w) = f)'
  PROVE  /\ FiberOf(f) \in InPlay(q, Carried) => FiberOf(f) \in InPlay(q, Carried)'
         /\ Event(f, n) \in InPlay(q, Carried) =>
               \/ Event(f, n) \in InPlay(q, Carried)'
               \/ \E w \in Workers : /\ pc[w] = "begin" /\ task[w] = Event(f, n)
                                     /\ pc'[w] = "uncount"
<1>1. ~Spent(FiberOf(f))
  <2> DEFINE x == FiberOf(f)
  <2>1. x.kind = "fiber" /\ x.id = f
    BY DEF FiberOf
  <2> HIDE DEF x
  <2>2. ~Spent(x)
    BY <2>1 DEF Spent, WokenPCs, cur
  <2> QED BY <2>2 DEF x
<1>2. Spent(Event(f, n)) => \E w \in Workers : /\ pc[w] = "begin" /\ task[w] = Event(f, n)
                                               /\ pc'[w] = "uncount"
  BY DEF Spent, Event
<1> QED BY <1>1, <1>2, Zenon DEF FStep, PlayStep

LEMMA E_plain ==
  ASSUME TInv, FInv, EInv, FStep, PlainStep
  PROVE  EInv'
<1>1. /\ armed' = armed /\ reg' = reg /\ fired' = fired /\ avail' = avail
      /\ rdy' = rdy /\ evs' = evs /\ bound' = bound /\ pending' = pending
  BY DEF PlainStep
<1>2. IoStage'
  BY <1>1 DEF EInv, IoStage, PlainStep, PlainMove, UnarmedPCs, IoPCs, cur
<1>3. ArmedState'
  BY <1>1 DEF ArmedState, PlainStep
<1>4. RegBounds'
  <2>1. \A x \in InPlay(q, Carried)' : x.kind = "event" => x.n <= reg[x.id]
    <3> SUFFICES ASSUME NEW x \in InPlay(q, Carried)', x.kind = "event"
                 PROVE  x.n <= reg[x.id]
      OBVIOUS
    <3>1. CASE x \in InPlay(q, Carried)
      BY <3>1 DEF EInv, RegBounds
    <3>2. CASE x.id \in Fibers /\ armed[x.id] /\ x.n = reg[x.id]
      BY <3>2 DEF TInv, TypeOK, IoTypeOK
    <3> QED BY <3>1, <3>2 DEF FStep, PlayStep
  <2> QED BY <1>1, <2>1 DEF EInv, RegBounds
<1>5. EvsEmpty'
  BY <1>1 DEF EInv, EvsEmpty, PlainStep, PlainMove
<1>6. Woken'
  <2> SUFFICES ASSUME NEW f \in Fibers, armed[f],
                      ~(\E w \in Workers : pc[w] \in WokenPCs /\ cur(w) = f)'
               PROVE  IF reg[f] \in fired[f]
                      THEN FiberOf(f) \in InPlay(q, Carried)'
                      ELSE avail[f] => \/ rdy[f]
                                       \/ f \in evs[bound[f]]
                                       \/ Event(f, reg[f]) \in InPlay(q, Carried)'
    BY <1>1 DEF Woken
  <2>1. ~(\E w \in Workers : pc[w] \in WokenPCs /\ cur(w) = f)
    BY DEF PlainStep, PlainMove, cur
  <2>2. \A w \in Workers : pc[w] = "begin" => pc'[w] # "uncount"
    BY DEF PlainStep, PlainMove
  <2> QED BY <2>1, <2>2, PlayKept, Zenon DEF EInv, Woken
<1>7. Pending'
  <2>1. \A w \in Workers : /\ pc'[w] = "io_pend" <=> pc[w] = "io_pend"
                           /\ pc'[w] = "io_unpend" <=> pc[w] = "io_unpend"
    BY DEF PlainStep, PlainMove, IoPCs
  <2>2. Armed' = Armed /\ AtPend' = AtPend /\ AtSub' = AtSub
    BY <1>1, <2>1 DEF Armed, AtPend, AtSub
  <2> QED BY <1>1, <2>2 DEF EInv, Pending
<1> QED BY <1>2, <1>3, <1>4, <1>5, <1>6, <1>7 DEF EInv

(* The step of one thread.                                                 *)
LEMMA PlainOf ==
  ASSUME TInv, EInv, NEW t \in Threads, NEW p, pc' = [pc EXCEPT ![t] = p],
         \A v \in Workers : v # t => task'[v] = task[v],
         UNCHANGED <<pending, evs, bound, armed, reg, fired, avail, rdy>>,
         \/ state' = state
         \/ \E g \in Fibers : /\ \A f \in Fibers : f # g => state'[f] = state[f]
                              /\ ~armed[g] \/ state'[g] \in {"kRunning", "kHold"},
         t \in Workers => /\ pc[t] \notin IoPCs /\ p \notin IoPCs
                          /\ pc[t] \in WokenPCs => \/ ~armed[cur(t)]
                                                   \/ p \in WokenPCs /\ task' = task
                          /\ pc[t] = "begin" => p # "uncount"
                          /\ pc[t] \in EventPCs => p \in EventPCs \/ evs[t] = {}
  PROVE  PlainStep
<1>1. \A u \in Threads : IF u = t THEN pc'[u] = p ELSE pc'[u] = pc[u]
  BY FiberTypes
<1>2. \A w \in Workers : PlainMove(w)
  BY <1>1, ThreadIds DEF PlainMove, cur
<1>3. \A f \in Fibers : armed[f] => state'[f] \in {"kRunning", "kHold"}
  BY DEF EInv, ArmedState
<1> QED BY <1>2, <1>3 DEF PlainStep

LEMMA Plain_run ==
  ASSUME TInv, EInv, NEW w \in Workers, run(w), UNCHANGED ioVars
  PROVE  PlainStep
<1> USE ThreadIds DEF ioVars
<1>1. CASE popOwn(w) \/ popNone(w) \/ stealTask(w) \/ stealPass(w) \/ idleQuit(w)
  <2>1. PICK p \in {"count", "steal", "exit", "idle", "pop"} : pc' = [pc EXCEPT ![w] = p]
    BY <1>1 DEF popOwn, popNone, stealTask, stealPass, idleQuit, StealFrom, Goto
  <2>2. /\ pc[w] \in {"pop", "steal", "quit"} /\ UNCHANGED <<pending, state>>
        /\ \A v \in Workers : v # w => task'[v] = task[v]
    BY <1>1, FiberTypes
       DEF popOwn, popNone, stealTask, stealPass, idleQuit, StealFrom, fiberVars
  <2> QED BY <2>1, <2>2, PlainOf DEF IoPCs, WokenPCs, EventPCs
<1>2. CASE countIn(w) \/ lockFiber(w) \/ handBack(w) \/ dropTerm(w) \/ requeue(w)
             \/ unlockFiber(w) \/ countOut(w)
  <2>1. PICK p \in {"begin", "locked", "pop", "unlock", "uncount"} :
                /\ pc' = [pc EXCEPT ![w] = p]
                /\ pc[w] \in {"count", "begin", "locked", "requeue", "unlock", "uncount"}
                /\ pc[w] = "begin" => p # "uncount"
    BY <1>2 DEF countIn, lockFiber, handBack, dropTerm, requeue, unlockFiber,
                countOut, Goto
  <2>2. UNCHANGED <<pending, state>> /\ \A v \in Workers : v # w => task'[v] = task[v]
    BY <1>2, FiberTypes
       DEF countIn, lockFiber, handBack, dropTerm, requeue, unlockFiber, countOut,
           fiberVars, tryLock, unlock
  <2>3. pc[w] = "locked" => ~armed[cur(w)]
    BY <1>2, CurFiber DEF countIn, lockFiber, handBack, dropTerm, requeue, unlockFiber,
                countOut, EInv, ArmedState, HandPCs, HoldPCs
  <2> QED BY <2>1, <2>2, <2>3, PlainOf DEF IoPCs, WokenPCs, EventPCs
<1>3. CASE beginCb(w) \/ resumeFiber(w)
  <2>1. /\ pc' = [pc EXCEPT ![w] = "running"] /\ pc[w] \in {"begin", "locked"}
        /\ UNCHANGED <<pending, task>>
        /\ state' = [state EXCEPT ![cur(w)] = "kRunning"]
    BY <1>3 DEF beginCb, resumeFiber, launch, resume, Goto
  <2>2. cur(w) \in Fibers
    BY <2>1, CurFiber DEF HandPCs, HoldPCs
  <2>3. \A f \in Fibers : state'[f] = IF f = cur(w) THEN "kRunning" ELSE state[f]
    BY <2>1, FiberTypes
  <2> QED BY <2>1, <2>2, <2>3, PlainOf DEF IoPCs, WokenPCs, EventPCs
<1> QED BY <1>1, <1>2, <1>3 DEF run

LEMMA Plain_submit ==
  ASSUME TInv, EInv, NEW t \in Threads, NEW f \in Fibers, UNCHANGED ioVars,
         submitCb(t, f) \/ submitNew(t, f) \/ submitFiber(t, f),
         t \in Workers => ~armed[cur(t)]
  PROVE  PlainStep
<1>1. /\ pc[t] \in {"main", "running"} /\ UNCHANGED <<pending, task>>
      /\ pc' = [pc EXCEPT ![t] = "push"]
  BY DEF submitCb, submitNew, submitFiber, Claim, MaySubmit, Goto
<1>2. \/ state' = state
      \/ ~armed[f] /\ \A g \in Fibers : g # f => state'[g] = state[g]
  BY FiberTypes DEF submitCb, submitNew, submitFiber, construct, fiberVars, EInv,
                    ArmedState
<1> QED BY <1>1, <1>2, ThreadIds, PlainOf DEF IoPCs, WokenPCs, EventPCs, ioVars

LEMMA Plain_body ==
  ASSUME TInv, EInv, NEW w \in Workers, userBody(w)
  PROVE  PlainStep
<1> USE ThreadIds
<1>1. pc[w] = "running" /\ ~armed[cur(w)] /\ UNCHANGED ioVars
  BY DEF userBody
<1>2. CASE bodyReturn(w) \/ bodyYield(w) \/ bodyHold(w)
  <2>1. PICK p \in {"unlock", "requeue"} : pc' = [pc EXCEPT ![w] = p]
    BY <1>2 DEF bodyReturn, bodyYield, bodyHold, Goto
  <2>2. cur(w) \in Fibers
    BY <1>1, CurFiber DEF HandPCs, HoldPCs
  <2>3. UNCHANGED <<pending, task>> /\ \A f \in Fibers : f # cur(w) => state'[f] = state[f]
    BY <1>2, FiberTypes DEF bodyReturn, bodyYield, bodyHold, mainFuncReturn, yield, hold
  <2> QED BY <1>1, <2>1, <2>2, <2>3, PlainOf DEF IoPCs, WokenPCs, EventPCs, ioVars
<1>3. ASSUME NEW f \in Fibers, submitCb(w, f) \/ submitNew(w, f) \/ submitFiber(w, f)
      PROVE  PlainStep
  BY <1>1, <1>3, Plain_submit
<1> QED BY <1>2, <1>3 DEF userBody, body

LEMMA Plain_call ==
  ASSUME TInv, EInv, NEW t \in Threads,
         (call(t) /\ UNCHANGED ioVars) \/ writeEventFd(t)
  PROVE  PlainStep
<1> USE ThreadIds
<1>1. CASE submitPush(t) \/ tickle(t) \/ writeEventFd(t)
  <2>1. /\ UNCHANGED <<state, task, pending, evs, bound, armed, reg, fired, avail, rdy>>
        /\ pc[t] \in {"push", "tickle", "wake"}
        /\ \/ \E p \in {"tickle", "wake"} : pc' = [pc EXCEPT ![t] = p]
           \/ TickleReturn(t) \/ TickleLoop(t)
    BY <1>1 DEF call, submitPush, tickle, stoppingFlags, stoppingPending,
                stoppingQueue, writeEventFd, wakeCall, fiberVars, ioVars,
                chanVars, kernVars, Goto
  <2>2. PICK p : /\ pc' = [pc EXCEPT ![t] = p]
                 /\ t \in Workers => p \in {"running", "tickle", "wake"}
    BY <2>1, TickleEnds
  <2> QED BY <2>1, <2>2, PlainOf DEF IoPCs, WokenPCs, EventPCs
<1>2. CASE stoppingFlags(t) \/ stoppingPending(t) \/ stoppingQueue(t)
  <2>1. pc[t] \in StoppingPCs
    BY <1>2, StoppingSteps
  <2>2. UNCHANGED ioVars
    BY <1>2, <2>1 DEF writeEventFd, wakeCall, StoppingPCs
  <2>3. /\ UNCHANGED <<state, task, pending>>
        /\ \E p : /\ pc' = [pc EXCEPT ![t] = p]
                  /\ t \in Workers => p \notin IoPCs
    <3>1. CASE \E p \in {"stop_pending", "stop_queue"}, i \in Workers : StoppingNext(t, p, i)
      BY <3>1 DEF StoppingNext, Goto, fiberVars, IoPCs
    <3>2. CASE \E b \in BOOLEAN : StoppingReturn(t, b)
      <4>1. t \in Workers => site[t] \in {"pre", "post"}
        BY <2>1 DEF TInv, Sites
      <4>2. PICK b \in BOOLEAN : StoppingReturn(t, b)
        BY <3>2
      <4>3. \E p : /\ pc' = [pc EXCEPT ![t] = p]
                   /\ site[t] \in {"pre", "post"} => p \in {"quit", "has_task", "pop"}
        BY <4>2 DEF StoppingReturn, Goto
      <4>4. UNCHANGED <<state, task, pending>>
        BY <4>2 DEF StoppingReturn, fiberVars
      <4> QED BY <4>1, <4>3, <4>4 DEF IoPCs
    <3> QED BY <1>2, <3>1, <3>2, StoppingSteps
  <2>4. PICK p : /\ pc' = [pc EXCEPT ![t] = p]
                 /\ t \in Workers => p \notin IoPCs
    BY <2>3
  <2> QED BY <2>1, <2>2, <2>3, <2>4, PlainOf DEF StoppingPCs, IoPCs, WokenPCs, EventPCs, ioVars
<1> QED BY <1>1, <1>2 DEF call

LEMMA Plain_idle ==
  ASSUME TInv, EInv, NEW w \in Workers,
         \/ idleEnter(w) \/ hasTask(w) \/ hasNoTask(w) \/ pollInterrupted(w)
         \/ idleWoke(w) \/ triggerPush(w) \/ idleHandled(w)
  PROVE  PlainStep
<1> USE ThreadIds
<1>1. /\ UNCHANGED <<state, task, pending, evs, bound, armed, reg, fired, avail, rdy>>
      /\ \E p \in {"stopping", "pop", "poll", "woke", "handle"} :
            /\ pc' = [pc EXCEPT ![w] = p]
            /\ \/ pc[w] \in {"idle", "has_task", "poll"}
               \/ pc[w] \in {"woke", "trigger"} /\ p = "handle"
               \/ pc[w] = "handle" /\ evs[w] = {}
  BY DEF idleEnter, hasTask, hasNoTask, pollInterrupted, idleWoke, triggerPush,
         idleHandled, Goto, fiberVars, ioVars
<1> QED BY <1>1, PlainOf DEF IoPCs, WokenPCs, EventPCs

LEMMA Plain_main ==
  ASSUME TInv, EInv, UNCHANGED ioVars, init \/ stopCall \/ stopAgain \/ join
  PROVE  PlainStep
<1>1. CASE init
  <2>1. \A w \in Workers : pc[w] = "off" /\ pc'[w] = "pop"
    BY <1>1, ThreadIds DEF init
  <2>2. \A w \in Workers : PlainMove(w)
    BY <2>1 DEF PlainMove, IoPCs, WokenPCs, EventPCs
  <2> QED BY <1>1, <2>2 DEF PlainStep, init, fiberVars, ioVars, EInv, ArmedState
<1>2. CASE stopCall \/ stopAgain \/ join
  <2>1. /\ UNCHANGED <<state, task, pending>> /\ \E p : pc' = [pc EXCEPT ![Main] = p]
    BY <1>2 DEF stopCall, stopAgain, join, Goto, fiberVars
  <2> QED BY <2>1, PlainOf, ThreadIds DEF ioVars
<1> QED BY <1>1, <1>2

-----------------------------------------------------------------------------
(* The steps of do_io.                                                     *)

(* A worker in HoldPCs has its fiber alone.                                *)
LEMMA Alone ==
  ASSUME TInv, FInv, NEW w \in Workers, pc[w] \in HoldPCs
  PROVE  /\ cur(w) \in Fibers
         /\ \A v \in Workers : v # w /\ pc[v] \in HoldPCs => cur(v) # cur(w)
<1>1. cur(w) \in Fibers
  BY CurFiber DEF HandPCs
<1> QED BY <1>1 DEF FInv, FiberExclusive

LEMMA E_io ==
  ASSUME TInv, FInv, EInv, FStep, NEW w \in Workers, NEW p,
         pc[w] \in RunningPCs, p \in IoPCs \cup {"running", "unlock"},
         pc' = [pc EXCEPT ![w] = p], UNCHANGED <<task, evs, fired>>,
         \A f \in Fibers : f # cur(w) =>
            /\ armed'[f] = armed[f] /\ reg'[f] = reg[f] /\ avail'[f] = avail[f]
            /\ rdy'[f] = rdy[f] /\ bound'[f] = bound[f] /\ state'[f] = state[f],
         reg'[cur(w)] \in Nat, reg[cur(w)] <= reg'[cur(w)],
         p \in UnarmedPCs => ~armed'[cur(w)],
         p = "io_pend" => armed'[cur(w)],
         armed'[cur(w)] => /\ state'[cur(w)] \in {"kRunning", "kHold"}
                           /\ \/ p \in WokenPCs
                              \/ IF reg'[cur(w)] \in fired[cur(w)]
                                 THEN FiberOf(cur(w)) \in InPlay(q, Carried)'
                                 ELSE avail'[cur(w)] =>
                                        \/ rdy'[cur(w)]
                                        \/ cur(w) \in evs[bound'[cur(w)]]
                                        \/ Event(cur(w), reg'[cur(w)]) \in InPlay(q, Carried)',
         Pending'
  PROVE  EInv'
<1> DEFINE c == cur(w)
<1>1. /\ \A u \in Threads : IF u = w THEN pc'[u] = p ELSE pc'[u] = pc[u]
      /\ \A v \in Workers : cur(v)' = cur(v)
  BY FiberTypes DEF cur
<1>2. c \in Fibers /\ \A v \in Workers : v # w /\ pc[v] \in HoldPCs => cur(v) # c
  <2>1. pc[w] \in HoldPCs
    BY DEF HoldPCs, RunningPCs
  <2> QED BY <2>1, Alone
<1>3. \A v \in Workers : pc[v] \in IoPCs \cup WokenPCs => pc[v] \in HoldPCs /\ cur(v) \in Fibers
  BY CurFiber DEF HandPCs, HoldPCs, WokenPCs
<1>4. IoStage'
  <2> SUFFICES ASSUME NEW v \in Workers
               PROVE  /\ pc'[v] \in UnarmedPCs => ~armed'[cur(v)]
                      /\ pc'[v] = "io_pend" => armed'[cur(v)]
    BY <1>1 DEF IoStage
  <2>1. CASE v = w
    BY <1>1, <2>1, ThreadIds
  <2>2. CASE v # w
    BY <1>1, <1>2, <1>3, <2>2, ThreadIds DEF EInv, IoStage, UnarmedPCs, IoPCs
  <2> QED BY <2>1, <2>2
<1>5. ArmedState'
  BY DEF EInv, ArmedState
<1>6. RegBounds'
  <2>1. \A f \in Fibers : reg[f] \in Nat /\ reg'[f] \in Nat /\ reg[f] <= reg'[f]
                          /\ fired[f] \subseteq Nat
    BY DEF TInv, TypeOK, IoTypeOK
  <2>2. \A x \in InPlay(q, Carried) : x \in Task
    BY PlayTasks
  <2>3. \A x \in Task : x.id \in Fibers /\ x.n \in Nat
    BY DEF Task
  <2>4. \A x \in InPlay(q, Carried)' : x.kind = "event" => x.n <= reg'[x.id]
    BY <2>1, <2>2, <2>3 DEF FStep, PlayStep, EInv, RegBounds
  <2>5. \A f \in Fibers : \A n \in fired[f] : n <= reg'[f]
    BY <2>1 DEF EInv, RegBounds
  <2> QED BY <2>4, <2>5 DEF RegBounds
<1>7. EvsEmpty'
  BY <1>1, ThreadIds DEF EInv, EvsEmpty, EventPCs, RunningPCs, IoPCs
<1>8. Woken'
  <2> SUFFICES ASSUME NEW f \in Fibers, armed'[f],
                      ~(\E v \in Workers : pc[v] \in WokenPCs /\ cur(v) = f)'
               PROVE  IF reg'[f] \in fired[f]
                      THEN FiberOf(f) \in InPlay(q, Carried)'
                      ELSE avail'[f] => \/ rdy'[f]
                                        \/ f \in evs[bound'[f]]
                                        \/ Event(f, reg'[f]) \in InPlay(q, Carried)'
    BY DEF Woken
  <2>1. CASE f = c
    BY <1>1, <2>1, ThreadIds
  <2>2. CASE f # c
    <3>1. ~(\E v \in Workers : pc[v] \in WokenPCs /\ cur(v) = f)
      BY <1>1, <2>2, ThreadIds DEF WokenPCs
    <3>2. \A v \in Workers : pc[v] = "begin" => pc'[v] # "uncount"
      BY <1>1, ThreadIds DEF RunningPCs, IoPCs
    <3>3. /\ armed[f] /\ reg'[f] = reg[f] /\ avail'[f] = avail[f]
          /\ rdy'[f] = rdy[f] /\ bound'[f] = bound[f]
      BY <2>2
    <3>4. IF reg[f] \in fired[f]
          THEN FiberOf(f) \in InPlay(q, Carried)'
          ELSE avail[f] => \/ rdy[f]
                           \/ f \in evs[bound[f]]
                           \/ Event(f, reg[f]) \in InPlay(q, Carried)'
      BY <3>1, <3>2, <3>3, PlayKept, ZenonT(60) DEF EInv, Woken
    <3> QED BY <3>3, <3>4
  <2> QED BY <2>1, <2>2
<1> QED BY <1>4, <1>5, <1>6, <1>7, <1>8 DEF EInv

LEMMA IoTypes ==
  ASSUME TInv
  PROVE  /\ armed \in [Fibers -> BOOLEAN] /\ reg \in [Fibers -> Nat]
         /\ fired \in [Fibers -> SUBSET Nat] /\ avail \in [Fibers -> BOOLEAN]
         /\ rdy \in [Fibers -> BOOLEAN] /\ bound \in [Fibers -> Workers \cup {NoQueue}]
         /\ evs \in [Workers -> SUBSET (Fibers \cup {Wakeup})]
         /\ pending \in Int /\ active \in Int
BY DEF TInv, TypeOK, IoTypeOK, SchedTypeOK, QueueTypeOK

LEMMA PendingKept ==
  ASSUME EInv, \A f \in Fibers : armed'[f] <=> armed[f], pending' = pending,
         \A w \in Workers : /\ pc'[w] = "io_pend" <=> pc[w] = "io_pend"
                            /\ pc'[w] = "io_unpend" <=> pc[w] = "io_unpend"
  PROVE  Pending'
<1>1. Armed' = Armed /\ AtPend' = AtPend /\ AtSub' = AtSub
  BY DEF Armed, AtPend, AtSub
<1> QED BY <1>1 DEF EInv, Pending

LEMMA E_sysFunc ==
  ASSUME TInv, FInv, EInv, FStep, NEW w \in Workers, ioEnter(w) \/ ioRetry(w)
  PROVE  EInv'
<1> USE ThreadIds
<1>1. /\ pc[w] \in {"running", "io_call"} /\ ~armed[cur(w)]
      /\ UNCHANGED <<state, task, pending, evs, armed, reg, fired, rdy>>
      /\ avail' = [avail EXCEPT ![cur(w)] = FALSE]
      /\ bound' = bound \/ \E b : bound' = [bound EXCEPT ![cur(w)] = b]
      /\ \E p \in {"running", "io_reg"} : pc' = [pc EXCEPT ![w] = p]
  BY DEF ioEnter, ioRetry, SysFunc, Goto, fiberVars, EInv, IoStage, UnarmedPCs
<1>2. PICK p \in {"running", "io_reg"} : pc' = [pc EXCEPT ![w] = p]
  BY <1>1
<1>3. cur(w) \in Fibers
  BY <1>1, CurFiber DEF HandPCs, HoldPCs, IoPCs
<1>4. Pending'
  <2>1. \A v \in Workers : /\ pc'[v] = "io_pend" <=> pc[v] = "io_pend"
                           /\ pc'[v] = "io_unpend" <=> pc[v] = "io_unpend"
    BY <1>1, <1>2, FiberTypes
  <2> QED BY <1>1, <2>1, PendingKept
<1>5. \A f \in Fibers : f # cur(w) => bound'[f] = bound[f] /\ avail'[f] = avail[f]
  BY <1>1, IoTypes
<1>6. reg[cur(w)] \in Nat /\ reg[cur(w)] <= reg[cur(w)]
  BY <1>3, IoTypes
<1>7. pc[w] \in RunningPCs /\ p \in IoPCs \cup {"running", "unlock"}
  BY <1>1 DEF RunningPCs, IoPCs
<1>8. p # "io_pend"
  OBVIOUS
<1> QED BY <1>1, <1>2, <1>4, <1>5, <1>6, <1>7, <1>8, E_io

LEMMA E_registerEvent ==
  ASSUME TInv, FInv, EInv, FStep, NEW w \in Workers, registerEvent(w)
  PROVE  EInv'
<1> USE ThreadIds
<1> DEFINE c == cur(w)
<1>1. /\ pc[w] = "io_reg" /\ ~armed[c] /\ pc' = [pc EXCEPT ![w] = "io_pend"]
      /\ armed' = [armed EXCEPT ![c] = TRUE] /\ reg' = [reg EXCEPT ![c] = @ + 1]
      /\ rdy' = [rdy EXCEPT ![c] = TRUE /\ avail[c]]
      /\ UNCHANGED <<state, task, pending, evs, fired, avail, bound>>
  BY DEF registerEvent, updateChannel, Goto, fiberVars, EInv, IoStage, UnarmedPCs
<1>2. c \in Fibers /\ state[c] = "kRunning"
  BY <1>1, CurFiber DEF HandPCs, HoldPCs, IoPCs, FInv, StateAt, RunningPCs
<1>3. /\ \A f \in Fibers : f # c => /\ armed'[f] = armed[f] /\ reg'[f] = reg[f]
                                    /\ rdy'[f] = rdy[f]
      /\ reg[c] \in Nat /\ reg'[c] = reg[c] + 1 /\ armed'[c] /\ rdy'[c] = avail[c]
  BY <1>1, <1>2, IoTypes
<1>4. reg'[c] \in Nat /\ reg[c] <= reg'[c] /\ reg'[c] \notin fired[c]
  <2>1. \A n \in fired[c] : n \in Nat /\ n <= reg[c]
    BY <1>2, IoTypes DEF EInv, RegBounds
  <2> QED BY <1>3, <2>1
<1>5. \A v \in Workers : pc'[v] = IF v = w THEN "io_pend" ELSE pc[v]
  BY <1>1, FiberTypes
<1>6. Pending'
  <2>1. IsFiniteSet(Armed') /\ Cardinality(Armed') = Cardinality(Armed) + 1
        /\ Cardinality(Armed) \in Nat
    <3>1. \A f : f \in Armed' <=> f \in Armed \/ f = c
      BY <1>2, <1>3 DEF Armed
    <3>2. c \notin Armed /\ IsFiniteSet(Armed)
      BY <1>1 DEF Armed, EInv, Pending
    <3> QED BY <3>1, <3>2, CountMore
  <2>2. Cardinality(AtPend') = Cardinality(AtPend) + 1 /\ Cardinality(AtPend) \in Nat
    <3>1. \A v : v \in AtPend' <=> v \in AtPend \/ v = w
      BY <1>5 DEF AtPend
    <3>2. w \notin AtPend /\ IsFiniteSet(AtPend)
      BY <1>1, WorkersFinite DEF AtPend
    <3> QED BY <3>1, <3>2, CountMore
  <2>3. AtSub' = AtSub
    BY <1>1, <1>5 DEF AtSub
  <2>4. Cardinality(AtSub) \in Nat
    BY WorkersFinite DEF AtSub
  <2> QED BY <1>1, <2>1, <2>2, <2>3, <2>4 DEF EInv, Pending
<1>7. pc[w] \in RunningPCs /\ "io_pend" \in IoPCs \cup {"running", "unlock"}
      /\ "io_pend" \notin UnarmedPCs
  BY <1>1 DEF RunningPCs, IoPCs, UnarmedPCs
<1> QED BY <1>1, <1>2, <1>3, <1>4, <1>6, <1>7, E_io

LEMMA E_unregisterEvent ==
  ASSUME TInv, FInv, EInv, FStep, NEW w \in Workers, unregisterEvent(w)
  PROVE  EInv'
<1> USE ThreadIds
<1> DEFINE c == cur(w)
<1>1. /\ pc[w] = "running" /\ armed[c] /\ pc' = [pc EXCEPT ![w] = "io_unpend"]
      /\ armed' = [armed EXCEPT ![c] = FALSE]
      /\ rdy' = [rdy EXCEPT ![c] = FALSE /\ avail[c]]
      /\ UNCHANGED <<state, task, pending, evs, reg, fired, avail, bound>>
  BY DEF unregisterEvent, updateChannel, Goto, fiberVars
<1>2. c \in Fibers /\ reg[c] \in Nat /\ reg[c] <= reg[c]
  BY <1>1, CurFiber, IoTypes DEF HandPCs, HoldPCs, IoPCs
<1>3. /\ \A f \in Fibers : f # c => armed'[f] = armed[f] /\ rdy'[f] = rdy[f]
      /\ ~armed'[c]
  BY <1>1, <1>2, IoTypes
<1>5. \A v \in Workers : pc'[v] = IF v = w THEN "io_unpend" ELSE pc[v]
  BY <1>1, FiberTypes
<1>6. Pending'
  <2>1. IsFiniteSet(Armed') /\ Cardinality(Armed') = Cardinality(Armed) - 1
        /\ Cardinality(Armed) \in Nat
    <3>1. \A f : f \in Armed' <=> f \in Armed /\ f # c
      BY <1>2, <1>3 DEF Armed
    <3>2. c \in Armed /\ IsFiniteSet(Armed)
      BY <1>1, <1>2 DEF Armed, EInv, Pending
    <3> QED BY <3>1, <3>2, CountLess
  <2>2. Cardinality(AtSub') = Cardinality(AtSub) + 1 /\ Cardinality(AtSub) \in Nat
    <3>1. \A v : v \in AtSub' <=> v \in AtSub \/ v = w
      BY <1>5 DEF AtSub
    <3>2. w \notin AtSub /\ IsFiniteSet(AtSub)
      BY <1>1, WorkersFinite DEF AtSub
    <3> QED BY <3>1, <3>2, CountMore
  <2>3. AtPend' = AtPend
    BY <1>1, <1>5 DEF AtPend
  <2>4. Cardinality(AtPend) \in Nat
    BY WorkersFinite DEF AtPend
  <2> QED BY <1>1, <2>1, <2>2, <2>3, <2>4 DEF EInv, Pending
<1>7. pc[w] \in RunningPCs /\ "io_unpend" \in IoPCs \cup {"running", "unlock"}
  BY <1>1 DEF RunningPCs, IoPCs
<1> QED BY <1>1, <1>2, <1>3, <1>6, <1>7, E_io

LEMMA E_pendingSub ==
  ASSUME TInv, FInv, EInv, FStep, NEW w \in Workers, pendingSub(w)
  PROVE  EInv'
<1> USE ThreadIds
<1> DEFINE c == cur(w)
<1>1. /\ pc[w] = "io_unpend" /\ ~armed[c] /\ pc' = [pc EXCEPT ![w] = "io_call"]
      /\ pending' = pending - 1
      /\ UNCHANGED <<state, task, evs, armed, reg, fired, avail, rdy, bound>>
  BY DEF pendingSub, Goto, fiberVars, ioVars, EInv, IoStage, UnarmedPCs
<1>2. c \in Fibers /\ reg[c] \in Nat /\ reg[c] <= reg[c]
  BY <1>1, CurFiber, IoTypes DEF HandPCs, HoldPCs, IoPCs
<1>3. \A v \in Workers : pc'[v] = IF v = w THEN "io_call" ELSE pc[v]
  BY <1>1, FiberTypes
<1>4. Pending'
  <2>1. Cardinality(AtSub') = Cardinality(AtSub) - 1 /\ Cardinality(AtSub) \in Nat
    <3>1. \A v : v \in AtSub' <=> v \in AtSub /\ v # w
      BY <1>3 DEF AtSub
    <3>2. w \in AtSub /\ IsFiniteSet(AtSub)
      BY <1>1, WorkersFinite DEF AtSub
    <3> QED BY <3>1, <3>2, CountLess
  <2>2. AtPend' = AtPend /\ Armed' = Armed
    BY <1>1, <1>3 DEF AtPend, Armed
  <2>3. IsFiniteSet(Armed)
    BY DEF EInv, Pending
  <2>4. Cardinality(AtPend) \in Nat /\ Cardinality(Armed) \in Nat
    BY <2>3, WorkersFinite, FS_CardinalityType DEF AtPend
  <2> QED BY <1>1, <2>1, <2>2, <2>4 DEF EInv, Pending
<1>5. pc[w] \in RunningPCs /\ "io_call" \in IoPCs \cup {"running", "unlock"}
  BY <1>1 DEF RunningPCs, IoPCs
<1> QED BY <1>1, <1>2, <1>4, <1>5, E_io

LEMMA E_pendingAddHold ==
  ASSUME TInv, FInv, EInv, FStep, NEW w \in Workers, pendingAddHold(w)
  PROVE  EInv'
<1> USE ThreadIds
<1> DEFINE c == cur(w)
<1>1. /\ pc[w] = "io_pend" /\ armed[c] /\ pc' = [pc EXCEPT ![w] = "unlock"]
      /\ pending' = pending + 1 /\ state' = [state EXCEPT ![c] = "kHold"]
      /\ UNCHANGED <<task, evs, armed, reg, fired, avail, rdy, bound>>
  BY DEF pendingAddHold, hold, Goto, ioVars, EInv, IoStage
<1>2. /\ c \in Fibers /\ reg[c] \in Nat /\ reg[c] <= reg[c]
      /\ \A v \in Workers : v # w /\ pc[v] \in HoldPCs => cur(v) # c
  BY <1>1, Alone, IoTypes DEF HoldPCs, IoPCs
<1>3. /\ \A v \in Workers : pc'[v] = IF v = w THEN "unlock" ELSE pc[v]
      /\ \A v \in Workers : cur(v)' = cur(v)
  BY <1>1, FiberTypes DEF cur
<1>4. Pending'
  <2>1. Cardinality(AtPend') = Cardinality(AtPend) - 1 /\ Cardinality(AtPend) \in Nat
    <3>1. \A v : v \in AtPend' <=> v \in AtPend /\ v # w
      BY <1>3 DEF AtPend
    <3>2. w \in AtPend /\ IsFiniteSet(AtPend)
      BY <1>1, WorkersFinite DEF AtPend
    <3> QED BY <3>1, <3>2, CountLess
  <2>2. AtSub' = AtSub /\ Armed' = Armed
    BY <1>1, <1>3 DEF AtSub, Armed
  <2>3. IsFiniteSet(Armed)
    BY DEF EInv, Pending
  <2>4. Cardinality(AtSub) \in Nat /\ Cardinality(Armed) \in Nat
    BY <2>3, WorkersFinite, FS_CardinalityType DEF AtSub
  <2> QED BY <1>1, <2>1, <2>2, <2>4 DEF EInv, Pending
<1>5. /\ pc[w] \in RunningPCs /\ "unlock" \in IoPCs \cup {"running", "unlock"}
      /\ "unlock" \notin UnarmedPCs /\ "unlock" # "io_pend"
  BY <1>1 DEF RunningPCs, IoPCs, UnarmedPCs
<1>6. \A f \in Fibers : state'[f] = IF f = c THEN "kHold" ELSE state[f]
  BY <1>1, <1>2, FiberTypes
<1>7. IF reg[c] \in fired[c]
      THEN FiberOf(c) \in InPlay(q, Carried)'
      ELSE avail[c] => \/ rdy[c]
                       \/ c \in evs[bound[c]]
                       \/ Event(c, reg[c]) \in InPlay(q, Carried)'
  <2> SUFFICES ASSUME NEW f \in Fibers, f = c
               PROVE  IF reg[f] \in fired[f]
                      THEN FiberOf(f) \in InPlay(q, Carried)'
                      ELSE avail[f] => \/ rdy[f]
                                       \/ f \in evs[bound[f]]
                                       \/ Event(f, reg[f]) \in InPlay(q, Carried)'
    BY <1>2
  <2>1. /\ ~(\E v \in Workers : pc[v] \in WokenPCs /\ cur(v) = f)
        /\ ~(\E v \in Workers : pc[v] \in WokenPCs /\ cur(v) = f)'
    BY <1>1, <1>2, <1>3 DEF WokenPCs, HoldPCs
  <2>2. armed[f] /\ \A v \in Workers : pc[v] = "begin" => pc'[v] # "uncount"
    BY <1>1, <1>3
  <2> QED BY <2>1, <2>2, PlayKept, ZenonT(60) DEF EInv, Woken
<1> QED BY <1>1, <1>2, <1>4, <1>5, <1>6, <1>7, E_io

-----------------------------------------------------------------------------
(* The steps of the poller, the kernel and the callback: no registration   *)
(* comes or goes.                                                          *)
LEMMA E_event ==
  ASSUME TInv, FInv, EInv, FStep, UNCHANGED <<state, task, pending, bound, armed, reg>>,
         \A w \in Workers : \/ pc'[w] = pc[w]
                            \/ pc[w] = "poll" /\ pc'[w] = "woke"
                            \/ pc[w] = "handle" /\ pc'[w] = "trigger"
                            \/ pc[w] = "begin" /\ pc'[w] = "uncount",
         \A w \in Workers : pc'[w] \notin EventPCs => evs'[w] = evs[w],
         \A f \in Fibers : \A n \in fired'[f] : n <= reg[f],
         \A f \in Fibers :
            /\ reg[f] \in fired[f] => reg[f] \in fired'[f]
            /\ armed[f] /\ reg[f] \in fired'[f] /\ reg[f] \notin fired[f] =>
                  FiberOf(f) \in InPlay(q, Carried)'
            /\ Event(f, reg[f]) \in InPlay(q, Carried) /\ reg[f] \notin fired'[f] =>
                  Event(f, reg[f]) \in InPlay(q, Carried)'
            /\ armed[f] /\ avail'[f] /\ reg[f] \notin fired[f] =>
                  \/ rdy'[f] \/ f \in evs'[bound[f]]
                  \/ Event(f, reg[f]) \in InPlay(q, Carried)'
                  \/ avail[f] /\ ~rdy[f] /\ f \notin evs[bound[f]]
  PROVE  EInv'
<1>1. \A w \in Workers : cur(w)' = cur(w)
  BY DEF cur
<1>2. IoStage'
  BY <1>1 DEF EInv, IoStage, UnarmedPCs
<1>3. ArmedState'
  BY DEF EInv, ArmedState
<1>4. RegBounds'
  <2>1. \A f \in Fibers : reg[f] \in Nat
    BY IoTypes
  <2>2. \A x \in InPlay(q, Carried)' : x.kind = "event" => x.n <= reg[x.id]
    BY <2>1 DEF FStep, PlayStep, EInv, RegBounds
  <2> QED BY <2>2 DEF RegBounds
<1>5. EvsEmpty'
  BY DEF EInv, EvsEmpty, EventPCs
<1>6. Woken'
  <2> SUFFICES ASSUME NEW f \in Fibers, armed[f],
                      ~(\E w \in Workers : pc[w] \in WokenPCs /\ cur(w) = f)'
               PROVE  IF reg[f] \in fired'[f]
                      THEN FiberOf(f) \in InPlay(q, Carried)'
                      ELSE avail'[f] => \/ rdy'[f]
                                        \/ f \in evs'[bound[f]]
                                        \/ Event(f, reg[f]) \in InPlay(q, Carried)'
    BY DEF Woken
  <2>1. ~(\E w \in Workers : pc[w] \in WokenPCs /\ cur(w) = f)
    BY <1>1 DEF WokenPCs
  <2>2. FiberOf(f) \in InPlay(q, Carried) => FiberOf(f) \in InPlay(q, Carried)'
    BY PlayKept, Zenon
  <2>3. IF reg[f] \in fired[f]
        THEN FiberOf(f) \in InPlay(q, Carried)
        ELSE avail[f] => \/ rdy[f]
                         \/ f \in evs[bound[f]]
                         \/ Event(f, reg[f]) \in InPlay(q, Carried)
    BY <2>1 DEF EInv, Woken
  <2> QED BY <2>2, <2>3, Zenon
<1>7. Pending'
  <2>1. \A w \in Workers : /\ pc'[w] = "io_pend" <=> pc[w] = "io_pend"
                           /\ pc'[w] = "io_unpend" <=> pc[w] = "io_unpend"
    OBVIOUS
  <2> QED BY <2>1, PendingKept
<1> QED BY <1>2, <1>3, <1>4, <1>5, <1>6, <1>7 DEF EInv

LEMMA EventKept ==
  ASSUME FStep, \A w \in Workers : pc[w] = "begin" => pc'[w] # "uncount",
         NEW f, NEW n, Event(f, n) \in InPlay(q, Carried)
  PROVE  Event(f, n) \in InPlay(q, Carried)'
<1>1. ~Spent(Event(f, n))
  BY DEF Spent, Event
<1> QED BY <1>1, Zenon DEF FStep, PlayStep

LEMMA E_poll ==
  ASSUME TInv, FInv, EInv, FStep, NEW w \in Workers, poll(w)
  PROVE  EInv'
<1>1. /\ pc[w] = "poll" /\ pc' = [pc EXCEPT ![w] = "woke"]
      /\ UNCHANGED <<state, task, pending, bound, armed, reg, fired, avail>>
      /\ \A f \in Fibers : rdy'[f] = (rdy[f] /\ bound[f] # w)
      /\ \E E : evs' = [evs EXCEPT ![w] = E] /\ \A f \in Fibers : rdy[f] /\ bound[f] = w => f \in E
  BY DEF poll, Goto, fiberVars, chanVars, Ready
<1>2. \A v \in Workers : pc'[v] = IF v = w THEN "woke" ELSE pc[v]
  BY <1>1, FiberTypes, ThreadIds
<1>3. /\ evs[w] = {} /\ \A v \in Workers : v # w => evs'[v] = evs[v]
      /\ \A f \in Fibers : rdy[f] /\ bound[f] = w => f \in evs'[w]
  BY <1>1, IoTypes DEF EInv, EvsEmpty, EventPCs
<1>4. \A f \in Fibers : armed[f] => bound[f] \in Workers
  BY DEF TInv, BoundOK
<1>5. \A f \in Fibers : Event(f, reg[f]) \in InPlay(q, Carried)
                           => Event(f, reg[f]) \in InPlay(q, Carried)'
  <2> SUFFICES ASSUME NEW f \in Fibers, NEW n, Event(f, n) \in InPlay(q, Carried)
               PROVE  Event(f, n) \in InPlay(q, Carried)'
    OBVIOUS
  <2> QED BY <1>1, <1>2, EventKept
<1>6. \A f \in Fibers : \A n \in fired[f] : n <= reg[f]
  BY DEF EInv, RegBounds
<1>7. \A f \in Fibers : armed[f] /\ avail'[f] =>
                  \/ rdy'[f] \/ f \in evs'[bound[f]]
                  \/ avail[f] /\ ~rdy[f] /\ f \notin evs[bound[f]]
  BY <1>1, <1>3, <1>4
<1>8. "woke" \in EventPCs
  BY DEF EventPCs
<1> QED BY <1>1, <1>2, <1>3, <1>5, <1>6, <1>7, <1>8, E_event

LEMMA E_readEventFd ==
  ASSUME TInv, FInv, EInv, FStep, NEW w \in Workers, readEventFd(w)
  PROVE  EInv'
<1>1. /\ pc[w] = "handle" /\ evs' = [evs EXCEPT ![w] = @ \ {Wakeup}]
      /\ UNCHANGED <<pc, state, task, pending, bound, armed, reg, fired, avail, rdy>>
  BY DEF readEventFd, schedVars, chanVars, kernVars
<1>2. /\ \A v \in Workers : v # w => evs'[v] = evs[v]
      /\ \A f \in Fibers : f \in evs[w] => f \in evs'[w]
  BY <1>1, IoTypes, WakeupAssumption
<1>3. \A f \in Fibers : \A n : Event(f, n) \in InPlay(q, Carried)
                           => Event(f, n) \in InPlay(q, Carried)'
  BY <1>1, EventKept
<1>4. \A f \in Fibers : \A n \in fired[f] : n <= reg[f]
  BY DEF EInv, RegBounds
<1>5. \A f \in Fibers : f \in evs[bound[f]] => f \in evs'[bound[f]]
  BY <1>1, <1>2, IoTypes
<1>6. "handle" \in EventPCs
  BY DEF EventPCs
<1> QED BY <1>1, <1>2, <1>3, <1>4, <1>5, <1>6, E_event

LEMMA E_handleEvent ==
  ASSUME TInv, FInv, EInv, FStep, NEW w \in Workers, NEW g \in Fibers, handleEvent(w, g)
  PROVE  EInv'
<1> USE ThreadIds
<1>1. /\ pc[w] = "handle" /\ evs' = [evs EXCEPT ![w] = @ \ {g}]
      /\ UNCHANGED <<state, task, pending, bound, armed, reg, fired, avail, rdy>>
      /\ armed[g] => /\ pc' = [pc EXCEPT ![w] = "trigger"]
                     /\ out' = [out EXCEPT ![w] = Event(g, reg[g])]
      /\ ~armed[g] => pc' = pc
  BY DEF handleEvent, Goto, fiberVars, chanVars, kernVars
<1>2. \A v \in Workers : pc'[v] = IF v = w /\ armed[g] THEN "trigger" ELSE pc[v]
  BY <1>1, FiberTypes
<1>3. /\ \A v \in Workers : v # w => evs'[v] = evs[v]
      /\ \A f \in Fibers : f # g /\ f \in evs[w] => f \in evs'[w]
  BY <1>1, IoTypes
<1>4. \A f \in Fibers : \A n : Event(f, n) \in InPlay(q, Carried)
                           => Event(f, n) \in InPlay(q, Carried)'
  BY <1>1, <1>2, EventKept
<1>5. \A f \in Fibers : \A n \in fired[f] : n <= reg[f]
  BY DEF EInv, RegBounds
<1>6. armed[g] => Event(g, reg[g]) \in InPlay(q, Carried)'
  <2> SUFFICES ASSUME armed[g] PROVE Event(g, reg[g]) \in InPlay(q, Carried)'
    OBVIOUS
  <2>1. Carried'[w] = Event(g, reg[g])
    BY <1>1, <1>2, FiberTypes DEF Carried
  <2>2. Event(g, reg[g]) # NoTask
    BY DEF Event, NoTask
  <2> QED BY <2>1, <2>2, PlayIs
<1>7. \A f \in Fibers : f # g /\ f \in evs[bound[f]] => f \in evs'[bound[f]]
  BY <1>1, <1>3, IoTypes
<1>8. "handle" \in EventPCs /\ "trigger" \in EventPCs
  BY DEF EventPCs
<1> QED BY <1>1, <1>2, <1>3, <1>4, <1>5, <1>6, <1>7, <1>8, E_event

LEMMA E_arrive ==
  ASSUME TInv, FInv, EInv, FStep, NEW g \in Fibers, arrive(g)
  PROVE  EInv'
<1>1. /\ avail' = [avail EXCEPT ![g] = TRUE] /\ rdy' = [rdy EXCEPT ![g] = armed[g]]
      /\ UNCHANGED <<pc, state, task, pending, bound, armed, reg, fired, evs>>
  BY DEF arrive, schedVars, chanVars
<1>2. \A f \in Fibers : IF f = g THEN rdy'[f] = armed[f]
                                 ELSE rdy'[f] = rdy[f] /\ avail'[f] = avail[f]
  BY <1>1, IoTypes
<1>3. \A f \in Fibers : \A n : Event(f, n) \in InPlay(q, Carried)
                           => Event(f, n) \in InPlay(q, Carried)'
  BY <1>1, EventKept
<1>4. \A f \in Fibers : \A n \in fired[f] : n <= reg[f]
  BY DEF EInv, RegBounds
<1> QED BY <1>1, <1>2, <1>3, <1>4, E_event

(* The callback runs: from now on the task of the fiber is in play.        *)
LEMMA E_eventCallback ==
  ASSUME TInv, FInv, EInv, FStep, NEW w \in Workers, eventCallback(w)
  PROVE  EInv'
<1> USE ThreadIds
<1> DEFINE c == cur(w)
           n == task[w].n
<1>1. /\ pc[w] = "begin" /\ task[w].kind = "event" /\ pc' = [pc EXCEPT ![w] = "uncount"]
      /\ UNCHANGED <<state, task, pending, bound, armed, reg, evs, avail, rdy>>
      /\ fired' = [fired EXCEPT ![c] = @ \cup {n}]
      /\ \/ q' = [q EXCEPT ![w] = Append(@, FiberOf(c))]
         \/ n \in fired[c] \/ state[c] = "kTerm"
  BY DEF eventCallback, Push, Goto, fiberVars, kernVars
<1>2. /\ task[w] \in Task /\ c \in Fibers /\ n \in Nat /\ task[w] = Event(c, n)
  BY <1>1, CurFiber DEF HandPCs, Event, Task, cur
<1>3. \A v \in Workers : pc'[v] = IF v = w THEN "uncount" ELSE pc[v]
  BY <1>1, FiberTypes
<1>4. n <= reg[c]
  <2>1. Carried[w] = task[w]
    BY <1>1 DEF Carried
  <2>2. task[w] \in InPlay(q, Carried)
    BY <1>2, <2>1, PlayIs, NoTaskIsNone
  <2> QED BY <1>1, <2>2 DEF EInv, RegBounds, cur
<1>5. \A f \in Fibers : fired'[f] = IF f = c THEN fired[f] \cup {n} ELSE fired[f]
  BY <1>1, <1>2, IoTypes
<1>6. \A f \in Fibers : \A m \in fired'[f] : m <= reg[f]
  BY <1>4, <1>5 DEF EInv, RegBounds
<1>7. armed[c] /\ n \notin fired[c] => FiberOf(c) \in InPlay(q, Carried)'
  <2> SUFFICES ASSUME armed[c], n \notin fired[c]
               PROVE  FiberOf(c) \in InPlay(q, Carried)'
    OBVIOUS
  <2>1. q' = [q EXCEPT ![w] = Append(@, FiberOf(c))]
    BY <1>1, <1>2 DEF EInv, ArmedState
  <2> DEFINE x == FiberOf(c)
  <2>2. x \in Task /\ x # NoTask
    BY <1>2 DEF FiberOf, Task, NoTask
  <2>3. q'[w] = Append(q[w], x) /\ q[w] \in Seq(Task)
    BY <2>1, FiberTypes
  <2> HIDE DEF x
  <2>4. x \in Range(q'[w])
    BY <2>2, <2>3, RangeAppend
  <2>5. x \in InPlay(q', Carried')
    BY <2>2, <2>4, PlayIs
  <2> QED BY <2>5 DEF x
<1>8. ASSUME NEW f \in Fibers, NEW m, Event(f, m) \in InPlay(q, Carried), m \notin fired'[f]
      PROVE  Event(f, m) \in InPlay(q, Carried)'
  <2>1. ~Spent(Event(f, m))
    <3>1. \A v \in Workers : pc[v] = "begin" /\ pc'[v] = "uncount" => v = w
      BY <1>3
    <3>2. Event(f, m) # Event(c, n)
      BY <1>2, <1>5, <1>8 DEF Event
    <3>3. Event(f, m).kind = "event"
      BY DEF Event
    <3> QED BY <1>2, <3>1, <3>2, <3>3 DEF Spent
  <2> QED BY <1>8, <2>1, Zenon DEF FStep, PlayStep
<1>9. \A f \in Fibers :
            /\ reg[f] \in fired[f] => reg[f] \in fired'[f]
            /\ armed[f] /\ reg[f] \in fired'[f] /\ reg[f] \notin fired[f] =>
                  FiberOf(f) \in InPlay(q, Carried)'
  <2> SUFFICES ASSUME NEW f \in Fibers
               PROVE  /\ reg[f] \in fired[f] => reg[f] \in fired'[f]
                      /\ armed[f] /\ reg[f] \in fired'[f] /\ reg[f] \notin fired[f] =>
                            FiberOf(f) \in InPlay(q, Carried)'
    OBVIOUS
  <2>1. CASE f = c
    BY <1>5, <1>7, <2>1
  <2>2. CASE f # c
    BY <1>5, <2>2
  <2> QED BY <2>1, <2>2
<1>10. \A f \in Fibers : Event(f, reg[f]) \in InPlay(q, Carried) /\ reg[f] \notin fired'[f] =>
                  Event(f, reg[f]) \in InPlay(q, Carried)'
  BY <1>8
<1> HIDE DEF c, n
<1> QED BY <1>1, <1>3, <1>6, <1>9, <1>10, E_event

-----------------------------------------------------------------------------
LEMMA EInvNext == TInv /\ FInv /\ EInv /\ [Next]_vars => EInv'
<1> SUFFICES ASSUME TInv, FInv, EInv, [Next]_vars
             PROVE  EInv'
  OBVIOUS
<1>1. FStep
  BY FInvNext
<1>2. ASSUME NEW w \in Workers, worker(w) \/ pollInterrupted(w)
      PROVE  EInv'
  <2> USE <1>1, ThreadIds
  <2>1. CASE \/ run(w) /\ UNCHANGED ioVars
             \/ userBody(w)
             \/ (call(w) /\ UNCHANGED ioVars) \/ writeEventFd(w)
    BY <2>1, Plain_run, Plain_body, Plain_call, E_plain
  <2>2. CASE idle(w) \/ pollInterrupted(w)
    BY <2>2, Plain_idle, E_plain, E_poll, E_readEventFd, E_handleEvent DEF idle
  <2>3. CASE doIo(w)
    BY <2>3, E_sysFunc, E_registerEvent, E_pendingAddHold, E_unregisterEvent,
       E_pendingSub, E_eventCallback DEF doIo
  <2> QED BY <1>2, <2>1, <2>2, <2>3 DEF worker
<1>3. CASE mainStart
  <2>1. Main \in Threads /\ Main \notin Workers
    BY ThreadIds
  <2> QED BY <1>1, <1>3, <2>1, Plain_main, Plain_submit, E_plain DEF mainStart, mainSubmit
<1>4. CASE mainFinish
  BY <1>1, <1>4, ThreadIds, Plain_main, Plain_call, E_plain DEF mainFinish
<1>5. CASE \E f \in Fibers : arrive(f)
  BY <1>1, <1>5, E_arrive
<1>6. CASE UNCHANGED vars
  <2>1. PlainStep
    BY <1>6 DEF vars, schedVars, ioVars, PlainStep, PlainMove, EInv, ArmedState
  <2> QED BY <1>1, <2>1, E_plain
<1> QED BY <1>2, <1>3, <1>4, <1>5, <1>6 DEF Next

LEMMA EInvAlways == Spec => [](TInv /\ FInv /\ EInv)
<1>1. TInv /\ FInv /\ EInv /\ [Next]_vars => TInv' /\ FInv' /\ EInv'
  BY TInvNext, FInvNext, EInvNext
<1> QED BY <1>1, TInvInit, FInvInit, EInvInit, PTL DEF Spec

(* The race of do_io with its own event is safe: however the arrival falls *)
(* between the failed call, registerEvent and hold(), and whichever        *)
(* workers report the event and run its callback, a fiber that is held in  *)
(* do_io while its descriptor is ready has a wake-up in flight.            *)
THEOREM ArrivalNotLost == Spec => []EventNotLost
<1>1. TInv /\ FInv /\ EInv => EventNotLost
  <2> SUFFICES ASSUME TInv, FInv, EInv, NEW f \in Fibers, state[f] = "kHold",
                      armed[f], avail[f], ~execute[f]
               PROVE  \/ rdy[f]
                      \/ f \in evs[bound[f]]
                      \/ reg[f] \notin fired[f] /\ InFlight(Event(f, reg[f]))
                      \/ InFlight(FiberOf(f))
    BY DEF EventNotLost
  <2>1. ~(\E w \in Workers : pc[w] \in WokenPCs /\ cur(w) = f)
    BY DEF FInv, FiberExclusive, WokenPCs, HoldPCs
  <2>2. \A x \in InPlay(q, Carried) : InFlight(x)
    <3> TAKE x \in InPlay(q, Carried)
    <3>1. (\E w \in Workers : x \in Range(q[w])) \/ (\E t \in Threads : x = Carried[t])
      BY PlayIs
    <3> QED BY <3>1 DEF InFlight, Carried
  <2> QED BY <2>1, <2>2, Zenon DEF EInv, Woken
<1> QED BY <1>1, EInvAlways, PTL

(* pending_event_count_ is the number of registrations in force, up to the *)
(* workers between a registration and its count: registrations, stray      *)
(* wake-ups and second rounds of do_io always balance.                     *)
THEOREM PendingCounted == Spec => []PendingCount
<1>1. TInv /\ FInv /\ EInv => PendingCount
  BY DEF EInv, Pending, PendingCount, Armed, AtPend, AtSub
<1> QED BY <1>1, EInvAlways, PTL

-----------------------------------------------------------------------------
(* The count of active workers.                                            *)
ActivePCs == HoldPCs \cup {"begin", "uncount"}
Actives   == {w \in Workers : pc[w] \in ActivePCs}

(* Nobody crosses one of the two counts.                                   *)
SteadyStep ==
  /\ active' = active
  /\ \A w \in Workers : pc'[w] \in ActivePCs <=> pc[w] \in ActivePCs

LEMMA SteadyOf ==
  ASSUME TInv, NEW t \in Threads, NEW p, pc' = [pc EXCEPT ![t] = p], active' = active,
         t \in Workers => (p \in ActivePCs <=> pc[t] \in ActivePCs)
  PROVE  SteadyStep
<1>1. \A u \in Threads : IF u = t THEN pc'[u] = p ELSE pc'[u] = pc[u]
  BY FiberTypes
<1> QED BY <1>1, ThreadIds DEF SteadyStep

LEMMA Steady_call ==
  ASSUME TInv, NEW t \in Threads, call(t) \/ writeEventFd(t)
  PROVE  SteadyStep
<1>1. CASE submitPush(t) \/ tickle(t) \/ writeEventFd(t)
  <2>1. /\ active' = active /\ pc[t] \in {"push", "tickle", "wake"}
        /\ \/ \E p \in {"tickle", "wake"} : pc' = [pc EXCEPT ![t] = p]
           \/ TickleReturn(t) \/ TickleLoop(t)
    BY <1>1 DEF submitPush, tickle, writeEventFd, wakeCall, Goto
  <2>2. PICK p : /\ pc' = [pc EXCEPT ![t] = p]
                 /\ t \in Workers => p \in {"running", "tickle", "wake"}
    BY <2>1, TickleEnds, ThreadIds
  <2> QED BY <2>1, <2>2, SteadyOf DEF ActivePCs, HoldPCs
<1>2. CASE stoppingFlags(t) \/ stoppingPending(t) \/ stoppingQueue(t)
  <2>1. pc[t] \in StoppingPCs
    BY <1>2, StoppingSteps
  <2>2. CASE \E p \in {"stop_pending", "stop_queue"}, i \in Workers : StoppingNext(t, p, i)
    <3>1. active' = active
          /\ \E p \in {"stop_pending", "stop_queue"} : pc' = [pc EXCEPT ![t] = p]
      BY <2>2 DEF StoppingNext, Goto
    <3> QED BY <2>1, <3>1, SteadyOf DEF StoppingPCs, ActivePCs, HoldPCs, IoPCs
  <2>3. CASE \E b \in BOOLEAN : StoppingReturn(t, b)
    <3>1. t \in Workers => site[t] \in {"pre", "post"}
      BY <2>1 DEF TInv, Sites
    <3>2. PICK b \in BOOLEAN : StoppingReturn(t, b)
      BY <2>3
    <3>3. /\ active' = active
          /\ \E p : /\ pc' = [pc EXCEPT ![t] = p]
                    /\ site[t] \in {"pre", "post"} => p \in {"quit", "has_task", "pop"}
      BY <3>2 DEF StoppingReturn, Goto
    <3> QED BY <2>1, <3>1, <3>3, SteadyOf DEF StoppingPCs, ActivePCs, HoldPCs, IoPCs
  <2> QED BY <1>2, <2>2, <2>3, StoppingSteps
<1> QED BY <1>1, <1>2 DEF call

LEMMA Steady_worker ==
  ASSUME TInv, NEW w \in Workers, worker(w) \/ pollInterrupted(w),
         ~countIn(w), ~handBack(w), ~countOut(w)
  PROVE  SteadyStep
<1> USE ThreadIds
<1>1. CASE run(w)
  <2>1. active' = active
    BY <1>1 DEF run, popOwn, popNone, stealTask, stealPass, StealFrom, beginCb,
                lockFiber, dropTerm, resumeFiber, requeue, unlockFiber, idleQuit
  <2>2. CASE popOwn(w) \/ popNone(w) \/ stealTask(w) \/ stealPass(w) \/ idleQuit(w)
    <3>1. pc[w] \in {"pop", "steal", "quit"}
          /\ \E p \in {"count", "steal", "exit", "idle", "pop"} : pc' = [pc EXCEPT ![w] = p]
      BY <2>2 DEF popOwn, popNone, stealTask, stealPass, StealFrom, idleQuit, Goto
    <3> QED BY <2>1, <3>1, SteadyOf DEF ActivePCs, HoldPCs, IoPCs
  <2>3. CASE beginCb(w) \/ lockFiber(w) \/ dropTerm(w) \/ resumeFiber(w) \/ requeue(w)
             \/ unlockFiber(w)
    <3>1. pc[w] \in {"begin", "locked", "requeue", "unlock"}
          /\ \E p \in {"running", "locked", "unlock", "uncount"} : pc' = [pc EXCEPT ![w] = p]
      BY <2>3 DEF beginCb, lockFiber, dropTerm, resumeFiber, requeue, unlockFiber, Goto
    <3> QED BY <2>1, <3>1, SteadyOf DEF ActivePCs, HoldPCs
  <2> QED BY <1>1, <2>2, <2>3 DEF run
<1>2. CASE userBody(w)
  <2>1. pc[w] = "running" /\ active' = active
        /\ \E p \in {"unlock", "requeue", "push"} : pc' = [pc EXCEPT ![w] = p]
    BY <1>2 DEF userBody, body, bodyReturn, bodyYield, bodyHold, submitCb, submitNew,
                submitFiber, Claim, Goto
  <2> QED BY <2>1, SteadyOf DEF ActivePCs, HoldPCs
<1>3. CASE idle(w) \/ pollInterrupted(w)
  <2>1. CASE \/ readEventFd(w)
             \/ \E f \in Fibers : handleEvent(w, f) /\ ~armed[f]
    BY <2>1 DEF readEventFd, schedVars, handleEvent, SteadyStep
  <2>2. CASE ~readEventFd(w) /\ ~\E f \in Fibers : handleEvent(w, f) /\ ~armed[f]
    <3>1. /\ active' = active
          /\ pc[w] \in {"idle", "has_task", "poll", "woke", "handle", "trigger"}
          /\ \E p \in {"stopping", "pop", "poll", "woke", "handle", "trigger"} :
                pc' = [pc EXCEPT ![w] = p]
      BY <1>3, <2>2 DEF idle, idleEnter, hasTask, hasNoTask, poll, pollInterrupted,
                        idleWoke, handleEvent, triggerPush, idleHandled, Goto
    <3> QED BY <3>1, SteadyOf DEF ActivePCs, HoldPCs, IoPCs
  <2> QED BY <2>1, <2>2
<1>4. CASE doIo(w)
  <2>1. /\ active' = active
        /\ pc[w] \in {"running", "begin"} \cup IoPCs
        /\ \E p \in {"running", "unlock", "uncount"} \cup IoPCs : pc' = [pc EXCEPT ![w] = p]
    BY <1>4 DEF doIo, ioEnter, ioRetry, SysFunc, registerEvent, pendingAddHold,
                unregisterEvent, pendingSub, eventCallback, Goto, IoPCs
  <2> QED BY <2>1, SteadyOf DEF ActivePCs, HoldPCs
<1>5. CASE call(w) \/ writeEventFd(w)
  BY <1>5, Steady_call
<1> QED BY <1>1, <1>2, <1>3, <1>4, <1>5 DEF worker

LEMMA ActiveNext == TInv /\ ActiveCount /\ [Next]_vars => ActiveCount'
<1> SUFFICES ASSUME TInv, active = Cardinality(Actives), [Next]_vars
             PROVE  active' = Cardinality(Actives')
  BY DEF ActiveCount, Actives, ActivePCs
<1>1. CASE SteadyStep
  <2>1. Actives' = Actives
    BY <1>1 DEF SteadyStep, Actives
  <2> QED BY <1>1, <2>1 DEF SteadyStep
<1>2. ASSUME NEW w \in Workers, countIn(w)
      PROVE  active' = Cardinality(Actives')
  <2>1. pc[w] = "count" /\ active' = active + 1 /\ pc' = [pc EXCEPT ![w] = "begin"]
    BY <1>2 DEF countIn, Goto
  <2>2. \A v \in Workers : pc'[v] = IF v = w THEN "begin" ELSE pc[v]
    BY <2>1, FiberTypes, ThreadIds
  <2>3. w \notin Actives /\ \A v : v \in Actives' <=> v \in Actives \/ v = w
    BY <2>1, <2>2 DEF Actives, ActivePCs, HoldPCs, IoPCs
  <2>4. IsFiniteSet(Actives)
    BY WorkersFinite DEF Actives
  <2> QED BY <2>1, <2>3, <2>4, CountMore
<1>3. ASSUME NEW w \in Workers, handBack(w) \/ countOut(w)
      PROVE  active' = Cardinality(Actives')
  <2>1. pc[w] \in {"begin", "uncount"} /\ active' = active - 1
        /\ pc' = [pc EXCEPT ![w] = "pop"]
    BY <1>3 DEF handBack, countOut, Goto
  <2>2. \A v \in Workers : pc'[v] = IF v = w THEN "pop" ELSE pc[v]
    BY <2>1, FiberTypes, ThreadIds
  <2>3. w \in Actives /\ \A v : v \in Actives' <=> v \in Actives /\ v # w
    BY <2>1, <2>2 DEF Actives, ActivePCs, HoldPCs, IoPCs
  <2>4. IsFiniteSet(Actives)
    BY WorkersFinite DEF Actives
  <2> QED BY <2>1, <2>3, <2>4, CountLess
<1>4. CASE mainStart \/ mainFinish
  <2>1. CASE init
    <3>1. active' = active /\ \A w \in Workers : pc[w] = "off" /\ pc'[w] = "pop"
      BY <2>1, ThreadIds DEF init
    <3> QED BY <1>1, <3>1 DEF SteadyStep, ActivePCs, HoldPCs, IoPCs
  <2>2. CASE mainSubmit \/ stopCall \/ stopAgain \/ join
    <3>1. active' = active /\ \E p : pc' = [pc EXCEPT ![Main] = p]
      BY <2>2 DEF mainSubmit, submitCb, submitNew, submitFiber, Claim, stopCall,
                  stopAgain, join, Goto
    <3> QED BY <1>1, <3>1, SteadyOf, ThreadIds
  <2>3. CASE call(Main) \/ writeEventFd(Main)
    BY <1>1, <2>3, Steady_call, ThreadIds
  <2> QED BY <1>4, <2>1, <2>2, <2>3 DEF mainStart, mainFinish
<1>5. CASE (\E f \in Fibers : arrive(f)) \/ UNCHANGED vars
  BY <1>1, <1>5 DEF arrive, vars, schedVars, SteadyStep
<1>6. ASSUME NEW w \in Workers, worker(w) \/ pollInterrupted(w)
      PROVE  active' = Cardinality(Actives')
  BY <1>1, <1>2, <1>3, <1>6, Steady_worker
<1> QED BY <1>4, <1>5, <1>6 DEF Next

(* active_thread_count_ is the number of workers between its increment and *)
(* its decrement: the requeue, drop, hand-back and event paths of run()    *)
(* all balance.                                                            *)
THEOREM ActiveCounted == Spec => []ActiveCount
<1>1. Init => ActiveCount
  <2> SUFFICES ASSUME Init PROVE ActiveCount
    OBVIOUS
  <2>1. \A w \in Workers : pc[w] = "off"
    BY ThreadIds DEF Init, SchedInit
  <2>2. {w \in Workers : pc[w] \in HoldPCs \cup {"begin", "uncount"}} = {}
    BY <2>1 DEF HoldPCs, IoPCs
  <2> QED BY <2>2, FS_EmptySet DEF ActiveCount, Init, SchedInit
<1> QED BY <1>1, TInvAlways, ActiveNext, PTL DEF Spec

(* Neither counter is ever decremented below zero: both are atomics of the *)
(* unsigned type size_t, and a wrap would keep stopping() false for ever.  *)
THEOREM CountersNeverWrap == Spec => [](active \in Nat /\ pending \in Nat)
<1>1. TInv /\ FInv /\ EInv /\ ActiveCount => active \in Nat /\ pending \in Nat
  <2> SUFFICES ASSUME TInv, FInv, EInv, ActiveCount
               PROVE  active \in Nat /\ pending \in Nat
    OBVIOUS
  <2>1. active \in Nat
    BY WorkersFinite DEF ActiveCount
  <2>2. IsFiniteSet(Armed) /\ Cardinality(Armed) \in Nat
    BY FS_CardinalityType DEF EInv, Pending
  <2>3. Cardinality(AtPend) <= Cardinality(Armed)
    <3> DEFINE h == [w \in AtPend |-> cur(w)]
    <3>1. \A w \in AtPend : w \in Workers /\ pc[w] \in HoldPCs /\ armed[cur(w)]
      BY DEF AtPend, HoldPCs, IoPCs, EInv, IoStage
    <3>2. \A w \in AtPend : cur(w) \in Armed
      BY <3>1, Alone DEF Armed
    <3>3. \A w, v \in AtPend : cur(w) = cur(v) => w = v
      BY <3>1, Alone
    <3>4. h \in Injection(AtPend, Armed)
      BY <3>2, <3>3 DEF Injection, IsInjective
    <3> HIDE DEF h
    <3> QED BY <2>2, <3>4, FS_Injection
  <2>4. Cardinality(AtPend) \in Nat /\ Cardinality(AtSub) \in Nat
    BY WorkersFinite DEF AtPend, AtSub
  <2> QED BY <2>1, <2>2, <2>3, <2>4 DEF EInv, Pending
<1> QED BY <1>1, EInvAlways, ActiveCounted, PTL
=============================================================================
