----------------------------- MODULE Scheduler -----------------------------
(***************************************************************************)
(* class Scheduler (scheduler.h, scheduler.cpp): N worker threads, each    *)
(* with a task queue of its own, round-robin submission, work stealing,    *)
(* the run loop around the fibers, and stop().                             *)
(*                                                                         *)
(* The module holds the operations that the base class and IOManager       *)
(* share.  idle() and tickle() are virtual: CvScheduler adds the condition *)
(* variable versions of the base class, IOManager the epoll ones.  Each of *)
(* them defines the next-state relation.                                   *)
(*                                                                         *)
(* One action is one access to memory that another thread can see: a       *)
(* critical section of TaskQueue::mtx, or one atomic load, store or        *)
(* exchange.                                                               *)
(***************************************************************************)
EXTENDS Integers, Sequences, SequencesExt, FiniteSets, Fiber

CONSTANTS N,              \* threads_.size()
          MaxSlices,      \* bound: yields and holds of one fiber
          MaxWakes        \* bound: submit(fiber) of a fiber that already exists

ASSUME NAssumption == N \in Nat \ {0}
ASSUME BoundsAssumption == MaxSlices \in Nat /\ MaxWakes \in Nat

Workers == 0 .. (N - 1)
Main    == N              \* the thread that owns the scheduler: submits, stops
Threads == 0 .. N

(* ScheduledTask: a callback whose wrapper fiber is not built yet, a       *)
(* fiber, or the callback of do_io for the n-th registration of a fiber.   *)
Task   == [kind: {"cb", "fiber", "event"}, id: Fibers, n: Nat]
NoTask == [kind |-> "null"]

Cb(f)       == [kind |-> "cb", id |-> f, n |-> 0]
FiberOf(f)  == [kind |-> "fiber", id |-> f, n |-> 0]
Event(f, n) == [kind |-> "event", id |-> f, n |-> n]

VARIABLES
  q,          \* TaskQueue::tasks of each worker
  idling,     \* TaskQueue::idling
  stop,       \* Scheduler::stop_
  active,     \* Scheduler::active_thread_count_
  pending,    \* Scheduler::pending_event_count_
  post,       \* Scheduler::thread_to_post_index_ % N
  pc,         \* control point of each thread
  task,       \* the local "task" of Scheduler::run
  out,        \* the task a thread has built and not yet pushed
  scan,       \* loop index of stealTask and of stopping
  tgt,        \* idx of submit and tickle
  site,       \* the caller that tickle or stopping returns to
  idleTerm,   \* the idle fiber is kTerm
  slices,     \* bounded: yields and holds each fiber has used
  wakes       \* bounded: submissions of an existing fiber

boundVars  == <<slices, wakes>>
schedVars  == <<state, execute, q, idling, stop, active, pending, post, pc,
                task, out, scan, tgt, site, idleTerm, slices, wakes>>

RunPCs  == {"off", "pop", "steal", "count", "begin", "locked", "running",
            "requeue", "unlock", "uncount", "exit"}
CallPCs == {"push", "tickle", "wake", "stopping", "stop_pending", "stop_queue",
            "quit"}
MainPCs == {"main", "join", "done"}
IdlePCs == {"idle", "has_task", "poll", "woke", "handle", "trigger", "cv_lock",
            "cv_wait"}
IoPCs   == {"io_call", "io_reg", "io_pend", "io_unpend"}
PCs     == RunPCs \cup CallPCs \cup MainPCs \cup IdlePCs \cup IoPCs

(* the state the threads share                                             *)
QueueTypeOK ==
  /\ q \in [Workers -> Seq(Task)]
  /\ idling \in [Workers -> BOOLEAN]
  /\ stop \in BOOLEAN
  /\ active \in Int
  /\ pending \in Int
  /\ post \in Workers

(* the control and the locals of each thread                               *)
ThreadTypeOK ==
  /\ pc \in [Threads -> PCs]
  /\ task \in [Workers -> Task \cup {NoTask}]
  /\ out \in [Threads -> Task \cup {NoTask}]
  /\ scan \in [Threads -> Workers]
  /\ tgt \in [Threads -> Workers]
  /\ site \in [Threads -> {"submit", "stop", "final", "pre", "post"}]
  /\ idleTerm \in [Workers -> BOOLEAN]
  /\ slices \in [Fibers -> Nat]
  /\ wakes \in Nat

SchedTypeOK == FiberTypeOK /\ QueueTypeOK /\ ThreadTypeOK

SchedInit ==
  /\ FiberInit
  /\ q = [w \in Workers |-> <<>>]
  /\ idling = [w \in Workers |-> FALSE]
  /\ stop = TRUE
  /\ active = 0
  /\ pending = 0
  /\ post = 0
  /\ pc = [t \in Threads |-> IF t = Main THEN "main" ELSE "off"]
  /\ task = [w \in Workers |-> NoTask]
  /\ out = [t \in Threads |-> NoTask]
  /\ scan = [t \in Threads |-> 0]
  /\ tgt = [t \in Threads |-> 0]
  /\ site = [t \in Threads |-> "submit"]
  /\ idleTerm = [w \in Workers |-> FALSE]
  /\ slices = [f \in Fibers |-> 0]
  /\ wakes = 0

Goto(t, p) == pc' = [pc EXCEPT ![t] = p]
Push(w, x) == q' = [q EXCEPT ![w] = Append(@, x)]

(* the fiber that worker w has taken out of a queue                        *)
cur(w) == task[w].id

-----------------------------------------------------------------------------
(***************************************************************************)
(* init() and submit()                                                     *)
(***************************************************************************)

(* init(): the first submit() or bindTaskQueue() of the process.           *)
init ==
  /\ pc[Main] = "main"
  /\ \A w \in Workers : pc[w] = "off"
  /\ stop' = FALSE
  /\ pc' = [t \in Threads |-> IF t = Main THEN "main" ELSE "pop"]
  /\ UNCHANGED <<fiberVars, q, idling, active, pending, post, task, out, scan,
                 tgt, site, idleTerm, boundVars>>

(* A post index that is used without the remainder.                        *)
ClaimNoWrap(t, x) ==
  /\ out' = [out EXCEPT ![t] = x]
  /\ tgt' = [tgt EXCEPT ![t] = post]
  /\ post' = post + 1
  /\ Goto(t, "push")
  /\ UNCHANGED <<q, idling, stop, active, pending, task, scan, site, idleTerm,
                 slices>>

(* submit() up to the choice of a queue: fetch_add on the post index.      *)
Claim(t, x) ==
  /\ out' = [out EXCEPT ![t] = x]
  /\ tgt' = [tgt EXCEPT ![t] = post]
  /\ post' = (post + 1) % N
  /\ Goto(t, "push")
  /\ UNCHANGED <<q, idling, stop, active, pending, task, scan, site, idleTerm,
                 slices>>

MaySubmit(t) == \/ t = Main /\ pc[t] = "main" /\ pc[0] # "off"
                \/ t \in Workers /\ pc[t] = "running"

(* submit(cb): the callable is not a fiber yet.                            *)
submitCb(t, f) ==
  /\ MaySubmit(t)
  /\ state[f] = "none"
  /\ state' = [state EXCEPT ![f] = "posted"]
  /\ UNCHANGED <<execute, wakes>>
  /\ Claim(t, Cb(f))

(* submit(fiber) of a fiber the caller has just made                       *)
submitNew(t, f) ==
  /\ MaySubmit(t)
  /\ state[f] = "none"
  /\ construct(f)
  /\ UNCHANGED wakes
  /\ Claim(t, FiberOf(f))

(* submit(fiber) of a fiber that exists: the way to wake a held fiber; the *)
(* caller cannot know what the fiber does at that moment.                  *)
submitFiber(t, f) ==
  /\ MaySubmit(t)
  /\ wakes < MaxWakes
  /\ state[f] \in State
  /\ wakes' = wakes + 1
  /\ UNCHANGED fiberVars
  /\ Claim(t, FiberOf(f))

(* The end of tickle() in submit(): the caller goes on.                    *)
TickleReturn(t) ==
  /\ site[t] = "submit"
  /\ tgt' = [tgt EXCEPT ![t] = 0]
  /\ Goto(t, IF t = Main THEN "main" ELSE "running")

(* The end of tickle(i) in one of the two loops of stop(): the next worker *)
(* or, after the last one, stopping() or the joins.                        *)
TickleLoop(t) ==
  /\ site[t] \in {"stop", "final"}
  /\ IF tgt[t] + 1 < N
     THEN /\ tgt' = [tgt EXCEPT ![t] = @ + 1]
          /\ Goto(t, "tickle")
     ELSE /\ tgt' = [tgt EXCEPT ![t] = 0]
          /\ Goto(t, IF site[t] = "stop" THEN "stopping" ELSE "join")

(* A submit that tickles nobody.                                           *)
submitPushSilent(t) ==
  /\ pc[t] = "push"
  /\ Push(tgt[t], out[t])
  /\ out' = [out EXCEPT ![t] = NoTask]
  /\ TickleReturn(t)
  /\ UNCHANGED <<fiberVars, idling, stop, active, pending, post, task, scan,
                 site, idleTerm, boundVars>>

(* The critical section of submit; need_tickle is whether the queue was    *)
(* empty.                                                                  *)
submitPush(t) ==
  /\ pc[t] = "push"
  /\ Push(tgt[t], out[t])
  /\ out' = [out EXCEPT ![t] = NoTask]
  /\ IF q[tgt[t]] = <<>>
     THEN Goto(t, "tickle") /\ UNCHANGED tgt
     ELSE TickleReturn(t)
  /\ UNCHANGED <<fiberVars, idling, stop, active, pending, post, task, scan,
                 site, idleTerm, boundVars>>

-----------------------------------------------------------------------------
(***************************************************************************)
(* tickle() up to the call that wakes the worker, and its return.  stop()  *)
(* calls it for every worker in a loop.                                    *)
(***************************************************************************)

tickle(t) ==
  /\ pc[t] = "tickle"
  /\ IF idling[tgt[t]] THEN Goto(t, "wake") /\ UNCHANGED tgt
                       ELSE TickleReturn(t) \/ TickleLoop(t)
  /\ UNCHANGED <<fiberVars, q, idling, stop, active, pending, post, task, out,
                 scan, site, idleTerm, boundVars>>

(* the part of the wake-up call that both versions of tickle() share       *)
wakeCall(t) ==
  /\ pc[t] = "wake"
  /\ TickleReturn(t) \/ TickleLoop(t)
  /\ UNCHANGED <<fiberVars, q, idling, stop, active, pending, post, task, out,
                 scan, site, idleTerm, boundVars>>

-----------------------------------------------------------------------------
(***************************************************************************)
(* stopping(): one load or one critical section at a time.  stop_ and the  *)
(* active count are one step: stop_ never returns to false.                *)
(***************************************************************************)

(* what the caller of stopping() does with the answer b                    *)
StoppingReturn(t, b) ==
  /\ Goto(t, CASE site[t] = "pre"  -> IF b THEN "quit" ELSE "has_task"
               [] site[t] = "post" -> IF b THEN "quit" ELSE "pop"
               [] OTHER            -> "tickle")
  /\ site' = [site EXCEPT ![t] = IF @ # "stop" THEN "submit"
                                 ELSE IF b THEN "final" ELSE "stop"]
  /\ scan' = [scan EXCEPT ![t] = 0]
  /\ UNCHANGED <<fiberVars, q, idling, stop, active, pending, post, task, out,
                 tgt, idleTerm, boundVars>>

(* stopping() reads on.                                                    *)
StoppingNext(t, p, i) ==
  /\ Goto(t, p)
  /\ scan' = [scan EXCEPT ![t] = i]
  /\ UNCHANGED <<fiberVars, q, idling, stop, active, pending, post, task, out,
                 tgt, site, idleTerm, boundVars>>

stoppingFlags(t) ==
  /\ pc[t] = "stopping"
  /\ IF stop /\ active = 0 THEN StoppingNext(t, "stop_pending", 0)
                           ELSE StoppingReturn(t, FALSE)

stoppingPending(t) ==
  /\ pc[t] = "stop_pending"
  /\ IF pending = 0 THEN StoppingNext(t, "stop_queue", 0)
                    ELSE StoppingReturn(t, FALSE)

(* Visiting every queue and forgetting what was seen.                      *)
stoppingQueueBlind(t) ==
  /\ pc[t] = "stop_queue"
  /\ IF scan[t] + 1 < N THEN StoppingNext(t, "stop_queue", scan[t] + 1)
                        ELSE StoppingReturn(t, TRUE)

(* one queue, under its mutex                                              *)
stoppingQueue(t) ==
  /\ pc[t] = "stop_queue"
  /\ IF q[scan[t]] = <<>> /\ scan[t] + 1 < N
     THEN StoppingNext(t, "stop_queue", scan[t] + 1)
     ELSE StoppingReturn(t, q[scan[t]] = <<>>)

-----------------------------------------------------------------------------
(***************************************************************************)
(* run(): the loop of one worker                                           *)
(***************************************************************************)

(* stealTask goes on with the i-th victim.  After the last one there is no *)
(* task anywhere: resume the idle fiber, or leave once it is kTerm.        *)
StealFrom(w, i) ==
  /\ scan' = [scan EXCEPT ![w] = IF i < N THEN i ELSE 0]
  /\ Goto(w, IF i < N THEN "steal" ELSE IF idleTerm[w] THEN "exit" ELSE "idle")
  /\ UNCHANGED <<fiberVars, q, idling, stop, active, pending, post, task, out,
                 tgt, site, idleTerm, boundVars>>

(* the front of the worker's own queue                                     *)
popOwn(w) ==
  /\ pc[w] = "pop"
  /\ q[w] # <<>>
  /\ task' = [task EXCEPT ![w] = Head(q[w])]
  /\ q' = [q EXCEPT ![w] = Tail(@)]
  /\ Goto(w, "count")
  /\ UNCHANGED <<fiberVars, idling, stop, active, pending, post, out, scan, tgt,
                 site, idleTerm, boundVars>>

(* The own queue is empty: on to stealTask.                                *)
popNone(w) ==
  /\ pc[w] = "pop"
  /\ q[w] = <<>>
  /\ StealFrom(w, 1)

Victim(w) == (w + scan[w]) % N

(* Thread t's next step is a critical section of TaskQueue::mtx of v, so   *)
(* it may be inside it at this moment.                                     *)
Locking(t, v) ==
  \/ pc[t] = "push" /\ tgt[t] = v
  \/ pc[t] = "stop_queue" /\ scan[t] = v
  \/ pc[t] = "steal" /\ Victim(t) = v
  \/ t = v /\ pc[t] \in {"pop", "begin", "requeue", "has_task", "trigger",
                          "cv_lock", "cv_wait"}

(* stealTask: the back of a victim's queue                                 *)
stealTask(w) ==
  /\ pc[w] = "steal"
  /\ q[Victim(w)] # <<>>
  /\ task' = [task EXCEPT ![w] = Last(q[Victim(w)])]
  /\ q' = [q EXCEPT ![Victim(w)] = Front(@)]
  /\ scan' = [scan EXCEPT ![w] = 0]
  /\ Goto(w, "count")
  /\ UNCHANGED <<fiberVars, idling, stop, active, pending, post, out, tgt, site,
                 idleTerm, boundVars>>

(* The victim's queue is empty, or try_to_lock fails.                      *)
stealPass(w) ==
  /\ pc[w] = "steal"
  /\ \/ q[Victim(w)] = <<>>
     \/ \E t \in Threads \ {w} : Locking(t, Victim(w))
  /\ StealFrom(w, scan[w] + 1)

(* active_thread_count_.fetch_add(1)                                       *)
countIn(w) ==
  /\ pc[w] = "count"
  /\ active' = active + 1
  /\ Goto(w, "begin")
  /\ UNCHANGED <<fiberVars, q, idling, stop, pending, post, task, out, scan,
                 tgt, site, idleTerm, boundVars>>

(* a callback task: build the wrapper fiber and switch to it               *)
beginCb(w) ==
  /\ pc[w] = "begin"
  /\ task[w].kind = "cb"
  /\ launch(cur(w))
  /\ Goto(w, "running")
  /\ UNCHANGED <<q, idling, stop, active, pending, post, task, out, scan, tgt,
                 site, idleTerm, boundVars>>

(* a fiber task whose tryLock succeeds                                     *)
lockFiber(w) ==
  /\ pc[w] = "begin"
  /\ task[w].kind = "fiber"
  /\ tryLock(cur(w))
  /\ Goto(w, "locked")
  /\ UNCHANGED <<q, idling, stop, active, pending, post, task, out, scan, tgt,
                 site, idleTerm, boundVars>>

(* A failed tryLock that forgets the task.                                 *)
handBackDrop(w) ==
  /\ pc[w] = "begin"
  /\ task[w].kind = "fiber"
  /\ execute[cur(w)]
  /\ active' = active - 1
  /\ task' = [task EXCEPT ![w] = NoTask]
  /\ Goto(w, "pop")
  /\ UNCHANGED <<fiberVars, q, idling, stop, pending, post, out, scan, tgt,
                 site, idleTerm, boundVars>>

(* A failed tryLock that forgets the decrement.                            *)
handBackCounted(w) ==
  /\ pc[w] = "begin"
  /\ task[w].kind = "fiber"
  /\ execute[cur(w)]
  /\ Push(w, task[w])
  /\ task' = [task EXCEPT ![w] = NoTask]
  /\ Goto(w, "pop")
  /\ UNCHANGED <<fiberVars, idling, stop, active, pending, post, out, scan,
                 tgt, site, idleTerm, boundVars>>

(* tryLock fails: the task goes back to the own queue                      *)
handBack(w) ==
  /\ pc[w] = "begin"
  /\ task[w].kind = "fiber"
  /\ execute[cur(w)]
  /\ Push(w, task[w])
  /\ active' = active - 1
  /\ task' = [task EXCEPT ![w] = NoTask]
  /\ Goto(w, "pop")
  /\ UNCHANGED <<fiberVars, idling, stop, pending, post, out, scan, tgt, site,
                 idleTerm, boundVars>>

(* A fiber that has ended is dropped.                                      *)
dropTerm(w) ==
  /\ pc[w] = "locked"
  /\ state[cur(w)] = "kTerm"
  /\ Goto(w, "unlock")
  /\ UNCHANGED <<fiberVars, q, idling, stop, active, pending, post, task, out,
                 scan, tgt, site, idleTerm, boundVars>>

(* Resuming whatever the fiber's state is.                                 *)
resumeAny(w) ==
  /\ pc[w] = "locked"
  /\ resume(cur(w))
  /\ Goto(w, "running")
  /\ UNCHANGED <<q, idling, stop, active, pending, post, task, out, scan, tgt,
                 site, idleTerm, boundVars>>

(* Any other fiber is resumed.                                             *)
resumeFiber(w) ==
  /\ pc[w] = "locked"
  /\ state[cur(w)] # "kTerm"
  /\ resume(cur(w))
  /\ Goto(w, "running")
  /\ UNCHANGED <<q, idling, stop, active, pending, post, task, out, scan, tgt,
                 site, idleTerm, boundVars>>

(* A fiber that came back kReady goes to the back of the own queue.        *)
requeue(w) ==
  /\ pc[w] = "requeue"
  /\ Push(w, FiberOf(cur(w)))
  /\ Goto(w, "unlock")
  /\ UNCHANGED <<fiberVars, idling, stop, active, pending, post, task, out,
                 scan, tgt, site, idleTerm, boundVars>>

unlockFiber(w) ==
  /\ pc[w] = "unlock"
  /\ unlock(cur(w))
  /\ Goto(w, "uncount")
  /\ UNCHANGED <<q, idling, stop, active, pending, post, task, out, scan, tgt,
                 site, idleTerm, boundVars>>

(* active_thread_count_.fetch_sub(1)                                       *)
countOut(w) ==
  /\ pc[w] = "uncount"
  /\ active' = active - 1
  /\ task' = [task EXCEPT ![w] = NoTask]
  /\ Goto(w, "pop")
  /\ UNCHANGED <<fiberVars, q, idling, stop, pending, post, out, scan, tgt,
                 site, idleTerm, boundVars>>

(* idle() returned: its fiber is kTerm and run() makes one more round.     *)
idleQuit(w) ==
  /\ pc[w] = "quit"
  /\ idling' = [idling EXCEPT ![w] = FALSE]
  /\ idleTerm' = [idleTerm EXCEPT ![w] = TRUE]
  /\ Goto(w, "pop")
  /\ UNCHANGED <<fiberVars, q, stop, active, pending, post, task, out, scan,
                 tgt, site, boundVars>>

run(w) ==
  \/ popOwn(w) \/ popNone(w) \/ stealTask(w) \/ stealPass(w) \/ countIn(w)
  \/ beginCb(w) \/ lockFiber(w) \/ handBack(w) \/ dropTerm(w) \/ resumeFiber(w)
  \/ requeue(w) \/ unlockFiber(w) \/ countOut(w) \/ idleQuit(w)

-----------------------------------------------------------------------------
(***************************************************************************)
(* What the body of a fiber does on worker w                               *)
(***************************************************************************)

(* the callable returns                                                    *)
bodyReturn(w) ==
  /\ pc[w] = "running"
  /\ mainFuncReturn(cur(w))
  /\ Goto(w, "unlock")
  /\ UNCHANGED <<q, idling, stop, active, pending, post, task, out, scan, tgt,
                 site, idleTerm, boundVars>>

bodyYield(w) ==
  /\ pc[w] = "running"
  /\ slices[cur(w)] < MaxSlices
  /\ slices' = [slices EXCEPT ![cur(w)] = @ + 1]
  /\ yield(cur(w))
  /\ Goto(w, "requeue")
  /\ UNCHANGED <<q, idling, stop, active, pending, post, task, out, scan, tgt,
                 site, idleTerm, wakes>>

bodyHold(w) ==
  /\ pc[w] = "running"
  /\ slices[cur(w)] < MaxSlices
  /\ slices' = [slices EXCEPT ![cur(w)] = @ + 1]
  /\ hold(cur(w))
  /\ Goto(w, "unlock")
  /\ UNCHANGED <<q, idling, stop, active, pending, post, task, out, scan, tgt,
                 site, idleTerm, wakes>>

body(w) ==
  \/ bodyReturn(w) \/ bodyYield(w) \/ bodyHold(w)
  \/ \E f \in Fibers : submitCb(w, f) \/ submitNew(w, f) \/ submitFiber(w, f)

-----------------------------------------------------------------------------
(***************************************************************************)
(* stop()                                                                  *)
(***************************************************************************)

(* stop_.exchange(true)                                                    *)
stopCall ==
  /\ pc[Main] = "main"
  /\ ~stop
  /\ stop' = TRUE
  /\ Goto(Main, "tickle")
  /\ site' = [site EXCEPT ![Main] = "stop"]
  /\ UNCHANGED <<fiberVars, q, idling, active, pending, post, task, out, scan,
                 tgt, idleTerm, boundVars>>

(* It was true already, because nothing was ever started: stop() returns.  *)
stopAgain ==
  /\ pc[Main] = "main"
  /\ stop
  /\ Goto(Main, "done")
  /\ UNCHANGED <<fiberVars, q, idling, stop, active, pending, post, task, out,
                 scan, tgt, site, idleTerm, boundVars>>

(* thread.join() of every worker                                           *)
join ==
  /\ pc[Main] = "join"
  /\ \A w \in Workers : pc[w] = "exit"
  /\ Goto(Main, "done")
  /\ UNCHANGED <<fiberVars, q, idling, stop, active, pending, post, task, out,
                 scan, tgt, site, idleTerm, boundVars>>

mainSubmit == \E f \in Fibers :
                 submitCb(Main, f) \/ submitNew(Main, f) \/ submitFiber(Main, f)

(* the steps any thread takes inside submit, tickle and stopping           *)
call(t) == submitPush(t) \/ tickle(t) \/ stoppingFlags(t) \/ stoppingPending(t)
           \/ stoppingQueue(t)
=============================================================================
