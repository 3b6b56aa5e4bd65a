----------------------------- MODULE ThreadPool -----------------------------
(***************************************************************************)
(* class ThreadPool (thread_pool.h, thread_pool.cpp): N workers, each with *)
(* a locked queue and a condition variable of its own, round-robin submit, *)
(* stealing from the back of the other queues, and a destructor that stops *)
(* and joins the workers.                                                  *)
(*                                                                         *)
(* One action is one critical section of a worker's mutex or one atomic    *)
(* access.  The owner of the pool and the tasks themselves may submit.     *)
(***************************************************************************)
EXTENDS Integers, Sequences, SequencesExt

CONSTANTS N,              \* the size of the pool
          Tasks,          \* identities of the tasks that can be submitted
          NoTask          \* an empty InplaceFunction

ASSUME NAssumption == N \in Nat \ {0}
ASSUME NoTaskAssumption == NoTask \notin Tasks

Workers == 0 .. (N - 1)
Main    == N
Threads == 0 .. N

VARIABLES
  queue,      \* WorkerData::queue
  stop,       \* WorkerData::stop
  notified,   \* a notification has reached the waiter of WorkerData::cv
  cur_id,     \* ThreadPool::cur_id % N
  pc,         \* control point of each thread
  task,       \* the local "task" of a worker
  out,        \* the task a submit() has wrapped and not yet queued
  idx,        \* index of submit, of stealTask, and of the destructor's loop
  fut,        \* the task's future, as in TaskPool
  owed        \* history: tasks submitted before the destructor began

vars == <<queue, stop, notified, cur_id, pc, task, out, idx, fut, owed>>

Pool == INSTANCE TaskPool WITH fut <- fut, owed <- owed

PCs == {"top", "steal", "recheck", "wait", "run", "exit",        \* a worker
        "push", "notify",                                        \* submit()
        "main", "dtor_stop", "dtor_notify", "join", "done"}      \* the owner

(* Type correctness of the queues, the control and the futures.            *)
TypeOK ==
  /\ queue \in [Workers -> Seq(Tasks)]
  /\ stop \in [Workers -> BOOLEAN]
  /\ notified \in [Workers -> BOOLEAN]
  /\ cur_id \in Workers
  /\ pc \in [Threads -> PCs]
  /\ task \in [Workers -> Tasks \cup {NoTask}]
  /\ out \in [Threads -> Tasks \cup {NoTask}]
  /\ idx \in [Threads -> Workers]
  /\ fut \in [Tasks -> Pool!Futures]
  /\ owed \subseteq Tasks

Init ==
  /\ queue = [w \in Workers |-> <<>>]
  /\ stop = [w \in Workers |-> FALSE]
  /\ notified = [w \in Workers |-> FALSE]
  /\ cur_id = 0
  /\ pc = [t \in Threads |-> IF t = Main THEN "main" ELSE "top"]
  /\ task = [w \in Workers |-> NoTask]
  /\ out = [t \in Threads |-> NoTask]
  /\ idx = [t \in Threads |-> 0]
  /\ fut = [k \in Tasks |-> "none"]
  /\ owed = {}

Goto(t, p) == pc' = [pc EXCEPT ![t] = p]

-----------------------------------------------------------------------------
(* A running index that is used without the remainder.                     *)
submitNoWrap(t, k) ==
  /\ pc[t] \in {"main", "run"}
  /\ fut[k] = "none" /\ \A u \in Threads : out[u] # k
  /\ out' = [out EXCEPT ![t] = k]
  /\ idx' = [idx EXCEPT ![t] = cur_id]
  /\ cur_id' = cur_id + 1
  /\ Goto(t, "push")
  /\ UNCHANGED <<queue, stop, notified, task, fut, owed>>

(* submit(): wrap the callable, take the future, choose the queue.  The    *)
(* owner submits before it destroys the pool, a task while it runs.        *)
submit(t, k) ==
  /\ pc[t] \in {"main", "run"}
  /\ fut[k] = "none" /\ \A u \in Threads : out[u] # k
  /\ out' = [out EXCEPT ![t] = k]
  /\ idx' = [idx EXCEPT ![t] = cur_id]
  /\ cur_id' = (cur_id + 1) % N
  /\ Goto(t, "push")
  /\ UNCHANGED <<queue, stop, notified, task, fut, owed>>

(* the critical section of submit(): here the task is submitted            *)
submitPush(t) ==
  /\ pc[t] = "push"
  /\ queue' = [queue EXCEPT ![idx[t]] = Append(@, out[t])]
  /\ out' = [out EXCEPT ![t] = NoTask]
  /\ fut' = [fut EXCEPT ![out[t]] = "pending"]
  /\ Goto(t, "notify")
  /\ UNCHANGED <<stop, notified, cur_id, task, idx, owed>>

(* data.cv.notify_one(): lost when the worker does not wait                *)
NotifyOne(w) == notified' = [notified EXCEPT ![w] = @ \/ pc[w] = "wait"]

(* Queueing a task without telling its worker.                             *)
submitNotifyNobody(t) ==
  /\ pc[t] = "notify"
  /\ idx' = [idx EXCEPT ![t] = 0]
  /\ Goto(t, IF t = Main THEN "main" ELSE "run")
  /\ UNCHANGED <<queue, stop, notified, cur_id, task, out, fut, owed>>

submitNotify(t) ==
  /\ pc[t] = "notify"
  /\ NotifyOne(idx[t])
  /\ idx' = [idx EXCEPT ![t] = 0]
  /\ Goto(t, IF t = Main THEN "main" ELSE "run")
  /\ UNCHANGED <<queue, stop, cur_id, task, out, fut, owed>>

-----------------------------------------------------------------------------
(* the task leaves its queue for the hands of worker w                     *)
Take(w, k) ==
  /\ task' = [task EXCEPT ![w] = k]
  /\ fut' = [fut EXCEPT ![k] = "running"]
  /\ Goto(w, "run")

(* stealTask goes on with the i-th victim, or gives up after the last.     *)
StealFrom(w, i) ==
  /\ idx' = [idx EXCEPT ![w] = IF i < N THEN i ELSE 0]
  /\ Goto(w, IF i < N THEN "steal" ELSE "recheck")

(* A worker that leaves as soon as it is told to.                          *)
workerTopStopFirst(w) ==
  /\ pc[w] = "top"
  /\ \/ /\ queue[w] # <<>> /\ ~stop[w]
        /\ Take(w, Head(queue[w]))
        /\ queue' = [queue EXCEPT ![w] = Tail(@)]
        /\ UNCHANGED idx
     \/ /\ queue[w] = <<>> /\ ~stop[w]
        /\ StealFrom(w, 1)
        /\ UNCHANGED <<queue, task, fut>>
     \/ /\ stop[w]
        /\ Goto(w, "exit")
        /\ UNCHANGED <<queue, task, fut, idx>>
  /\ UNCHANGED <<stop, notified, cur_id, out, owed>>

(* the head of the worker's loop: its own queue first, then the others',   *)
(* and the end of the thread once its queue is empty and stop is set       *)
workerTop(w) ==
  /\ pc[w] = "top"
  /\ \/ /\ queue[w] # <<>>
        /\ Take(w, Head(queue[w]))
        /\ queue' = [queue EXCEPT ![w] = Tail(@)]
        /\ UNCHANGED idx
     \/ /\ queue[w] = <<>> /\ ~stop[w]
        /\ StealFrom(w, 1)
        /\ UNCHANGED <<queue, task, fut>>
     \/ /\ queue[w] = <<>> /\ stop[w]
        /\ Goto(w, "exit")
        /\ UNCHANGED <<queue, task, fut, idx>>
  /\ UNCHANGED <<stop, notified, cur_id, out, owed>>

Victim(w) == (w + idx[w]) % N

(* Thread t's next step is a critical section of the mutex of v, so it may *)
(* be inside it at this moment.                                            *)
Locking(t, v) ==
  \/ pc[t] \in {"push", "dtor_stop"} /\ idx[t] = v
  \/ pc[t] = "steal" /\ Victim(t) = v
  \/ t = v /\ pc[t] \in {"top", "recheck", "wait"}

(* Copying the back of the victim's queue without removing it.             *)
stealTaskCopy(w) ==
  /\ pc[w] = "steal"
  /\ \/ /\ queue[Victim(w)] # <<>>
        /\ Take(w, Last(queue[Victim(w)]))
        /\ idx' = [idx EXCEPT ![w] = 0]
        /\ UNCHANGED queue
     \/ /\ \/ queue[Victim(w)] = <<>>
           \/ \E t \in Threads \ {w} : Locking(t, Victim(w))
        /\ StealFrom(w, idx[w] + 1)
        /\ UNCHANGED <<queue, task, fut>>
  /\ UNCHANGED <<stop, notified, cur_id, out, owed>>

(* stealTask: the back of a victim's queue, unless the queue is empty or   *)
(* its mutex is taken                                                      *)
stealTask(w) ==
  /\ pc[w] = "steal"
  /\ \/ /\ queue[Victim(w)] # <<>>
        /\ Take(w, Last(queue[Victim(w)]))
        /\ queue' = [queue EXCEPT ![Victim(w)] = Front(@)]
        /\ idx' = [idx EXCEPT ![w] = 0]
     \/ /\ \/ queue[Victim(w)] = <<>>
           \/ \E t \in Threads \ {w} : Locking(t, Victim(w))
        /\ StealFrom(w, idx[w] + 1)
        /\ UNCHANGED <<queue, task, fut>>
  /\ UNCHANGED <<stop, notified, cur_id, out, owed>>

(* Going to sleep without a second look at the queue.                      *)
recheckNothing(w) ==
  /\ pc[w] = "recheck"
  /\ Goto(w, "wait")
  /\ UNCHANGED <<queue, stop, notified, cur_id, task, out, idx, fut, owed>>

(* Nothing to steal: look again under the lock before waiting.             *)
recheck(w) ==
  /\ pc[w] = "recheck"
  /\ Goto(w, IF queue[w] = <<>> /\ ~stop[w] THEN "wait" ELSE "top")
  /\ UNCHANGED <<queue, stop, notified, cur_id, task, out, idx, fut, owed>>

(* cv.wait with its predicate, after a notification                        *)
waitReturn(w) ==
  /\ pc[w] = "wait"
  /\ notified[w]
  /\ notified' = [notified EXCEPT ![w] = FALSE]
  /\ Goto(w, IF queue[w] # <<>> \/ stop[w] THEN "top" ELSE "wait")
  /\ UNCHANGED <<queue, stop, cur_id, task, out, idx, fut, owed>>

(* the same after a spurious wake-up; the predicate makes it harmless      *)
waitSpurious(w) ==
  /\ pc[w] = "wait"
  /\ ~notified[w]
  /\ queue[w] # <<>> \/ stop[w]
  /\ Goto(w, "top")
  /\ UNCHANGED <<queue, stop, notified, cur_id, task, out, idx, fut, owed>>

(* task() returns: the packaged task has made the future ready             *)
runTask(w) ==
  /\ pc[w] = "run"
  /\ fut' = [fut EXCEPT ![task[w]] = "ready"]
  /\ task' = [task EXCEPT ![w] = NoTask]
  /\ Goto(w, "top")
  /\ UNCHANGED <<queue, stop, notified, cur_id, out, idx, owed>>

-----------------------------------------------------------------------------
(* ~ThreadPool(): for every worker stop = true under its mutex, then       *)
(* notify_one; after the last one join                                     *)
dtorBegin ==
  /\ pc[Main] = "main"
  /\ owed' = {k \in Tasks : fut[k] # "none"}
  /\ Goto(Main, "dtor_stop")
  /\ UNCHANGED <<queue, stop, notified, cur_id, task, out, idx, fut>>

dtorStop ==
  /\ pc[Main] = "dtor_stop"
  /\ stop' = [stop EXCEPT ![idx[Main]] = TRUE]
  /\ Goto(Main, "dtor_notify")
  /\ UNCHANGED <<queue, notified, cur_id, task, out, idx, fut, owed>>

(* Setting stop without telling the worker.                                *)
dtorNotifyNobody ==
  /\ pc[Main] = "dtor_notify"
  /\ IF idx[Main] + 1 < N
     THEN Goto(Main, "dtor_stop") /\ idx' = [idx EXCEPT ![Main] = @ + 1]
     ELSE Goto(Main, "join") /\ idx' = [idx EXCEPT ![Main] = 0]
  /\ UNCHANGED <<queue, stop, notified, cur_id, task, out, fut, owed>>

dtorNotify ==
  /\ pc[Main] = "dtor_notify"
  /\ NotifyOne(idx[Main])
  /\ IF idx[Main] + 1 < N
     THEN Goto(Main, "dtor_stop") /\ idx' = [idx EXCEPT ![Main] = @ + 1]
     ELSE Goto(Main, "join") /\ idx' = [idx EXCEPT ![Main] = 0]
  /\ UNCHANGED <<queue, stop, cur_id, task, out, fut, owed>>

(* Every worker has left; the queues are destroyed with the pool.          *)
join ==
  /\ pc[Main] = "join"
  /\ \A w \in Workers : pc[w] = "exit"
  /\ owed' = {}
  /\ Goto(Main, "done")
  /\ UNCHANGED <<queue, stop, notified, cur_id, task, out, idx, fut>>

-----------------------------------------------------------------------------
worker(w) ==
  \/ workerTop(w) \/ stealTask(w) \/ recheck(w) \/ waitReturn(w) \/ runTask(w)
  \/ submitPush(w) \/ submitNotify(w)

dtor == dtorStop \/ dtorNotify \/ join

Next ==
  \/ \E w \in Workers : worker(w) \/ waitSpurious(w)
  \/ \E t \in Threads, k \in Tasks : submit(t, k)
  \/ submitPush(Main) \/ submitNotify(Main)
  \/ dtorBegin
  \/ dtor

(* Runnable threads are scheduled, a call of the owner is finished once    *)
(* begun; nobody has to submit or to destroy the pool.                     *)
Fairness ==
  /\ \A w \in Workers : WF_vars(worker(w))
  /\ WF_vars(submitPush(Main) \/ submitNotify(Main) \/ dtor)

Spec     == Init /\ [][Next]_vars
FairSpec == Spec /\ Fairness

-----------------------------------------------------------------------------
(* No lost wake-up: a worker that waits with a task in its queue, or with  *)
(* stop set, has been notified, or some thread is about to notify it.      *)
NoLostWakeup ==
  \A w \in Workers : pc[w] = "wait" /\ (queue[w] # <<>> \/ stop[w]) =>
     \/ notified[w]
     \/ \E t \in Threads : pc[t] \in {"notify", "dtor_notify"} /\ idx[t] = w

(* A queue whose worker has left holds nothing that was submitted before   *)
(* the destructor began: such tasks are run by their own worker or stolen. *)
ExitDrained ==
  \A w \in Workers : pc[w] = "exit" => \A k \in owed : k \notin Range(queue[w])

(* The pool keeps the promise of TaskPool: every task is started at most   *)
(* once and only after its submission, and the destructor returns only     *)
(* when each task submitted before it has been run.                        *)
Refinement == Pool!Spec

(* While the pool lives, a submitted task is run.                          *)
SubmittedRuns ==
  \A k \in Tasks :
     fut[k] = "pending" ~> fut[k] = "ready" \/ \E w \in Workers : stop[w]

(* The destructor returns.                                                 *)
DestructorReturns == pc[Main] = "dtor_stop" ~> pc[Main] = "done"
=============================================================================
