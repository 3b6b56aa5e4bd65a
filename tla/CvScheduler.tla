---------------------------- MODULE CvScheduler ----------------------------
(***************************************************************************)
(* class Scheduler on its own (scheduler.cpp): idle() blocks on the        *)
(* condition variable of the worker's queue and tickle() notifies it.      *)
(***************************************************************************)
EXTENDS Scheduler

VARIABLE notified         \* a notify_one has reached the waiter of the queue

vars == <<schedVars, notified>>

(* Type correctness of the scheduler and its condition variables.          *)
TypeOK == SchedTypeOK /\ notified \in [Workers -> BOOLEAN]

Init == SchedInit /\ notified = [w \in Workers |-> FALSE]

(* cv.notify_one(), without the mutex: lost when nobody waits              *)
notifyOne(t) ==
  /\ wakeCall(t)
  /\ notified' = [notified EXCEPT ![tgt[t]] = @ \/ pc[tgt[t]] = "cv_wait"]

(* idling.store(true)                                                      *)
idleEnter(w) ==
  /\ pc[w] = "idle"
  /\ idling' = [idling EXCEPT ![w] = TRUE]
  /\ Goto(w, "cv_lock")
  /\ UNCHANGED <<fiberVars, q, stop, active, pending, post, task, out, scan,
                 tgt, site, idleTerm, boundVars, notified>>

(* Lock the queue and start to wait, without looking at the queue.         *)
cvWait(w) ==
  /\ pc[w] = "cv_lock"
  /\ Goto(w, "cv_wait")
  /\ UNCHANGED <<fiberVars, q, idling, stop, active, pending, post, task, out,
                 scan, tgt, site, idleTerm, boundVars, notified>>

CvReturn(w) ==
  /\ pc[w] = "cv_wait"
  /\ notified' = [notified EXCEPT ![w] = FALSE]
  /\ Goto(w, "woke")
  /\ UNCHANGED <<fiberVars, q, idling, stop, active, pending, post, task, out,
                 scan, tgt, site, idleTerm, boundVars>>

(* cv.wait returns because of a notification                               *)
cvNotified(w) == notified[w] /\ CvReturn(w)

(* cv.wait returns without one                                             *)
cvSpurious(w) == ~notified[w] /\ CvReturn(w)

(* idling.store(false), then stopping()                                    *)
idleWoke(w) ==
  /\ pc[w] = "woke"
  /\ idling' = [idling EXCEPT ![w] = FALSE]
  /\ site' = [site EXCEPT ![w] = "post"]
  /\ Goto(w, "stopping")
  /\ UNCHANGED <<fiberVars, q, stop, active, pending, post, task, out, scan,
                 tgt, idleTerm, boundVars, notified>>

idle(w) == idleEnter(w) \/ cvWait(w) \/ cvNotified(w) \/ idleWoke(w)

worker(w) ==
  \/ (run(w) \/ body(w) \/ call(w)) /\ UNCHANGED notified
  \/ idle(w)
  \/ notifyOne(w)

mainStart  == (init \/ mainSubmit \/ stopCall \/ stopAgain) /\ UNCHANGED notified
mainFinish == \/ (call(Main) \/ join) /\ UNCHANGED notified
              \/ notifyOne(Main)

Next ==
  \/ \E w \in Workers : worker(w) \/ cvSpurious(w)
  \/ mainStart
  \/ mainFinish

(* A runnable thread is eventually scheduled; spurious wake-ups are        *)
(* allowed and never promised.                                             *)
Fairness == (\A w \in Workers : WF_vars(worker(w))) /\ WF_vars(mainFinish)

Spec     == Init /\ [][Next]_vars
FairSpec == Spec /\ Fairness

-----------------------------------------------------------------------------
(* What the comment on tickle (notify the thread to wake up) and the run   *)
(* loop (a task, or else idle) promise together: a worker that waits while *)
(* its queue has a task is notified or about to be.  The code breaks it in *)
(* two windows.  A submit whose tickle comes after the worker has looked   *)
(* for a task in vain and before idling.store(true) sees idling false and  *)
(* notifies nobody; one whose tickle comes between the store and the wait  *)
(* notifies a condition variable on which nobody waits.  After either, the *)
(* worker waits, without a predicate and without a look at its queue.      *)
NoLostWakeup ==
  \A w \in Workers : pc[w] = "cv_wait" /\ q[w] # <<>> =>
     \/ notified[w]
     \/ \E t \in Threads : pc[t] \in {"tickle", "wake"} /\ tgt[t] = w
=============================================================================
