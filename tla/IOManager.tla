----------------------------- MODULE IOManager -----------------------------
(***************************************************************************)
(* class IOManager (io_manager.cpp) on top of Scheduler: a worker without  *)
(* tasks blocks in epoll_wait on the queue's own poller and is woken       *)
(* through an eventfd, and a fiber whose read, write or accept would block *)
(* (do_io in hook.cpp) registers its descriptor and is held until the      *)
(* poller has queued the callback that schedules it again.                 *)
(*                                                                         *)
(* Fiber f does its I/O on a descriptor of its own, also written f: the    *)
(* Channel of f is the record of bound, armed and reg.                     *)
(***************************************************************************)
EXTENDS Scheduler

CONSTANTS MaxIo,          \* bound: I/O calls of one fiber
          MaxArrivals     \* bound: arrivals for one descriptor

ASSUME IoBoundsAssumption == MaxIo \in Nat /\ MaxArrivals \in Nat

NoQueue == N              \* Channel::task_queue_ before bindTaskQueue
Wakeup  == "wakeup_ch_"   \* the queue's own descriptor, among the events

ASSUME WakeupAssumption == Wakeup \notin Fibers

VARIABLES
  evfd,       \* the eventfd of each queue has a non-zero counter
  evs,        \* active_evs of idle(), not yet handled
  bound,      \* Channel::task_queue_
  armed,      \* the channel's callback is set and its event is in epoll
  reg,        \* number of the channel's last registration
  fired,      \* registrations whose "triggered" flag is set
  avail,      \* the descriptor would not block (kernel)
  rdy,        \* the descriptor is on the ready list of its epoll (kernel)
  ios,        \* bounded: I/O calls each fiber has made
  arrivals    \* bounded: how often something arrived for each descriptor

chanVars == <<bound, armed, reg, fired>>
kernVars == <<avail, rdy>>
ioVars   == <<evfd, evs, bound, armed, reg, fired, avail, rdy, ios, arrivals>>
vars     == <<schedVars, ioVars>>

(* the channels, the pollers and the kernel behind them                    *)
IoTypeOK ==
  /\ evfd \in [Workers -> BOOLEAN]
  /\ evs \in [Workers -> SUBSET (Fibers \cup {Wakeup})]
  /\ bound \in [Fibers -> Workers \cup {NoQueue}]
  /\ armed \in [Fibers -> BOOLEAN]
  /\ reg \in [Fibers -> Nat]
  /\ fired \in [Fibers -> SUBSET Nat]
  /\ avail \in [Fibers -> BOOLEAN]
  /\ rdy \in [Fibers -> BOOLEAN]
  /\ ios \in [Fibers -> Nat]
  /\ arrivals \in [Fibers -> Nat]

(* Type correctness of the whole state of the scheduler and its channels.  *)
TypeOK == SchedTypeOK /\ IoTypeOK

Init ==
  /\ SchedInit
  /\ evfd = [w \in Workers |-> FALSE]
  /\ evs = [w \in Workers |-> {}]
  /\ bound = [f \in Fibers |-> NoQueue]
  /\ armed = [f \in Fibers |-> FALSE]
  /\ reg = [f \in Fibers |-> 0]
  /\ fired = [f \in Fibers |-> {}]
  /\ avail = [f \in Fibers |-> FALSE]
  /\ rdy = [f \in Fibers |-> FALSE]
  /\ ios = [f \in Fibers |-> 0]
  /\ arrivals = [f \in Fibers |-> 0]

-----------------------------------------------------------------------------
(***************************************************************************)
(* tickle() and idle()                                                     *)
(***************************************************************************)

(* FD::writeEventFd                                                        *)
writeEventFd(t) ==
  /\ wakeCall(t)
  /\ evfd' = [evfd EXCEPT ![tgt[t]] = TRUE]
  /\ UNCHANGED <<evs, chanVars, kernVars, ios, arrivals>>

(* Going to sleep without telling the other threads.                       *)
idleEnterSilent(w) ==
  /\ pc[w] = "idle"
  /\ site' = [site EXCEPT ![w] = "pre"]
  /\ Goto(w, "stopping")
  /\ UNCHANGED <<fiberVars, q, idling, stop, active, pending, post, task, out,
                 scan, tgt, idleTerm, boundVars, ioVars>>

(* the head of the loop of idle(): idling.store(true), then stopping()     *)
idleEnter(w) ==
  /\ pc[w] = "idle"
  /\ idling' = [idling EXCEPT ![w] = TRUE]
  /\ site' = [site EXCEPT ![w] = "pre"]
  /\ Goto(w, "stopping")
  /\ UNCHANGED <<fiberVars, q, stop, active, pending, post, task, out, scan,
                 tgt, idleTerm, boundVars, ioVars>>

(* the second look at the own queue, after idling became visible: back to  *)
(* the run loop ...                                                        *)
hasTask(w) ==
  /\ pc[w] = "has_task"
  /\ q[w] # <<>>
  /\ idling' = [idling EXCEPT ![w] = FALSE]
  /\ Goto(w, "pop")
  /\ UNCHANGED <<fiberVars, q, stop, active, pending, post, task, out, scan,
                 tgt, site, idleTerm, boundVars, ioVars>>

(* ... or into epoll_wait                                                  *)
hasNoTask(w) ==
  /\ pc[w] = "has_task"
  /\ q[w] = <<>>
  /\ Goto(w, "poll")
  /\ UNCHANGED <<fiberVars, q, idling, stop, active, pending, post, task, out,
                 scan, tgt, site, idleTerm, boundVars, ioVars>>

Ready(w) == {f \in Fibers : rdy[f] /\ bound[f] = w}

(* EpollPoller::poll with no timeout.  The eventfd is level triggered, the *)
(* descriptors of do_io are edge triggered: reporting one takes it off the *)
(* ready list.                                                             *)
poll(w) ==
  /\ pc[w] = "poll"
  /\ evfd[w] \/ Ready(w) # {}
  /\ evs' = [evs EXCEPT ![w] = Ready(w) \cup (IF evfd[w] THEN {Wakeup} ELSE {})]
  /\ rdy' = [f \in Fibers |-> rdy[f] /\ bound[f] # w]
  /\ Goto(w, "woke")
  /\ UNCHANGED <<fiberVars, q, idling, stop, active, pending, post, task, out,
                 scan, tgt, site, idleTerm, boundVars, evfd, chanVars, avail,
                 ios, arrivals>>

(* epoll_wait is interrupted by a signal while it blocks (EINTR): no events *)
pollInterrupted(w) ==
  /\ pc[w] = "poll"
  /\ ~evfd[w] /\ Ready(w) = {}
  /\ Goto(w, "woke")
  /\ UNCHANGED <<fiberVars, q, idling, stop, active, pending, post, task, out,
                 scan, tgt, site, idleTerm, boundVars, ioVars>>

idleWoke(w) ==
  /\ pc[w] = "woke"
  /\ idling' = [idling EXCEPT ![w] = FALSE]
  /\ Goto(w, "handle")
  /\ UNCHANGED <<fiberVars, q, stop, active, pending, post, task, out, scan,
                 tgt, site, idleTerm, boundVars, ioVars>>

(* FD::readEventFd                                                         *)
readEventFd(w) ==
  /\ pc[w] = "handle"
  /\ Wakeup \in evs[w]
  /\ evfd' = [evfd EXCEPT ![w] = FALSE]
  /\ evs' = [evs EXCEPT ![w] = @ \ {Wakeup}]
  /\ UNCHANGED <<schedVars, chanVars, kernVars, ios, arrivals>>

(* A handler that leaves a fiber alone while it is on its way into hold(). *)
handleEventIdleOnly(w, f) ==
  /\ pc[w] = "handle"
  /\ f \in evs[w]
  /\ evs' = [evs EXCEPT ![w] = @ \ {f}]
  /\ IF armed[f] /\ ~execute[f]
     THEN out' = [out EXCEPT ![w] = Event(f, reg[f])] /\ Goto(w, "trigger")
     ELSE UNCHANGED <<out, pc>>
  /\ UNCHANGED <<fiberVars, q, idling, stop, active, pending, post, task, scan,
                 tgt, site, idleTerm, boundVars, evfd, chanVars, kernVars, ios,
                 arrivals>>

(* Channel::handleEvent and the first half of triggerEvent: copy the       *)
(* callback under the channel's mutex; a descriptor whose callback was     *)
(* cleared meanwhile is passed over.  EPOLLERR and EPOLLHUP count as the   *)
(* event that is waited for.  The task that EPOLLERR adds for              *)
(* error_callback_, IOManager::handleError with its empty body, is left    *)
(* out.                                                                    *)
handleEvent(w, f) ==
  /\ pc[w] = "handle"
  /\ f \in evs[w]
  /\ evs' = [evs EXCEPT ![w] = @ \ {f}]
  /\ IF armed[f]
     THEN out' = [out EXCEPT ![w] = Event(f, reg[f])] /\ Goto(w, "trigger")
     ELSE UNCHANGED <<out, pc>>
  /\ UNCHANGED <<fiberVars, q, idling, stop, active, pending, post, task, scan,
                 tgt, site, idleTerm, boundVars, evfd, chanVars, kernVars, ios,
                 arrivals>>

(* the second half of triggerEvent: the callback goes to the queue the     *)
(* channel is bound to, nobody is tickled                                  *)
triggerPush(w) ==
  /\ pc[w] = "trigger"
  /\ Push(bound[out[w].id], out[w])
  /\ out' = [out EXCEPT ![w] = NoTask]
  /\ Goto(w, "handle")
  /\ UNCHANGED <<fiberVars, idling, stop, active, pending, post, task, scan,
                 tgt, site, idleTerm, boundVars, ioVars>>

(* all events handled: stopping(), then yield to the run loop              *)
idleHandled(w) ==
  /\ pc[w] = "handle"
  /\ evs[w] = {}
  /\ site' = [site EXCEPT ![w] = "post"]
  /\ Goto(w, "stopping")
  /\ UNCHANGED <<fiberVars, q, idling, stop, active, pending, post, task, out,
                 scan, tgt, idleTerm, boundVars, ioVars>>

idle(w) ==
  \/ idleEnter(w) \/ hasTask(w) \/ hasNoTask(w) \/ poll(w) \/ idleWoke(w)
  \/ readEventFd(w) \/ (\E f \in Fibers : handleEvent(w, f)) \/ triggerPush(w)
  \/ idleHandled(w)

-----------------------------------------------------------------------------
(***************************************************************************)
(* do_io (hook.cpp) on worker w, for the fiber that runs there             *)
(***************************************************************************)

(* sys_func: either it succeeds and do_io returns, or it would block       *)
SysFunc(w) ==
  /\ avail' = [avail EXCEPT ![cur(w)] = FALSE]
  /\ Goto(w, IF avail[cur(w)] THEN "running" ELSE "io_reg")
  /\ UNCHANGED <<fiberVars, q, idling, stop, active, pending, post, task, out,
                 scan, tgt, site, idleTerm, boundVars, evfd, evs, armed, reg,
                 fired, rdy, arrivals>>

(* the call: bindTaskQueue (a new Channel belongs to the queue of the      *)
(* calling worker), and sys_func for the first time                        *)
ioEnter(w) ==
  /\ pc[w] = "running"
  /\ ~armed[cur(w)]
  /\ ios[cur(w)] < MaxIo
  /\ ios' = [ios EXCEPT ![cur(w)] = @ + 1]
  /\ bound' = [bound EXCEPT ![cur(w)] = IF @ = NoQueue THEN w ELSE @]
  /\ SysFunc(w)

(* sys_func again, after a wake-up                                         *)
ioRetry(w) ==
  /\ pc[w] = "io_call"
  /\ SysFunc(w)
  /\ UNCHANGED <<bound, ios>>

(* EpollPoller::updateChannel with the event switched on or off: ADD and   *)
(* MOD put a descriptor that is ready already on the ready list.           *)
updateChannel(f, on) == rdy' = [rdy EXCEPT ![f] = on /\ avail[f]]

(* Registering without looking whether the descriptor is ready already.    *)
registerEventBlind(w) ==
  /\ pc[w] = "io_reg"
  /\ armed' = [armed EXCEPT ![cur(w)] = TRUE]
  /\ reg' = [reg EXCEPT ![cur(w)] = @ + 1]
  /\ Goto(w, "io_pend")
  /\ UNCHANGED <<fiberVars, q, idling, stop, active, pending, post, task, out,
                 scan, tgt, site, idleTerm, boundVars, evfd, evs, bound, fired,
                 avail, rdy, ios, arrivals>>

(* the critical section of registerEvent: the callback, then epoll_ctl     *)
registerEvent(w) ==
  /\ pc[w] = "io_reg"
  /\ armed' = [armed EXCEPT ![cur(w)] = TRUE]
  /\ reg' = [reg EXCEPT ![cur(w)] = @ + 1]
  /\ updateChannel(cur(w), TRUE)
  /\ Goto(w, "io_pend")
  /\ UNCHANGED <<fiberVars, q, idling, stop, active, pending, post, task, out,
                 scan, tgt, site, idleTerm, boundVars, evfd, evs, bound, fired,
                 avail, ios, arrivals>>

(* the end of registerEvent, pending_event_count_.fetch_add(1), and        *)
(* fiber->hold()                                                           *)
pendingAddHold(w) ==
  /\ pc[w] = "io_pend"
  /\ pending' = pending + 1
  /\ hold(cur(w))
  /\ Goto(w, "unlock")
  /\ UNCHANGED <<q, idling, stop, active, post, task, out, scan, tgt, site,
                 idleTerm, boundVars, ioVars>>

(* An unregisterEvent that takes the registration out of the count only    *)
(* when its callback has run.                                              *)
unregisterEventUnfired(w) ==
  /\ pc[w] = "running"
  /\ armed[cur(w)]
  /\ armed' = [armed EXCEPT ![cur(w)] = FALSE]
  /\ updateChannel(cur(w), FALSE)
  /\ Goto(w, IF reg[cur(w)] \in fired[cur(w)] THEN "io_unpend" ELSE "io_call")
  /\ UNCHANGED <<fiberVars, q, idling, stop, active, pending, post, task, out,
                 scan, tgt, site, idleTerm, boundVars, evfd, evs, bound, reg,
                 fired, avail, ios, arrivals>>

(* the fiber is back: the critical section of unregisterEvent              *)
unregisterEvent(w) ==
  /\ pc[w] = "running"
  /\ armed[cur(w)]
  /\ armed' = [armed EXCEPT ![cur(w)] = FALSE]
  /\ updateChannel(cur(w), FALSE)
  /\ Goto(w, "io_unpend")
  /\ UNCHANGED <<fiberVars, q, idling, stop, active, pending, post, task, out,
                 scan, tgt, site, idleTerm, boundVars, evfd, evs, bound, reg,
                 fired, avail, ios, arrivals>>

(* the end of unregisterEvent: pending_event_count_.fetch_sub(1), and the  *)
(* loop of do_io goes round                                                *)
pendingSub(w) ==
  /\ pc[w] = "io_unpend"
  /\ pending' = pending - 1
  /\ Goto(w, "io_call")
  /\ UNCHANGED <<fiberVars, q, idling, stop, active, post, task, out, scan,
                 tgt, site, idleTerm, boundVars, ioVars>>

(* the callback of do_io, in a wrapper fiber that never suspends: the      *)
(* first one of a registration queues the fiber.  weak_fiber.lock() can    *)
(* fail only for a fiber that has ended.                                   *)
eventCallback(w) ==
  LET f == cur(w)
      n == task[w].n
  IN /\ pc[w] = "begin"
     /\ task[w].kind = "event"
     /\ fired' = [fired EXCEPT ![f] = @ \cup {n}]
     /\ \/ n \notin fired[f] /\ Push(w, FiberOf(f))
        \/ (n \in fired[f] \/ state[f] = "kTerm") /\ UNCHANGED q
     /\ Goto(w, "uncount")
     /\ UNCHANGED <<fiberVars, idling, stop, active, pending, post, task, out,
                    scan, tgt, site, idleTerm, boundVars, evfd, evs, bound,
                    armed, reg, kernVars, ios, arrivals>>

doIo(w) ==
  \/ ioEnter(w) \/ ioRetry(w) \/ registerEvent(w) \/ pendingAddHold(w)
  \/ unregisterEvent(w) \/ pendingSub(w) \/ eventCallback(w)

(* the kernel: data, a connection or buffer space arrives.  On a           *)
(* descriptor that has unread data already this is a second edge, which an *)
(* edge-triggered epoll reports again.                                     *)
arrive(f) ==
  /\ state[f] \in State \ {"kTerm"}
  /\ arrivals[f] < MaxArrivals
  /\ arrivals' = [arrivals EXCEPT ![f] = @ + 1]
  /\ avail' = [avail EXCEPT ![f] = TRUE]
  /\ rdy' = [rdy EXCEPT ![f] = armed[f]]
  /\ UNCHANGED <<schedVars, evfd, evs, chanVars, ios>>

-----------------------------------------------------------------------------
(* A fiber that came back from the hold() of do_io is inside do_io: none   *)
(* of the caller's own steps are possible until it returned.               *)
userBody(w) ==
  /\ pc[w] = "running"
  /\ ~armed[cur(w)]
  /\ body(w)
  /\ UNCHANGED ioVars

worker(w) ==
  \/ run(w) /\ UNCHANGED ioVars
  \/ userBody(w)
  \/ idle(w)
  \/ doIo(w)
  \/ call(w) /\ UNCHANGED ioVars
  \/ writeEventFd(w)

(* what the owner does on its own account, and what it must then finish    *)
mainStart  == (init \/ mainSubmit \/ stopCall \/ stopAgain) /\ UNCHANGED ioVars
mainFinish == \/ (call(Main) \/ join) /\ UNCHANGED ioVars
              \/ writeEventFd(Main)

Next ==
  \/ \E w \in Workers : worker(w) \/ pollInterrupted(w)
  \/ mainStart
  \/ mainFinish
  \/ \E f \in Fibers : arrive(f)

(* A runnable thread is eventually scheduled; a blocked epoll_wait or join *)
(* stays blocked.  Nothing forces the owner to submit or to stop, a        *)
(* descriptor to become ready, or a signal to interrupt a wait.            *)
Fairness == (\A w \in Workers : WF_vars(worker(w))) /\ WF_vars(mainFinish)

Spec     == Init /\ [][Next]_vars
FairSpec == Spec /\ Fairness

-----------------------------------------------------------------------------
(***************************************************************************)
(* Properties                                                              *)
(***************************************************************************)

(* control points at which a worker holds Fiber::execute of cur(w)         *)
HoldPCs == {"locked", "running", "requeue", "unlock", "push", "tickle", "wake"}
           \cup IoPCs

(* A fiber's stack is used by one worker at a time: two workers between    *)
(* tryLock and unlock never have the same fiber, and the flag is set for   *)
(* as long as either is.                                                   *)
FiberExclusive ==
  \A w \in Workers : pc[w] \in HoldPCs =>
     /\ execute[cur(w)]
     /\ \A v \in Workers : v # w /\ pc[v] \in HoldPCs => cur(v) # cur(w)

(* The assertion of Fiber::resume: only a ready or a held fiber is         *)
(* resumed, whatever was submitted how often and by whom.                  *)
ResumeAssert ==
  [][\A w \in Workers : pc[w] = "locked" /\ pc'[w] = "running" =>
       state[cur(w)] \in {"kReady", "kHold"}]_vars

(* No lost wake-up: when a worker is blocked in epoll_wait and its queue   *)
(* has a task, the eventfd is set or some thread is on its way to set it.  *)
NoLostWakeup ==
  \A w \in Workers : pc[w] = "poll" /\ q[w] # <<>> =>
     \/ evfd[w]
     \/ \E t \in Threads : pc[t] \in {"tickle", "wake"} /\ tgt[t] = w

(* x is in a queue or in the hands of a thread that has not acted on it.   *)
InFlight(x) ==
  \/ \E w \in Workers : \/ x \in Range(q[w])
                        \/ pc[w] \in {"count", "begin"} /\ task[w] = x
  \/ \E t \in Threads : out[t] = x

(* A ready fiber is never forgotten: unless it is on its way back into a   *)
(* queue under its lock, a task for it is in flight.                       *)
NotStranded ==
  \A f \in Fibers : state[f] = "kReady" /\ ~execute[f] => InFlight(FiberOf(f))

(* The race of do_io with its own event: however the arrival falls between *)
(* the failed call, the registration and hold(), a fiber that is held in   *)
(* do_io while its descriptor is ready has a wake-up in flight.            *)
EventNotLost ==
  \A f \in Fibers : state[f] = "kHold" /\ armed[f] /\ avail[f] /\ ~execute[f] =>
     \/ rdy[f]
     \/ f \in evs[bound[f]]
     \/ reg[f] \notin fired[f] /\ InFlight(Event(f, reg[f]))
     \/ InFlight(FiberOf(f))

(* active_thread_count_ is the number of workers between the increment and *)
(* the decrement: the requeue, drop and event paths all balance.           *)
ActiveCount ==
  active = Cardinality({w \in Workers :
                          pc[w] \in HoldPCs \cup {"begin", "uncount"}})

(* pending_event_count_ counts the registrations that are in force, up to  *)
(* the workers that are between the registration and its count.            *)
PendingCount ==
  pending = Cardinality({f \in Fibers : armed[f]})
            - Cardinality({w \in Workers : pc[w] = "io_pend"})
            + Cardinality({w \in Workers : pc[w] = "io_unpend"})

(* When stop() has returned, no submitted task is left behind: the queues  *)
(* are empty and no fiber is ready or running.                             *)
StopDrains ==
  pc[Main] = "done" =>
     /\ \A w \in Workers : q[w] = <<>>
     /\ \A f \in Fibers : state[f] \in {"none", "kHold", "kTerm"}

(* Nothing is leaked either: when stop() has returned, no fiber is still   *)
(* held in do_io.  The code breaks it: stopping() reads the three counters *)
(* one after the other, and a fiber can move from a queue into a wait      *)
(* behind its back.                                                        *)
StopLeavesNoWaiter ==
  pc[Main] = "done" => \A f \in Fibers : ~(state[f] = "kHold" /\ armed[f])

(* A submitted task is started and a ready fiber is resumed, unless the    *)
(* scheduler is stopped.                                                   *)
QueuedRuns ==
  \A f \in Fibers : state[f] \in {"posted", "kReady"}
                      ~> state[f] \notin {"posted", "kReady"} \/ stop

(* A fiber held in do_io whose descriptor is ready is resumed.             *)
IoResumes ==
  \A f \in Fibers : state[f] = "kHold" /\ armed[f] /\ avail[f]
                      ~> state[f] # "kHold" \/ stop

(* stop() returns.                                                         *)
StopReturns == pc[Main] = "tickle" /\ site[Main] = "stop" ~> pc[Main] = "done"
=============================================================================
