---------------------------- MODULE TimerManager ----------------------------
(***************************************************************************)
(* class TimerManager (timer_manager.cpp) of one worker, with Timer,       *)
(* TimerId, Timestamp and the timer calls of IOManager.  timers_ and the   *)
(* timerfd belong to the worker alone: its fibers register, its idle()     *)
(* handles the timerfd.  A fiber of any worker may cancel, which only      *)
(* clears the atomic on_ and corrects pending_event_count_.  The clock     *)
(* runs on between any two steps.                                          *)
(***************************************************************************)
EXTENDS Integers, Sequences, FiniteSets, FiniteSetsExt, Functions

CONSTANTS Timers,         \* the Timer objects that may be created
          MaxTime         \* bound: the last instant of the steady clock

ASSUME TimerAssumption == IsFiniteSet(Timers) /\ MaxTime \in Nat \ {0}

NoTimer == "none"

ASSUME NoTimerAssumption == NoTimer \notin Timers

VARIABLES
  now,          \* Timestamp::now()
  expiration,   \* Timer::expiration_ (0: the Timer is not created yet)
  interval,     \* Timer::interval_ (0 for the code's -1: not repeating)
  on,           \* Timer::on_
  timers,       \* timers_, ordered by expiration
  active,       \* active_timers_
  k,            \* position in the two loops over active_timers_
  arg,          \* the Timer of the registerTimer call under way
  deadline,     \* expiry of the timerfd (0: disarmed)
  tasks,        \* the callbacks in task_queue_
  pending,      \* the timers' share of pending_event_count_
  stop,         \* Scheduler::stop_
  idleTerm,     \* idle() has returned
  pc,           \* control of the worker
  cancelled,    \* timers for which cancellTimer was called
  cancelling,   \* those between its two steps
  start,        \* history: the first expiration
  rung,         \* history: callbacks queued for each timer
  late          \* history: timers registered after idle() had returned

timerVars == <<expiration, interval, on, timers>>
histVars  == <<cancelled, start, rung, late>>
vars == <<now, timerVars, active, k, arg, deadline, tasks, pending, stop,
          idleTerm, pc, cancelling, histVars>>

PCs == {"fiber", "settime", "enable", "wait", "trigger", "push", "push_back",
        "reset", "exit", "gone"}

(* Type correctness of the timers, the timerfd and the worker.             *)
TypeOK ==
  /\ now \in 1..MaxTime
  /\ expiration \in [Timers -> Nat] /\ start \in [Timers -> Nat]
  /\ interval \in [Timers -> Nat]
  /\ on \in [Timers -> BOOLEAN]
  /\ timers \in SUBSET Timers
  /\ active \in Seq(Timers) /\ k \in 1..Len(active) + 1
  /\ arg \in Timers \cup {NoTimer}
  /\ deadline \in Nat
  /\ tasks \in Seq(Timers)
  /\ pending \in Nat
  /\ stop \in BOOLEAN /\ idleTerm \in BOOLEAN
  /\ pc \in PCs
  /\ cancelled \in SUBSET Timers /\ cancelling \in SUBSET cancelled
  /\ rung \in [Timers -> Nat]
  /\ late \in SUBSET Timers

Init ==
  /\ now = 1
  /\ expiration = [t \in Timers |-> 0] /\ start = [t \in Timers |-> 0]
  /\ interval = [t \in Timers |-> 0]
  /\ on = [t \in Timers |-> FALSE]
  /\ timers = {}
  /\ active = <<>> /\ k = 1
  /\ arg = NoTimer
  /\ deadline = 0
  /\ tasks = <<>>
  /\ pending = 0
  /\ stop = FALSE /\ idleTerm = FALSE
  /\ pc = "fiber"
  /\ cancelled = {} /\ cancelling = {}
  /\ rung = [t \in Timers |-> 0]
  /\ late = {}

-----------------------------------------------------------------------------
(***************************************************************************)
(* Registration, by a fiber of the worker                                  *)
(***************************************************************************)

(* timers_.begin()->first                                                  *)
Front == Min({expiration[t] : t \in timers})

(* An insert that asks for the timerfd when the new timer is the last one. *)
insertLast(t, ts) ==
  /\ timers' = timers \cup {t}
  /\ pc' = IF timers = {} \/ \A u \in timers : ts > expiration[u]
           THEN "settime" ELSE "enable"

(* insert(): the timerfd has to be set anew when t is the first to expire  *)
insert(t, ts) ==
  /\ timers' = timers \cup {t}
  /\ pc' = IF timers = {} \/ ts < Front THEN "settime" ELSE "enable"

(* the count, the new Timer and insert() of registerTimer                  *)
registerTimer(t, ts, i) ==
  /\ pc = "fiber"
  /\ expiration[t] = 0
  /\ pending' = pending + 1
  /\ expiration' = [expiration EXCEPT ![t] = ts]
  /\ start' = [start EXCEPT ![t] = ts]
  /\ interval' = [interval EXCEPT ![t] = i]
  /\ insert(t, ts)
  /\ arg' = t
  /\ late' = IF idleTerm THEN late \cup {t} ELSE late
  /\ UNCHANGED <<now, on, active, k, deadline, tasks, stop, idleTerm,
                 cancelled, cancelling, rung>>

runAt(t, ts)   == registerTimer(t, ts, 0)
runAfter(t, d) == registerTimer(t, now + d, 0)
runEvery(t, d) == registerTimer(t, now + d, d)

(* Timestamp::toRelativeItimerspec, as the instant at which a timerfd set  *)
(* with it expires: a time that has passed becomes zero, and a zero        *)
(* it_value disarms the timerfd                                            *)
toRelativeItimerspec(ts) == IF ts <= now THEN 0 ELSE ts

(* resetTimerFd() for the new timer, or for the first one after resetTimer *)
resetTimerFd ==
  /\ pc = "settime"
  /\ deadline' = toRelativeItimerspec(IF arg = NoTimer THEN Front
                                                       ELSE expiration[arg])
  /\ pc' = IF arg = NoTimer THEN "fiber" ELSE "enable"
  /\ UNCHANGED <<now, timerVars, active, k, arg, tasks, pending, stop,
                 idleTerm, cancelling, histVars>>

(* the end of registerTimer: only now does the caller have the TimerId     *)
enable ==
  /\ pc = "enable"
  /\ on' = [on EXCEPT ![arg] = TRUE]
  /\ arg' = NoTimer
  /\ pc' = "fiber"
  /\ UNCHANGED <<now, expiration, interval, timers, active, k, deadline, tasks,
                 pending, stop, idleTerm, cancelling, histVars>>

-----------------------------------------------------------------------------
(***************************************************************************)
(* Cancellation, by a fiber of any worker, once for each TimerId           *)
(***************************************************************************)

(* pending_event_count_.fetch_sub(1) in cancellTimer                       *)
cancellTimer(t) ==
  /\ pc # "gone"
  /\ expiration[t] # 0 /\ t # arg
  /\ t \notin cancelled
  /\ pending' = pending - 1
  /\ cancelled' = cancelled \cup {t}
  /\ cancelling' = cancelling \cup {t}
  /\ UNCHANGED <<now, timerVars, active, k, arg, deadline, tasks, stop,
                 idleTerm, pc, start, rung, late>>

(* weak_ptr::lock: a Timer lives while the manager refers to it            *)
Alive(t) == t \in timers \cup Range(active)

(* unregisterEvent(): enable(false), unless the Timer is gone              *)
unregisterEvent(t) ==
  /\ t \in cancelling
  /\ on' = [on EXCEPT ![t] = @ /\ ~Alive(t)]
  /\ cancelling' = cancelling \ {t}
  /\ UNCHANGED <<now, expiration, interval, timers, active, k, arg, deadline,
                 tasks, pending, stop, idleTerm, pc, histVars>>

-----------------------------------------------------------------------------
(***************************************************************************)
(* idle() and triggerTimer() of the worker                                 *)
(***************************************************************************)

Readable == deadline # 0 /\ deadline <= now

(* stopping() holds and idle() returns.  One step: once pending is zero,   *)
(* nobody has a timer of this worker to cancel, and only this worker could *)
(* add one or queue a callback.                                            *)
idleQuit ==
  /\ pc = "fiber" /\ ~idleTerm
  /\ stop /\ pending = 0 /\ tasks = <<>>
  /\ idleTerm' = TRUE
  /\ UNCHANGED <<now, timerVars, active, k, arg, deadline, tasks, pending,
                 stop, pc, cancelling, histVars>>

(* The end of run().  Until it finds nothing to pop or to steal, a worker  *)
(* whose idle() has returned goes on running tasks: those of a worker that *)
(* had popped one and not yet counted it when stopping() looked.           *)
exit ==
  /\ pc = "fiber" /\ idleTerm
  /\ tasks = <<>>
  /\ pc' = "exit"
  /\ UNCHANGED <<now, timerVars, active, k, arg, deadline, tasks, pending,
                 stop, idleTerm, cancelling, histVars>>

(* nothing to run: epoll_wait                                              *)
idleWait ==
  /\ pc = "fiber" /\ ~idleTerm
  /\ tasks = <<>>
  /\ pc' = "wait"
  /\ UNCHANGED <<now, timerVars, active, k, arg, deadline, tasks, pending,
                 stop, idleTerm, cancelling, histVars>>

(* epoll_wait returns for the eventfd, another descriptor or a signal      *)
wakeOther ==
  /\ pc = "wait"
  /\ ~Readable
  /\ pc' = "fiber"
  /\ UNCHANGED <<now, timerVars, active, k, arg, deadline, tasks, pending,
                 stop, idleTerm, cancelling, histVars>>

(* epoll_wait reports the timerfd: Channel::onTime                         *)
onTime ==
  /\ pc = "wait"
  /\ Readable
  /\ pc' = "trigger"
  /\ UNCHANGED <<now, timerVars, active, k, arg, deadline, tasks, pending,
                 stop, idleTerm, cancelling, histVars>>

(* the orders in which timers_ may hold the timers of S: by expiration,    *)
(* then by address                                                         *)
Ordered(S) == {s \in [1..Cardinality(S) -> S] :
                 /\ Range(s) = S
                 /\ \A i, j \in DOMAIN s :
                       i < j => expiration[s[i]] <= expiration[s[j]]}

(* the head of triggerTimer: the timerfd is read, and the timers that      *)
(* expired up to now move from timers_ to active_timers_                   *)
triggerTimer ==
  LET due == {t \in timers : expiration[t] <= now}
  IN /\ pc = "trigger"
     /\ deadline' = 0
     /\ active' \in Ordered(due)
     /\ timers' = timers \ due
     /\ k' = 1
     /\ pc' = "push"
     /\ UNCHANGED <<now, expiration, interval, on, arg, tasks, pending, stop,
                    idleTerm, cancelling, histVars>>

(* A loop that does not look at on_.                                       *)
triggerNextBlind ==
  /\ pc = "push"
  /\ IF k > Len(active) THEN pc' = "reset" /\ k' = 1
                        ELSE pc' = "push_back" /\ k' = k
  /\ UNCHANGED <<now, timerVars, active, arg, deadline, tasks, pending, stop,
                 idleTerm, cancelling, histVars>>

(* A loop that does not get past a cancelled timer.                        *)
triggerNextStuck ==
  /\ pc = "push"
  /\ IF k > Len(active)   THEN pc' = "reset"     /\ k' = 1
     ELSE IF on[active[k]] THEN pc' = "push_back" /\ k' = k
     ELSE pc' = pc /\ k' = k
  /\ UNCHANGED <<now, timerVars, active, arg, deadline, tasks, pending, stop,
                 idleTerm, cancelling, histVars>>

(* the loop of triggerTimer: a timer that is on has its callback queued    *)
triggerNext ==
  /\ pc = "push"
  /\ IF k > Len(active)   THEN pc' = "reset"     /\ k' = 1
     ELSE IF on[active[k]] THEN pc' = "push_back" /\ k' = k
     ELSE pc' = pc /\ k' = k + 1
  /\ UNCHANGED <<now, timerVars, active, arg, deadline, tasks, pending, stop,
                 idleTerm, cancelling, histVars>>

(* A timer that gives its count back when it fires.                        *)
triggerPushCounted ==
  /\ pc = "push_back"
  /\ tasks' = Append(tasks, active[k])
  /\ rung' = [rung EXCEPT ![active[k]] = @ + 1]
  /\ pending' = IF interval[active[k]] = 0 THEN pending - 1 ELSE pending
  /\ k' = k + 1
  /\ pc' = "push"
  /\ UNCHANGED <<now, timerVars, active, arg, deadline, stop, idleTerm,
                 cancelling, cancelled, start, late>>

(* push_back under the mutex of the queue                                  *)
triggerPush ==
  /\ pc = "push_back"
  /\ tasks' = Append(tasks, active[k])
  /\ rung' = [rung EXCEPT ![active[k]] = @ + 1]
  /\ k' = k + 1
  /\ pc' = "push"
  /\ UNCHANGED <<now, timerVars, active, arg, deadline, pending, stop,
                 idleTerm, cancelling, cancelled, start, late>>

(* Timer::repeat                                                           *)
repeat(t) == expiration' = [expiration EXCEPT ![t] = @ + interval[t]]

(* A resetTimer that leaves a late repeating timer out.                    *)
resetTimerSkipLate ==
  LET t == active[k]
  IN /\ pc = "reset"
     /\ k <= Len(active)
     /\ IF on[t] /\ interval[t] > 0 /\ expiration[t] + interval[t] > now
        THEN repeat(t) /\ timers' = timers \cup {t}
        ELSE UNCHANGED <<expiration, timers>>
     /\ k' = k + 1
     /\ UNCHANGED <<now, interval, on, active, arg, deadline, tasks, pending,
                    stop, idleTerm, pc, cancelling, histVars>>

(* the loop of resetTimer: a repeating timer that is still on is moved on  *)
(* by one interval and goes back into timers_                              *)
resetTimer ==
  LET t == active[k]
  IN /\ pc = "reset"
     /\ k <= Len(active)
     /\ IF on[t] /\ interval[t] > 0
        THEN repeat(t) /\ timers' = timers \cup {t}
        ELSE UNCHANGED <<expiration, timers>>
     /\ k' = k + 1
     /\ UNCHANGED <<now, interval, on, active, arg, deadline, tasks, pending,
                    stop, idleTerm, pc, cancelling, histVars>>

(* the end of resetTimer: the timerfd is set for the first timer left      *)
resetTimerEnd ==
  /\ pc = "reset"
  /\ k > Len(active)
  /\ active' = <<>>
  /\ k' = 1
  /\ pc' = IF timers = {} THEN "fiber" ELSE "settime"
  /\ UNCHANGED <<now, timerVars, arg, deadline, tasks, pending, stop, idleTerm,
                 cancelling, histVars>>

(* a callback leaves the queue: popped by the worker or stolen             *)
takeTask ==
  /\ tasks # <<>>
  /\ tasks' = Tail(tasks)
  /\ UNCHANGED <<now, timerVars, active, k, arg, deadline, pending, stop,
                 idleTerm, pc, cancelling, histVars>>

stopCall ==
  /\ ~stop
  /\ stop' = TRUE
  /\ UNCHANGED <<now, timerVars, active, k, arg, deadline, tasks, pending,
                 idleTerm, pc, cancelling, histVars>>

(* ~TimerManager, when the scheduler has joined its threads and frees its  *)
(* queues                                                                  *)
destroy ==
  /\ pc = "exit"
  /\ cancelling = {}
  /\ timers' = {}
  /\ deadline' = 0
  /\ pc' = "gone"
  /\ UNCHANGED <<now, expiration, interval, on, active, k, arg, tasks, pending,
                 stop, idleTerm, cancelling, histVars>>

tick ==
  /\ now < MaxTime
  /\ now' = now + 1
  /\ UNCHANGED <<timerVars, active, k, arg, deadline, tasks, pending, stop,
                 idleTerm, pc, cancelling, histVars>>

-----------------------------------------------------------------------------
(* what the worker does without being told to                              *)
worker == \/ resetTimerFd \/ enable \/ idleQuit \/ exit \/ idleWait \/ onTime
          \/ triggerTimer \/ triggerNext \/ triggerPush \/ resetTimer
          \/ resetTimerEnd \/ takeTask

Next ==
  \/ worker \/ wakeOther \/ stopCall \/ destroy \/ tick
  \/ \E t \in Timers :
       \/ \E ts \in 1..MaxTime : runAt(t, ts)
       \/ \E d \in 0..MaxTime - now : runAfter(t, d)
       \/ \E d \in 1..MaxTime - now : runEvery(t, d)
       \/ cancellTimer(t) \/ unregisterEvent(t)

(* The clock runs and the worker is scheduled.                             *)
Spec     == Init /\ [][Next]_vars
FairSpec == Spec /\ WF_vars(worker) /\ WF_vars(tick)

-----------------------------------------------------------------------------
(***************************************************************************)
(* Properties                                                              *)
(***************************************************************************)

(* The callbacks that reach the queue are those of an Alarm: none before   *)
(* its expiration, one for a single timer, the n-th of a repeating timer   *)
(* at the n-th multiple of its interval however late the worker is, and    *)
(* none that is decided upon after cancellTimer has returned.              *)
Alarms == INSTANCE Alarm
  WITH Alarms  <- Timers,
       due     <- start,
       period  <- interval,
       off     <- cancelled \ cancelling,
       ringing <- IF pc = "push_back" THEN {active[k]} ELSE {}

Refinement == Alarms!Spec

(* Whenever the worker is outside its handlers and the first timer is in   *)
(* the future, the timerfd is set for exactly that timer, whatever was     *)
(* registered, cancelled and repeated before.                              *)
TimerfdCovers ==
  pc \in {"fiber", "wait"} /\ timers # {} /\ Front > now => deadline = Front

(* A timer that nobody cancelled is never dropped while its manager lives: *)
(* a repeating one, and a single one that has not rung, is in timers_ or   *)
(* still in the round of active_timers_.                                   *)
NotDropped ==
  \A t \in Timers : /\ expiration[t] # 0 /\ t \notin cancelled
                    /\ interval[t] > 0 \/ rung[t] = 0
                    /\ pc # "gone"
                    => \/ t \in timers
                       \/ \E i \in DOMAIN active :
                             active[i] = t /\ (pc # "reset" \/ i >= k)

(* stop() waits for the timers: idle() returns only when every timer was   *)
(* cancelled, although some have fired and some were cancelled after they  *)
(* had fired.  It does not wait for those that a task registers in the     *)
(* last round of run(), after idle() has returned: they are left behind.   *)
StopWaitsForTimers ==
  idleTerm => \A t \in Timers : expiration[t] # 0 => t \in cancelled \cup late

(* The manager is stuck: timers are left and the timerfd is disarmed.      *)
Disarmed == pc \in {"fiber", "wait"} /\ timers # {} /\ deadline = 0

(* A registered timer leaves timers_ to ring, unless it is cancelled, was  *)
(* registered after idle() had returned, or an expiration had passed by    *)
(* the time the timerfd was set for it.                                    *)
FiresUnlessDisarmed ==
  \A t \in Timers : t \in timers \ late /\ expiration[t] <= MaxTime
                      ~> t \notin timers \/ t \in cancelled \/ Disarmed

(* A repeating timer rings again and again, whenever the worker finds the  *)
(* time for it.  The code breaks it: when an interval has passed before    *)
(* the timerfd is set, it is disarmed and nothing ever sets it again.      *)
RepeatingFires ==
  \A t \in Timers :
     interval[t] > 0 /\ t \in timers \ late /\ expiration[t] <= MaxTime
       ~> t \notin timers \/ t \in cancelled
=============================================================================
