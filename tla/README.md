# Koro in TLA+

Koro is a C++ library of stackful coroutines (`koro/`) with its own asynchronous
logger (`elog/`). This directory holds TLA+ models of its concurrent parts, the
TLC configurations that check them, and machine-checked proofs that the safety
properties hold for every size of the system.

`PROJECT.json` is the index: components, runs, the mutant that shows each
property can fail, the source lines behind every definition, findings, hazards
and theorems.

## 1. Inventory

| Part | State | Operations | Interacts with |
|---|---|---|---|
| Fiber | `state_`, `execute`, a stack | construct, tryLock/unlock, resume, yield, hold, return | resumed only by `Scheduler::run` |
| Scheduler | N task queues with a mutex, `idling`, `stop_`, active and pending counts, post index | submit, run, stealTask, tickle, idle, stopping, stop | fibers; any thread submits |
| IOManager | a poller and an eventfd per queue, the channel table | virtual tickle/idle, bindTaskQueue, registerEvent, unregisterEvent, removeChannel, timers | Scheduler (base class), Channel, epoll |
| do_io (hook) | the registration of one blocking call | read, write, accept, close | runs inside a fiber; its callback is queued by the poller |
| Channel, EpollPoller, FD | callbacks and events of a descriptor, epoll set | update, handleEvent, triggerEvent, poll, eventfd | bound to one queue |
| TimerManager | ordered timers, timerfd | registerTimer, unregisterEvent, triggerTimer | idle() of its queue, pending count |
| ThreadPool | a locked queue and condition variable per worker | submit, stealTask, destructor | tasks may submit |
| AsyncLogging, FixedBuffer | current, spare and filled buffers, worker's spares | pushMessage, threadWorker, wait4Done | LogFile, Logger |
| LogFile, FileAppender | byte and line counts, last roll/flush/day | append, rollFile, flush | only the worker thread |
| Logger | the one AsyncLogging and its flag | init, append, shutdown | every thread that logs |

What is hard, and what makes each part correct:

* **Fiber and Scheduler.** The same fiber can be in several queues, popped by its
  owner and stolen from behind, while it is still running. Correct means: one
  worker per stack (`FiberExclusive`), only ready or held fibers are resumed
  (`ResumeAssert`), no ready fiber is forgotten (`NotStranded`), the counters that
  stop() relies on balance (`ActiveCount`, `PendingCount`).
* **Sleeping.** A worker goes to sleep while others submit. Correct means: no lost
  wake-up (`NoLostWakeup`) and every task runs (`QueuedRuns`).
* **do_io.** The event may come before the registration, before hold(), twice, or
  together with an unrelated wake-up, and epoll is edge triggered
  (`EventNotLost`, `IoResumes`).
* **stop().** It must drain (`StopDrains`), return (`StopReturns`) and leave
  nothing suspended (`StopLeavesNoWaiter`).
* **ThreadPool.** Runs each task exactly once, and its destructor waits for all
  tasks submitted before it (`Refinement`, `ExitDrained`, `DestructorReturns`).
* **AsyncLogging.** Loses and reorders nothing unless it says so, never pushes
  into a buffer it has given away (`Conserved`, `OrderKept`, `PushAssert`).
* **close().** A poller may still be handling an event of a descriptor that the
  woken fiber is closing: whoever uses a channel must find its queue
  (`QueueOfChannel`).
* **Timers.** The clock runs on between any two steps, the worker may be late by
  whole intervals, and a timer may be cancelled while it fires. Correct means: the
  callbacks are those of an alarm clock (`Refinement` to `Alarm`), the timerfd is
  always set for the first timer (`TimerfdCovers`), no timer is forgotten
  (`NotDropped`, `FiresUnlessDisarmed`, `RepeatingFires`), and stop() waits for those
  that were registered before idle() returned (`StopWaitsForTimers`).
* **LogFile.** The process may end at any time and the wall clock may be set back.
  Correct means: the files are a prefix of what was logged, without a gap except
  where the close of a file failed (`NoGap`), a roll never reopens an older file
  (`RollsIncrease`), files split by size and day up to the slack of the checks
  (`SizeBound`, `DaySplit`), and what a crash can lose is bounded (`LossBound`).

## 2. Modules

| Module | Models |
|---|---|
| `Fiber` | class Fiber as partial actions over `<<state, execute>>` |
| `Scheduler` | what the base class and IOManager share: submit, run, stealTask, stopping, stop. Extends `Fiber` |
| `CvScheduler` | `Scheduler` with the condition-variable `tickle` and `idle` of the base class |
| `IOManager` | `Scheduler` with the epoll `tickle` and `idle`, do_io, and the kernel's readiness |
| `Close` | `IOManager` with the hooked close(): removeChannel against a poller in the middle of an event |
| `Alarm` | abstract: what a timer promises to the owner of its callback |
| `TimerManager` | class TimerManager with Timer, TimerId, Timestamp and the timer calls of IOManager; implements `Alarm` |
| `TaskPool` | abstract: what a pool promises to the owner of a future |
| `ThreadPool` | class ThreadPool; implements `TaskPool` |
| `AsyncLogging` | class AsyncLogging with its FixedBuffers |
| `LogFile` | class LogFile over FileAppender |
| `MC*` | the instances for TLC |
| `IOManager_proofs` | type correctness of `IOManager`, no wake-up is lost |
| `IOManager_fiber_proofs` | one worker per stack, resume(), no ready fiber stranded, stop() drains |
| `IOManager_io_proofs` | no event of do_io is lost, the two counters of stopping() |
| `ThreadPool_proofs` | the invariants of `ThreadPool`, and that it implements `TaskPool` |
| `TimerManager_proofs` | the invariants of `TimerManager`, and that it implements `Alarm` |
| `AsyncLogging_proofs` | the invariants of `AsyncLogging` |
| `LogFile_proofs` | the invariants of `LogFile` |
| `DataLemmas` | induction over numbers, and what `FlattenSeq` and `MapThenSumSet` compute |

Definitions carry the names of the functions they model; a function that several
threads can interleave with is split into one action per shared access, all of
them listed in `map`.

### Correspondence

*Control.* `pc[t]` is the control point of thread `t`; the workers are `0..N-1`
and `Main = N` owns the scheduler. `run` of the code is the cycle
`pop -> (steal ->) count -> begin -> (locked ->) running -> (requeue ->) unlock ->
uncount -> pop`. A swapcontext into a fiber is the move to `running`; out of it,
the move away. The idle fiber of a worker is the cycle `idle -> stopping ->
has_task -> poll -> woke -> handle -> stopping -> pop`; `idleTerm` says that it has
returned.

*Granularity.* One action is one critical section of a mutex or one access to an
atomic. Memory is sequentially consistent: `idling` is accessed with seq_cst, the
queues under their mutexes, `execute` with acquire/release, and the other atomics
are single counters for which interleaving covers the outcomes of the build on the
platforms the code targets. Some accesses share an action because no other thread
can tell: `stop_` and the active count in `stopping()` (`stop_` never returns to
false), the push and the decrement of a failed tryLock (the decrement is inside the
critical section, and between them the task is visible in the queue), the
`triggered` flag and the push of the do_io callback (one callback of a
registration runs the push; a second one only reads the flag).

*try_lock.* A thief passes over a non-empty queue only when its mutex is taken.
The mutexes are not variables: `Locking(t, v)` says that thread `t`'s next step is
a critical section of `v`'s mutex, so it may be inside it now.

*Data.* A callable is its identity. A task is `Cb(f)` (its wrapper fiber is not
built yet), `FiberOf(f)`, or `Event(f, n)`, the callback of fiber `f`'s `n`-th
registration. Fiber `f` does its I/O on a descriptor of its own, also written `f`.
Reading consumes what is available; a read that leaves something behind is an
arrival right after it. EPOLLHUP and EPOLLERR reach do_io as the same callback as
the event it waits for; the error callback that handleEvent queues as one more task
for EPOLLERR is left out: `handleError` is empty. The eventfd is a flag: a non-zero
counter.

*Kernel (external).* `arrive`, `Ready`: a descriptor is on the ready list when it
becomes ready while registered, or when ADD or MOD finds it ready; reporting an
edge-triggered one takes it off. More data on a descriptor that still has unread
data is a second edge and is reported again, so a second callback of the same
registration can be queued; it finds `triggered` set. epoll_wait may be interrupted
(EINTR).

*ThreadPool.* `fut[k]` is what the future of task `k` shows; it doubles as the
abstract state: the refinement mapping maps `fut` and `owed` to themselves. `owed` is a history
variable: the tasks submitted before the destructor began.

*AsyncLogging.* A buffer is `[ok, ctxs]`, `ok` being `ctxs_ != nullptr`; a
moved-from buffer is `Moved`. Each message has a thread of its own. `accepted` and
`dropped` are history variables. Files are the sequence of their messages.

*Close.* The fiber closes its own descriptor, as `test/server.cpp` does, when no
call of do_io is registered on it. The report of a second edge is what can be in the
hands of a poller when the fiber closes. The number of a closed descriptor is not
reused.

*TimerManager.* One manager and its worker, since `timers_` and the timerfd are only
touched by the thread of their queue. `tick` may come between any two steps. An
interval of 0 stands for the code's -1, a deadline of 0 for a disarmed timerfd;
`expiration` 0 is a Timer that does not exist. The clock is read and the timerfd
set in one step: a tick in between shifts the expiry by that tick, which a late
`onTime` covers. A fiber of any worker cancels, in two steps (`cancellTimer` for the
count, then `unregisterEvent` for the flag), once for each TimerId. The other
wake-ups of idle() are `wakeOther`. `idleTerm` says that idle() has returned;
`idleQuit`, the stopping() that lets it, is one step: when it reads a zero count no
timer of this worker is left to cancel, and only this worker, which is inside
stopping(), could register one or queue a callback. As in `Scheduler`, the worker then
goes on popping and stealing until it finds nothing (`exit`), and a task it runs
there may register a timer; `late` records these. `destroy` is ~TimerManager, after the
owner of the scheduler has joined its threads; nobody is forced to call stop(), so it
is not fair. `start`, `rung` and `late` are history variables. Refinement mapping: `due <- start`,
`period <- interval`, `off <-` the timers whose cancellTimer has returned,
`ringing <-` the timer whose callback triggerTimer has decided to queue.

*LogFile.* Record `n` is the `n`-th appended. `buf` is stdio's buffer, any prefix of
which may move to disk when the next record is written; only complete records count
as being on disk, a torn last one does not. A roll has two steps, as the assignment
to `file_` has: `openFile` builds the new FileAppender while the old one, with its
buffer in `old`, is still there, and `closeFile` destroys it. The destructor
(`shutFile`, also in `destroy`) ignores the results of fflush and fclose, so it may
write any part of the buffer; `cut`, a history field of the file, is what it failed
to write. The process ends by an exception when a roll cannot open its file
(`openFails`) or fwrite or the fflush of flush() reports an error (`writeFails`), as no
caller catches it, or by a signal (`killed`). `last_roll_second_` has no initializer in
the code, so Init gives it any value; if that is in the future no file is opened
and the first append is the crash `nullFile`. `setBack` is the wall clock set back. SizeBound,
DaySplit and LossBound are stated for a clock that was not set back, NoGap and
RollsIncrease for any.

## 3. Runs

Deadlock checking is off in all of them: a scheduler, pool or logger whose queues
are empty, or whose owner is done, really stops.

| Run | Expect | Instance | Shows |
|---|---|---|---|
| `tasks` | pass | 2 workers, 2 fibers, one yield or hold each | safety of run, submit, stealing, idle and stop |
| `io` | pass | 2 workers, 1 fiber, 1 I/O call, 2 arrivals, 1 extra wake-up | do_io against its event and stray wake-ups |
| `live` | pass | 2 workers, 1 fiber, 1 I/O call, 1 arrival, fairness | tasks run, ready descriptors resume their fiber |
| `stop` | violation | 2 workers, 1 task, fairness | stop() can hang |
| `waiter` | violation | 2 workers, 1 fiber, 1 I/O call, 1 wake-up | stop() can leave a fiber held in do_io |
| `cv_wakeup` | violation | 2 workers, 2 tasks | the base class loses a wake-up |
| `pool` | pass | 2 workers, 3 tasks, fairness | ThreadPool implements TaskPool; liveness |
| `logging` | pass | 5 messages, buffers of 2, drop limit 2, fairness | conservation, order, spare buffers; liveness |
| `timers` | pass | 2 timers, 4 instants, fairness | TimerManager implements Alarm; timerfd, stop() and the last round of run(); liveness up to a disarmed timerfd |
| `timer_lost` | violation | 1 timer, 3 instants, fairness | a late worker loses a repeating timer |
| `close` | violation | 2 workers, 1 fiber, 1 I/O call, 2 arrivals | a poller uses the queue of a closed channel |
| `logfile` | pass | 4 records of length 1 or 2, roll size 2, 4 seconds, days of 2, one setting back | what the files hold, also after a crash or a failed close |

*Bounds.* `MaxSlices` (yields and holds of a fiber), `MaxWakes` (submissions of a
fiber that exists), `MaxIo`, `MaxArrivals`. Two workers are the fewest with a thief
and a victim, and with one thread asleep while another works. Two fibers give a
task that is stolen while another is queued and a fiber that submits another; the
second arrival, which may come on unread data, lets an event fire again while the
first is still in flight; the
extra wake-up resumes a fiber that waits in do_io for another reason. Three pool
tasks let one be run, one queued and one stolen. Five messages through buffers of
two fill two buffers and start a third; the drop limit 2 puts the drop in reach
(the code has 65536 and 100). Two timers are the fewest with a first one that
changes and with two that expire together; `MaxTime` 4 lets a repeating timer of
interval 1 ring, be late by more than an interval, and be cancelled in any of these
states. In `LogFile`, `RollSize` 2 with records of up to `MaxLen` 2 rolls after one
or after two records, `CheckPerCount` 2 makes every second record look at the clock,
`MaxTime` 4 with `Day` 2 has two midnights, `FlushInterval` 1 is the shortest, and
four records (`MaxRecords`) fill several files; `MaxBack` 1 sets the clock back
once, by any amount. Fibers are interchangeable, so the safety runs use
symmetry; the liveness runs do not. The proofs below have no bounds.

*Fairness.* Weak fairness of each thread (`worker(w)`, the owner once it is inside
submit or stop, the worker of the logger): a runnable thread is scheduled. A wait
on epoll, on a condition variable or in join is a disabled action, so fairness
never wakes it; the exception is `wait_for` in AsyncLogging, which ends by itself.
In TimerManager the clock is fair too (`tick`): time passes. LogFile has no
liveness property and no fairness.
Nothing forces anybody to submit, to stop, or to log, a descriptor to become
ready, a signal to come or a spurious wake-up to happen, and a fiber body is free
to loop through its bounded choices. A body that never returns would occupy its
worker for ever; the fairness assumption says that bodies do finish or suspend.

### Findings

1. `stop` / `StopReturns`. A task that was popped and not yet counted is invisible
   to `stopping()`. stop() then tickles for the last time and joins, while a second
   worker is still on its way into idle(); that worker finds the first one active,
   blocks in epoll_wait without a time limit, and nobody tickles it again.
2. `waiter` / `StopLeavesNoWaiter`. `stopping()` reads its counters one after the
   other; a fiber that moves from one wait of do_io into the next in between is
   seen in neither, and stop() returns with the fiber suspended.
   Both contradict `gemini.md:178`, which states as the goal that stop() may be
   called at any time and the program always exits without a leak.
3. `cv_wakeup` / `NoLostWakeup`. `Scheduler::idle` waits on its condition variable
   without a predicate and without a look at its queue. In the trace the submit and
   its tickle fall between the worker's last look at the queues (pop and steal) and
   `idling.store(true)`: tickle reads `idling` false and sends no notify, and the worker
   waits over its task. The model also has a second window, between the store and the
   wait, in which the notify is sent and finds nobody waiting. IOManager overrides both functions and does not have this flaw (that is
   the theorem `WakeupNeverLost`).
4. `timer_lost` / `RepeatingFires`. `toRelativeItimerspec` turns an expiration that
   has passed into a zero `it_value`, which disarms a timerfd. A worker that is late by
   one interval thereby switches its own timerfd off; the overdue timer stays the
   first in `timers_`, so `insert()` never asks for the timerfd again, and no timer of
   the worker fires any more. `FiresUnlessDisarmed` shows
   that a timer which is not cancelled, and was not registered in the last round of
   run(), is kept from firing by a disarmed timerfd only.
5. `close` / `QueueOfChannel`. `triggerEvent` copies the callback under the mutex of
   the channel and uses `task_queue_` after it; close() in the fiber it has woken
   before resets `task_queue_` in between. The code asserts a non-null queue in
   every other place (`io_manager.cpp:73,145`, `channel.cpp:30`).

## 4. Proofs

Every invariant that a run checks, the action property `ResumeAssert` and both
refinements are theorems: `Spec => []Inv` for every value of the constants. Each
rests on an inductive invariant that TLC checked first on the instance of the
corresponding run. The proof that a step preserves it has one case for each action;
actions that do not touch what a conjunct speaks about are grouped into quiet steps,
one lemma for all of them.

*Assumptions.* `IOManager`: at least one worker (`NAssumption`), natural numbers as
bounds, and a wake-up descriptor that belongs to no fiber; the set of fibers may be
infinite. `ThreadPool`: at least one worker, and `NoTask` is no task.
`TimerManager`: finitely many timers. `AsyncLogging`: buffers of at least one
message, and a drop limit of at least 2 (the code keeps two buffers when it drops;
its limit is 100). `LogFile`: sizes, intervals, the length of a day and the last
second are positive. No proof uses fairness.

**IOManager, types** (`TypeCorrect`). `TypeOK` is not inductive: `beginCb`, `requeue`
or `triggerPush` use a task that was taken steps before. `TInv` adds `TaskInHand` (a
thread about to use a task has one), `Sites` (stopping() returns to the caller it
came from) and `BoundOK` (a registered, reported or handled descriptor is bound to
the queue of the worker that handles it; otherwise triggerPush could push to a queue
that does not exist).

**IOManager, sleeping** (`WakeupNeverLost`). The strengthening is `IdleFlag`: a worker
between `idling.store(true)` and the return of epoll_wait has `idling` set. The
argument is that of the code: the worker publishes `idling` before its last look at
the queue, the submitter pushes before it looks at `idling`.

**IOManager, fibers** (`StackExclusive`, `ResumeAssertHolds`, `ReadyNotStranded`).
`FInv` is about where tasks are: in a queue or carried by a thread (`InPlay`). The
flag `execute` protects a fiber that exists, but `beginCb` builds the fiber of a
callable and sets its flag without asking; what protects that step is `Once` (the
callback of a callable is in one place only) with `Known` (it is there only as long
as its fiber is not built).
`ExecuteHeld` says on whose behalf a flag is set, `StateAt` ties the state of a fiber
to the control point of its worker, and `ReadyQueued` extends NotStranded to the
moment before the unlock and to callables. Queues and carried tasks change in five
ways (push, take, carry, drop, add), each with lemmas of its own.

**IOManager, stop** (`StopLeavesNoTask`). `Watched` says that a non-empty queue has a
thread that will still look into it: a worker not on its last round or whose round
has still to reach it, or the owner in stopping(). A failed `try_to_lock` is harmless
because whoever holds the mutex is such a thread, and so is whoever pushes.

**IOManager, do_io** (`ArrivalNotLost`, `PendingCounted`, `ActiveCounted`,
`CountersNeverWrap`). `Woken` says where the news of a ready descriptor is: on the
ready list, reported to its worker, in a callback in play, or, once the callback ran,
in the fiber's own task. `RegBounds` keeps callbacks of earlier registrations from
being mistaken for the current one. The counters are cardinalities of sets that gain
or lose one element at a time; that they are never decremented below zero, where
`size_t` would wrap, follows.

**ThreadPool** (`TypeCorrect`, `WakeupNeverLost`, `LeavesNothingOwed`,
`ImplementsTaskPool`). `PInv`: a task that is not ready is in exactly one place, with
its submitter, at one position of one queue, or with one worker, and its future says
in which kind; and what the destructor owes is in no queue of a worker that has
left. Each step of ThreadPool then is a step of TaskPool or leaves `fut` and `owed`
alone.

**TimerManager** (`TypeCorrect`, `TimerfdIsSet`, `NoTimerDropped`, `StopWaits`,
`ImplementsAlarm`). `TMInv` follows the round of `active_timers_`: a timer in
`timers_` or ahead of the loop expires at `start + rung * interval` (`Ahead`), one the
loop has passed is one interval behind until resetTimer restarts it (`Passed`). From
this, the n-th callback belongs to the n-th multiple, which is what Alarm demands.
`Counted` makes the pending count the number of timers that are not cancelled, and
says that once idle() has returned all of these are in `late`. That
`Front`, the first of `timers_`, exists is well-foundedness of the natural numbers.

**AsyncLogging** (`TypeCorrect`, `PushFindsBuffer`, `NothingLost`, `FileInOrder`).
`AInv` sees what was accepted and not dropped as one `Line` from the file to the
current buffer: push appends, the swap and the write move the borders, a drop cuts a
piece out. `Spares` says that the spare buffers are empty and there when the next swap
needs them.

**LogFile** (`TypeCorrect`, `DiskHasNoGap`, `RollsGoUp`, `CrashLossBounded`,
`DaysAreSplit`, `SizeIsBounded`). `LInv`: the files, each with what its close failed to
write at its end, followed by the buffers of the old and of the new FileAppender are
the records in order (`Numbered`, about `Trail`); between the two steps of a roll the
new file and its buffer are empty and neither file has been closed (`Shutting`), and at
any other time no old buffer is left (`Opening`); while the clock was not set back, what is buffered is
younger than the last flush and what is in the open file younger than its roll
(`InTime`); and the strays and late bytes of the open file are at most what `count_`
and `written_bytes_` say (`StrayCount`, `ByteCount`). The last two tie the counters,
which other branches of append() reset, to the files they are about.

**DataLemmas.** The induction theorems of the library take the hypothesis as an
operator, which the provers cannot instantiate. `InductNat` takes it as a set and
follows from the well-foundedness of `<` on the natural numbers; with it the
recursive functions inside `FlattenSeq` and `MapThenSumSet` are shown to exist and to
obey the equations the proofs use.

Only model-checked, and why:

* `QueuedRuns`, `IoResumes`, `SubmittedRuns`, `DestructorReturns`, `AcceptedWritten`,
  `DoneReturns`, `FiresUnlessDisarmed`: liveness under fairness, out of the prover's
  reach.
* The properties of the violation runs: they do not hold.

## 5. Not modelled, and the plan

* `resetFunc`, stacks and ucontext: memory, not protocol.
* InplaceFunction: a value type with small-buffer storage; its operations are
  sequential and only move and destroy what they hold.
* Context, Formatter, LogStream, flags and CurrentThread: value types and formatting.
* Logger: `initAsyncLogging` and `shutdownAsyncLogging` have no caller in the
  repository, so how they meet threads that log is not settled by the source; the
  hazard at `logger.cpp:54` is listed.
* Failures of epoll_ctl and fcntl, which the code only logs, and the error callback of
  a channel.
* The names of log files: they are made from local time, so an hour that is
  repeated could repeat a name although `RollsIncrease` holds for the seconds.
* Registrations from threads outside the scheduler; one descriptor used by two
  fibers; a descriptor number that is reused after close(); a second Scheduler or
  AsyncLogging in one process.

Next, in this order:

1. Proofs: `Close` (the safety properties of `IOManager` with close() added), and
   which of them hold of `CvScheduler`, whose only known flaw is the lost wake-up.
2. *Descriptors*: one descriptor used by two fibers (hazards at
   `io_manager.cpp:133` and `hook.cpp:90`).
