---------------------------- MODULE AsyncLogging ----------------------------
(***************************************************************************)
(* class AsyncLogging (async_logging.h, async_logging.cpp): any thread     *)
(* appends to the current buffer under a mutex, a worker swaps the filled  *)
(* buffers out and writes them, and two pairs of spare buffers go round so *)
(* that neither side allocates.                                            *)
(*                                                                         *)
(* One action is one critical section of mtx_ or one access to done_; the  *)
(* worker's own buffers and its file are seen by nobody else.  Message m   *)
(* is logged by a thread of its own.  The owner ends the worker with       *)
(* wait4Done() while the other threads may still be logging.               *)
(***************************************************************************)
EXTENDS Naturals, Sequences, SequencesExt

CONSTANTS Msgs,           \* the messages that are logged
          Cap,            \* kLargeBuffer: messages in one buffer
          DropLimit       \* 100: more buffers than this are not written

ASSUME CapAssumption == Cap \in Nat \ {0}
ASSUME DropAssumption == DropLimit \in Nat \ {0, 1}

VARIABLES
  done,       \* done_
  latch,      \* latch_down_ was counted down
  cur,        \* cur_buf_
  next,       \* next_buf_
  bufs,       \* bufs_
  new1,       \* new_buf1 of the worker
  new2,       \* new_buf2 of the worker
  toWrite,    \* buf2write of the worker
  notified,   \* a notify_one has reached the waiting worker
  wpc,        \* control point of the worker
  ppc,        \* control point of each message's thread
  opc,        \* control point of the owner
  file,       \* the messages in the log file
  accepted,   \* history: the messages in the order of pushMessage
  dropped     \* history: buffers were dropped

bufVars == <<cur, next, bufs, new1, new2, toWrite>>
vars == <<done, latch, bufVars, notified, wpc, ppc, opc, file, accepted, dropped>>

(* FixedBuffer: ok is ctxs_ # nullptr                                      *)
Buffer == [ok: BOOLEAN, ctxs: Seq(Msgs)]
Fresh  == [ok |-> TRUE, ctxs |-> <<>>]
Moved  == [ok |-> FALSE, ctxs |-> <<>>]

empty(b) == b.ctxs = <<>>

(* A buffer that takes one message too many.                               *)
fullLate(b) == Len(b.ctxs) > Cap

full(b) == Len(b.ctxs) = Cap
push(b, m) == [b EXCEPT !.ctxs = Append(@, m)]
reset(b) == [b EXCEPT !.ctxs = <<>>]

(* all messages of a sequence of buffers                                   *)
Contents(s) == FlattenSeq([i \in DOMAIN s |-> s[i].ctxs])

(* Type correctness of the buffers, the control and the histories; no      *)
(* buffer is filled beyond the array behind it.                            *)
TypeOK ==
  /\ done \in BOOLEAN /\ latch \in BOOLEAN /\ notified \in BOOLEAN
  /\ cur \in Buffer /\ next \in Buffer /\ new1 \in Buffer /\ new2 \in Buffer
  /\ Len(cur.ctxs) <= Cap
  /\ bufs \in Seq(Buffer) /\ toWrite \in Seq(Buffer)
  /\ wpc \in {"top", "lock", "wait", "write", "exit"}
  /\ ppc \in [Msgs -> {"start", "push", "end"}]
  /\ opc \in {"ctor", "main", "notify", "join", "done"}
  /\ file \in Seq(Msgs) /\ accepted \in Seq(Msgs)
  /\ dropped \in BOOLEAN

Init ==
  /\ done = FALSE /\ latch = FALSE /\ notified = FALSE
  /\ cur = Fresh /\ next = Fresh /\ new1 = Fresh /\ new2 = Fresh
  /\ bufs = <<>> /\ toWrite = <<>>
  /\ wpc = "top"
  /\ ppc = [m \in Msgs |-> "start"]
  /\ opc = "ctor"
  /\ file = <<>> /\ accepted = <<>>
  /\ dropped = FALSE

notifyOne == notified' = (notified \/ wpc = "wait")

-----------------------------------------------------------------------------
(* pushMessage(): the look at done_                                        *)
pushCheck(m) ==
  /\ opc # "ctor"
  /\ ppc[m] = "start"
  /\ ppc' = [ppc EXCEPT ![m] = IF done THEN "end" ELSE "push"]
  /\ UNCHANGED <<done, latch, bufVars, notified, wpc, opc, file, accepted,
                 dropped>>

(* the critical section of pushMessage(): the current buffer has room ...  *)
pushRoom(m) ==
  /\ ppc[m] = "push"
  /\ ~full(cur)
  /\ cur' = push(cur, m)
  /\ accepted' = Append(accepted, m)
  /\ ppc' = [ppc EXCEPT ![m] = "end"]
  /\ UNCHANGED <<done, latch, next, bufs, new1, new2, toWrite, notified, wpc,
                 opc, file, dropped>>

(* ... or it is full: hand it over, go on with the spare one or a new one  *)
(* and tell the worker                                                     *)
pushFull(m) ==
  /\ ppc[m] = "push"
  /\ full(cur)
  /\ bufs' = Append(bufs, cur)
  /\ cur' = push(IF next.ok THEN next ELSE Fresh, m)
  /\ next' = IF next.ok THEN Moved ELSE next
  /\ notifyOne
  /\ accepted' = Append(accepted, m)
  /\ ppc' = [ppc EXCEPT ![m] = "end"]
  /\ UNCHANGED <<done, latch, new1, new2, toWrite, wpc, opc, file, dropped>>

-----------------------------------------------------------------------------
(* A worker that takes the current buffer only when it is full.            *)
SwapFull ==
  LET take == full(cur)
      all  == IF take THEN Append(bufs, cur) ELSE bufs
  IN /\ cur' = IF take THEN new1 ELSE cur
     /\ new1' = IF take THEN Moved ELSE new1
     /\ toWrite' = all
     /\ bufs' = toWrite
     /\ next' = IF next.ok THEN next ELSE new2
     /\ new2' = IF next.ok THEN new2 ELSE Moved
     /\ wpc' = IF all = <<>> THEN "top" ELSE "write"

(* A worker that puts the current buffer in front of the older ones.       *)
SwapFront ==
  LET take == ~empty(cur)
      all  == IF take THEN <<cur>> \o bufs ELSE bufs
  IN /\ cur' = IF take THEN new1 ELSE cur
     /\ new1' = IF take THEN Moved ELSE new1
     /\ toWrite' = all
     /\ bufs' = toWrite
     /\ next' = IF next.ok THEN next ELSE new2
     /\ new2' = IF next.ok THEN new2 ELSE Moved
     /\ wpc' = IF all = <<>> THEN "top" ELSE "write"

(* The end of the worker's critical section: the current buffer joins the  *)
(* filled ones, all of them become the worker's, and the spare buffers of  *)
(* the worker replace the ones that were used.                             *)
Swap ==
  LET take == ~empty(cur)
      all  == IF take THEN Append(bufs, cur) ELSE bufs
  IN /\ cur' = IF take THEN new1 ELSE cur
     /\ new1' = IF take THEN Moved ELSE new1
     /\ toWrite' = all
     /\ bufs' = toWrite
     /\ next' = IF next.ok THEN next ELSE new2
     /\ new2' = IF next.ok THEN new2 ELSE Moved
     /\ wpc' = IF all = <<>> THEN "top" ELSE "write"

workerTop ==
  /\ wpc = "top"
  /\ wpc' = IF done THEN "exit" ELSE "lock"
  /\ UNCHANGED <<done, latch, bufVars, notified, ppc, opc, file, accepted,
                 dropped>>

(* Nothing is filled: count the latch down, release the mutex and wait.    *)
workerWait ==
  /\ wpc = "lock"
  /\ bufs = <<>>
  /\ latch' = TRUE
  /\ wpc' = "wait"
  /\ UNCHANGED <<done, bufVars, notified, ppc, opc, file, accepted, dropped>>

workerSwap ==
  /\ wpc = "lock"
  /\ bufs # <<>>
  /\ Swap
  /\ UNCHANGED <<done, latch, notified, ppc, opc, file, accepted, dropped>>

(* A wait without a time limit.                                            *)
workerWakeNotified ==
  /\ wpc = "wait"
  /\ notified
  /\ notified' = FALSE
  /\ Swap
  /\ UNCHANGED <<done, latch, ppc, opc, file, accepted, dropped>>

(* cv_.wait_for returns: notified, timed out or spuriously                 *)
workerWake ==
  /\ wpc = "wait"
  /\ notified' = FALSE
  /\ Swap
  /\ UNCHANGED <<done, latch, ppc, opc, file, accepted, dropped>>

(* the buffers that are written: the first two of too many                 *)
Kept == IF Len(toWrite) > DropLimit THEN SubSeq(toWrite, 1, 2) ELSE toWrite

(* the i-th of the written buffers, after buf2write.resize(2)              *)
Written(i) == IF i <= Len(Kept) THEN Kept[i] ELSE Fresh

(* Reusing the buffers with what is in them.                               *)
workerWriteNoReset ==
  /\ wpc = "write"
  /\ file' = file \o Contents(Kept)
  /\ dropped' = (dropped \/ Len(toWrite) > DropLimit)
  /\ new1' = IF new1.ok THEN new1 ELSE Written(1)
  /\ new2' = IF new2.ok THEN new2 ELSE Written(2)
  /\ toWrite' = <<>>
  /\ wpc' = "top"
  /\ UNCHANGED <<done, latch, cur, next, bufs, notified, ppc, opc, accepted>>

(* Leaving the spare buffers as they are.                                  *)
workerWriteNoRefill ==
  /\ wpc = "write"
  /\ file' = file \o Contents(Kept)
  /\ dropped' = (dropped \/ Len(toWrite) > DropLimit)
  /\ toWrite' = <<>>
  /\ wpc' = "top"
  /\ UNCHANGED <<done, latch, cur, next, bufs, new1, new2, notified, ppc, opc,
                 accepted>>

(* Write, and make the spare buffers out of the first two.                 *)
workerWrite ==
  /\ wpc = "write"
  /\ file' = file \o Contents(Kept)
  /\ dropped' = (dropped \/ Len(toWrite) > DropLimit)
  /\ new1' = IF new1.ok THEN new1 ELSE reset(Written(1))
  /\ new2' = IF new2.ok THEN new2 ELSE reset(Written(2))
  /\ toWrite' = <<>>
  /\ wpc' = "top"
  /\ UNCHANGED <<done, latch, cur, next, bufs, notified, ppc, opc, accepted>>

threadWorker == workerTop \/ workerWait \/ workerSwap \/ workerWake \/ workerWrite

-----------------------------------------------------------------------------
OwnerStep(from, to) ==
  /\ opc = from
  /\ opc' = to
  /\ UNCHANGED <<latch, bufVars, wpc, ppc, file, accepted, dropped>>

(* the constructor waits for the worker's first look at the buffers        *)
ctorReturn == latch /\ OwnerStep("ctor", "main") /\ UNCHANGED <<done, notified>>

(* wait4Done() and the destructor: done_, then notify, without the mutex   *)
doDone     == OwnerStep("main", "notify") /\ done' = TRUE /\ UNCHANGED notified
doneNotify == OwnerStep("notify", "join") /\ notifyOne /\ UNCHANGED done
join       == /\ wpc = "exit"
              /\ OwnerStep("join", "done")
              /\ UNCHANGED <<done, notified>>

Next ==
  \/ \E m \in Msgs : pushCheck(m) \/ pushRoom(m) \/ pushFull(m)
  \/ threadWorker
  \/ ctorReturn \/ doDone \/ doneNotify \/ join

(* The threads are scheduled and wait_for ends; nobody has to log or to    *)
(* call wait4Done().                                                       *)
Fairness ==
  /\ WF_vars(threadWorker)
  /\ WF_vars(ctorReturn \/ doneNotify \/ join)
  /\ \A m \in Msgs : WF_vars(pushRoom(m) \/ pushFull(m))

Spec     == Init /\ [][Next]_vars
FairSpec == Spec /\ Fairness

-----------------------------------------------------------------------------
(* The assertion of FixedBuffer::push: whoever takes the mutex finds a     *)
(* buffer to push into, so the spare buffers never run out unnoticed.      *)
PushAssert == cur.ok

(* Until buffers are dropped, the messages that were accepted are, in that *)
(* order, the ones in the file, with the worker, in the filled buffers and *)
(* in the current one: none is lost, doubled or moved.                     *)
Conserved ==
  ~dropped => accepted = file \o Contents(toWrite) \o Contents(bufs) \o cur.ctxs

(* Even when buffers are dropped, the file keeps the order of the calls    *)
(* and has no message twice.                                               *)
OrderKept ==
  \A i, j \in DOMAIN file : i < j =>
     \E k, l \in DOMAIN accepted :
        k < l /\ accepted[k] = file[i] /\ accepted[l] = file[j]

(* While the logger runs, an accepted message reaches the file, unless it  *)
(* is dropped.                                                             *)
AcceptedWritten ==
  \A m \in Msgs : m \in Range(accepted) ~> m \in Range(file) \/ dropped \/ done

(* wait4Done() returns, although its notification is sent without the      *)
(* mutex and the worker can miss it.                                       *)
DoneReturns == opc = "join" ~> opc = "done"
=============================================================================
