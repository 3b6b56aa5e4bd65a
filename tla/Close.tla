------------------------------- MODULE Close --------------------------------
(***************************************************************************)
(* IOManager with the hooked close(): the handler of a connection reads    *)
(* and writes its descriptor and closes it at the end, as the server of    *)
(* test/server.cpp does, while the worker whose poller watches the         *)
(* descriptor may still be handling an event of it.                        *)
(***************************************************************************)
EXTENDS IOManager

(* close() of hook.cpp, on worker w, after some I/O on the descriptor: the *)
(* channel is looked up, and removeChannel takes it out of the table       *)
close(w) ==
  /\ pc[w] = "running"
  /\ ~armed[cur(w)]
  /\ bound[cur(w)] # NoQueue
  /\ ios' = [ios EXCEPT ![cur(w)] = MaxIo]
  /\ Goto(w, "remove")
  /\ UNCHANGED <<fiberVars, q, idling, stop, active, pending, post, task, out,
                 scan, tgt, site, idleTerm, boundVars, evfd, evs, chanVars,
                 kernVars, arrivals>>

(* Channel::remove and, in it, EpollPoller::removeChannel                  *)
epollDelete(f) == rdy' = [rdy EXCEPT ![f] = FALSE]
remove(f) == epollDelete(f) /\ bound' = [bound EXCEPT ![f] = NoQueue]

(* the rest of removeChannel, without the mutex of the channel: the        *)
(* callbacks are cleared; a channel that is in epoll is deleted there and  *)
(* loses its queue, one that never was is not reachable any more           *)
removeChannel(w) ==
  LET f == cur(w)
  IN /\ pc[w] = "remove"
     /\ armed' = [armed EXCEPT ![f] = FALSE]
     /\ remove(f)
     /\ Goto(w, "sys_close")
     /\ UNCHANGED <<fiberVars, q, idling, stop, active, pending, post, task,
                    out, scan, tgt, site, idleTerm, boundVars, evfd, evs, reg,
                    fired, avail, ios, arrivals>>

(* the system call: nothing arrives any more                               *)
sysClose(w) ==
  /\ pc[w] = "sys_close"
  /\ avail' = [avail EXCEPT ![cur(w)] = FALSE]
  /\ arrivals' = [arrivals EXCEPT ![cur(w)] = MaxArrivals]
  /\ Goto(w, "running")
  /\ UNCHANGED <<fiberVars, q, idling, stop, active, pending, post, task, out,
                 scan, tgt, site, idleTerm, boundVars, evfd, evs, chanVars,
                 rdy, ios>>

CloseNext ==
  \/ Next
  \/ \E w \in Workers : close(w) \/ removeChannel(w) \/ sysClose(w)

CloseSpec == Init /\ [][CloseNext]_vars

(* A channel that is in use has its task queue, as registerEvent,          *)
(* unregisterEvent, update() and remove() assert: the thread that is about *)
(* to queue the callback it has copied in triggerEvent finds it.  The code *)
(* breaks it: the copy is made under the mutex of the channel, the use of  *)
(* task_queue_ is not, and close() resets it without looking at either.    *)
QueueOfChannel ==
  \A w \in Workers : pc[w] = "trigger" => bound[out[w].id] # NoQueue
=============================================================================
