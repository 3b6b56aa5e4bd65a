------------------------------ MODULE TaskPool ------------------------------
(***************************************************************************)
(* What a pool of workers promises to the owner of the tasks, whatever its *)
(* queues and threads are: a submitted task is run once, its future        *)
(* becomes ready after the run, and the destructor returns only when every *)
(* task that was submitted before it began has been run.                   *)
(***************************************************************************)
CONSTANT Tasks

VARIABLES fut,            \* the state of each task as its future shows it
          owed            \* tasks the running destructor still answers for

Futures == {"none", "pending", "running", "ready"}

Init ==
  /\ fut = [k \in Tasks |-> "none"]
  /\ owed = {}

Submit(k) ==
  /\ fut[k] = "none"
  /\ fut' = [fut EXCEPT ![k] = "pending"]
  /\ UNCHANGED owed

Start(k) ==
  /\ fut[k] = "pending"
  /\ fut' = [fut EXCEPT ![k] = "running"]
  /\ UNCHANGED owed

Finish(k) ==
  /\ fut[k] = "running"
  /\ fut' = [fut EXCEPT ![k] = "ready"]
  /\ UNCHANGED owed

(* the destructor begins                                                   *)
Close ==
  /\ owed' = {k \in Tasks : fut[k] # "none"}
  /\ UNCHANGED fut

(* the destructor returns                                                  *)
Return ==
  /\ \A k \in owed : fut[k] = "ready"
  /\ owed' = {}
  /\ UNCHANGED fut

Next == (\E k \in Tasks : Submit(k) \/ Start(k) \/ Finish(k)) \/ Close \/ Return

Spec == Init /\ [][Next]_<<fut, owed>>
=============================================================================
