------------------------------- MODULE Fiber -------------------------------
(***************************************************************************)
(* class Fiber (fiber.h, fiber.cpp): a stackful coroutine with its life    *)
(* cycle State and the flag "execute" that keeps two threads from running  *)
(* the same stack.                                                         *)
(*                                                                         *)
(* Every operator is a partial action over <<state, execute>>; the run     *)
(* loop of the scheduler supplies the control around it.  A context switch *)
(* (swapcontext) is the worker moving to, or away from, the control state  *)
(* in which the fiber's body runs.                                         *)
(***************************************************************************)
EXTENDS Naturals

CONSTANT Fibers           \* identities of the fibers a behaviour can create

VARIABLES state,          \* Fiber::state_
          execute         \* Fiber::execute

fiberVars == <<state, execute>>

State == {"kReady", "kRunning", "kHold", "kTerm"}

(* Two more values for identities that have no Fiber object yet: "none" is *)
(* unused, "posted" is a callback that was submitted and whose wrapper     *)
(* fiber Scheduler::run has still to construct.                            *)
NoObject == {"none", "posted"}

FiberTypeOK ==
  /\ state \in [Fibers -> State \cup NoObject]
  /\ execute \in [Fibers -> BOOLEAN]

FiberInit ==
  /\ state = [f \in Fibers |-> "none"]
  /\ execute = [f \in Fibers |-> FALSE]

(* std::make_shared<Fiber>(cb) in the caller of submit                     *)
construct(f) ==
  /\ state' = [state EXCEPT ![f] = "kReady"]
  /\ UNCHANGED execute

(* A compare_exchange that does not look at the old value.                 *)
tryLockBlind(f) ==
  /\ execute' = [execute EXCEPT ![f] = TRUE]
  /\ UNCHANGED state

(* compare_exchange_strong(false, true) that succeeds                      *)
tryLock(f) ==
  /\ ~execute[f]
  /\ execute' = [execute EXCEPT ![f] = TRUE]
  /\ UNCHANGED state

unlock(f) ==
  /\ execute' = [execute EXCEPT ![f] = FALSE]
  /\ UNCHANGED state

(* Fiber::resume up to the context switch.  Its assertion (state_ is       *)
(* kReady or kHold) is the invariant ResumeAssert, not a guard.            *)
resume(f) ==
  /\ state' = [state EXCEPT ![f] = "kRunning"]
  /\ UNCHANGED execute

(* fiber_wrapper of Scheduler::run: constructor, tryLock() and resume() of *)
(* an object that no other thread knows yet.                               *)
launch(f) ==
  /\ state' = [state EXCEPT ![f] = "kRunning"]
  /\ execute' = [execute EXCEPT ![f] = TRUE]

(* Fiber::hold: suspended until somebody schedules the fiber again         *)
hold(f) ==
  /\ state' = [state EXCEPT ![f] = "kHold"]
  /\ UNCHANGED execute

(* Fiber::yield of a running fiber                                         *)
yield(f) ==
  /\ state' = [state EXCEPT ![f] = "kReady"]
  /\ UNCHANGED execute

(* Fiber::mainFunc after the body returned: kTerm, then a last yield()     *)
(* that leaves kTerm alone                                                 *)
mainFuncReturn(f) ==
  /\ state' = [state EXCEPT ![f] = "kTerm"]
  /\ UNCHANGED execute
=============================================================================
