-------------------------------- MODULE Alarm --------------------------------
(***************************************************************************)
(* What the timers of an IOManager promise to their user, independent of   *)
(* timerfd, sets and threads: a callback is queued for an alarm that is    *)
(* due, never early and never for one that was cancelled before the        *)
(* decision to ring; a single alarm rings once, the n-th ring of a         *)
(* periodic one belongs to the n-th multiple of its period.                *)
(***************************************************************************)
EXTENDS Naturals

CONSTANT Alarms

VARIABLES
  now,
  due,        \* time of the first ring; 0: not set
  period,     \* 0: rings once
  off,        \* cancelled alarms
  ringing,    \* alarms that have decided to ring
  rung        \* how often each alarm has rung

alarmVars == <<now, due, period, off, ringing, rung>>

Init ==
  /\ now \in Nat \ {0}
  /\ due = [a \in Alarms |-> 0]
  /\ period = [a \in Alarms |-> 0]
  /\ off = {}
  /\ ringing = {}
  /\ rung = [a \in Alarms |-> 0]

Tick == now' > now /\ UNCHANGED <<due, period, off, ringing, rung>>

Set(a) ==
  /\ due[a] = 0
  /\ due'[a] \in Nat \ {0} /\ period'[a] \in Nat
  /\ due' = [due EXCEPT ![a] = due'[a]]
  /\ period' = [period EXCEPT ![a] = period'[a]]
  /\ UNCHANGED <<now, off, ringing, rung>>

Cancel(a) ==
  /\ off' = off \cup {a}
  /\ UNCHANGED <<now, due, period, ringing, rung>>

Decide(a) ==
  /\ due[a] # 0 /\ a \notin off \cup ringing
  /\ period[a] > 0 \/ rung[a] = 0
  /\ due[a] + rung[a] * period[a] <= now
  /\ ringing' = ringing \cup {a}
  /\ UNCHANGED <<now, due, period, off, rung>>

Ring(a) ==
  /\ a \in ringing
  /\ ringing' = ringing \ {a}
  /\ rung' = [rung EXCEPT ![a] = @ + 1]
  /\ UNCHANGED <<now, due, period, off>>

Next == Tick \/ \E a \in Alarms : Set(a) \/ Cancel(a) \/ Decide(a) \/ Ring(a)

Spec == Init /\ [][Next]_alarmVars
=============================================================================
