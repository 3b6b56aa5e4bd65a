------------------------ MODULE TimerManager_proofs ------------------------
(***************************************************************************)
(* TimerManager for every set of timers and every last instant: type       *)
(* correctness, the timerfd is set for the first timer, no timer is        *)
(* dropped, stop() waits for the timers, and the callbacks that are queued *)
(* are those of an Alarm.                                                  *)
(*                                                                         *)
(* The core of the argument is the round of active_timers_: a timer is     *)
(* either waiting, in timers_ or ahead of the loop that queues callbacks,  *)
(* with its expiration at the next multiple of its interval, or the loop   *)
(* has passed it, with its expiration still one interval behind.           *)
(***************************************************************************)
EXTENDS TimerManager, FiniteSetTheorems, WellFoundedInduction, TLAPS

Pushing == {"push", "push_back"}
Rounds  == Pushing \cup {"reset"}

(* which timer a registration is about, and when active_timers_ is empty   *)
Stage ==
  /\ pc = "enable" => arg \in timers
  /\ pc = "settime" => IF arg = NoTimer THEN timers # {} ELSE arg \in timers
  /\ pc \notin {"settime", "enable"} => arg = NoTimer
  /\ pc \notin Rounds => active = <<>>
  /\ pc = "push_back" => k <= Len(active)

(* what holds of a Timer before and after it is created                    *)
Created ==
  /\ \A t \in Timers : expiration[t] = 0 =>
        /\ start[t] = 0 /\ interval[t] = 0 /\ rung[t] = 0
        /\ t \notin timers /\ t \notin cancelled
  /\ \A t \in Timers : expiration[t] # 0 => start[t] # 0
  /\ \A i \in 1..Len(active) : expiration[active[i]] # 0

(* on_ tells the cancelled timers that are alive from the others           *)
OnOff ==
  /\ \A t \in Timers : expiration[t] # 0 /\ t # arg /\ t \notin cancelled => on[t]
  /\ arg \notin cancelled
  /\ \A t \in cancelled \ cancelling : t \in timers => ~on[t]
  /\ \A i \in 1..Len(active) : active[i] \in cancelled \ cancelling => ~on[active[i]]

(* active_timers_ holds timers that are due, each of them once, and none   *)
(* that is in timers_, except those that resetTimer has put back           *)
Round ==
  /\ \A i, j \in 1..Len(active) : active[i] = active[j] => i = j
  /\ \A i \in 1..Len(active) : active[i] \in timers => pc = "reset" /\ i < k
  /\ pc \in Pushing => \A i \in 1..Len(active) : expiration[active[i]] <= now

(* t waits for its next ring, at a multiple of its interval                *)
Ahead(t) == /\ expiration[t] = start[t] + rung[t] * interval[t]
            /\ interval[t] = 0 => rung[t] = 0

(* the loop has passed t: its callback is queued, or it is off             *)
Passed(t) == on[t] => /\ expiration[t] + interval[t] = start[t] + rung[t] * interval[t]
                      /\ rung[t] > 0

Rings ==
  /\ \A t \in timers : Ahead(t)
  /\ pc \in Pushing => \A i \in 1..Len(active) :
        IF i < k THEN Passed(active[i]) ELSE Ahead(active[i])
  /\ pc = "reset" => \A i \in 1..Len(active) : i >= k => Passed(active[i])

(* the timerfd is set, or about to be set, for the first timer             *)
Covers ==
  /\ pc \in {"fiber", "wait", "enable"} /\ timers # {} /\ Front > now
        => deadline = Front
  /\ pc = "settime" /\ arg # NoTimer => expiration[arg] = Front

(* the timers that pending_event_count_ counts                             *)
Live == {t \in Timers : expiration[t] # 0 /\ t \notin cancelled}

Counted ==
  /\ pending = Cardinality(Live)
  /\ idleTerm => Live \subseteq late

(* The inductive invariant.                                                *)
TMInv == /\ TypeOK /\ Stage /\ Created /\ OnOff /\ Round /\ Rings
         /\ NotDropped /\ Covers /\ Counted

-----------------------------------------------------------------------------
(* A nonempty set of natural numbers has a least element: Min is one.      *)
LEMMA MinLeast ==
  ASSUME NEW S, S \subseteq Nat, S # {}
  PROVE  Min(S) \in S /\ \A y \in S : Min(S) <= y
<1>1. PICK x \in S : \A y \in S : ~ (<<y, x>> \in OpToRel(<, Nat))
  BY NatLessThanWellFounded, WFMin, Zenon
<1>2. \A y \in S : x <= y
  <2> SUFFICES ASSUME NEW y \in S PROVE x <= y
    OBVIOUS
  <2>1. x \in Nat /\ y \in Nat
    OBVIOUS
  <2>2. y < x => <<y, x>> \in OpToRel(<, Nat)
    BY <2>1 DEF OpToRel
  <2>3. ~ (y < x)
    BY <1>1, <2>2, Zenon
  <2> QED BY <2>1, <2>3
<1> QED BY <1>2 DEF Min

(* Front is the expiration of a first timer.                               *)
LEMMA FirstOf ==
  ASSUME NEW S, NEW f \in [Timers -> Nat], S \subseteq Timers, S # {}
  PROVE  /\ Min({f[t] : t \in S}) \in Nat
         /\ \E t \in S : Min({f[u] : u \in S}) = f[t]
         /\ \A t \in S : Min({f[u] : u \in S}) <= f[t]
<1> DEFINE T == {f[t] : t \in S}
<1>1. T \subseteq Nat /\ T # {}
  OBVIOUS
<1>2. Min(T) \in T /\ \A y \in T : Min(T) <= y
  BY <1>1, MinLeast, Zenon
<1> QED BY <1>1, <1>2

LEMMA FrontFirst ==
  ASSUME TypeOK, timers # {}
  PROVE  /\ Front \in Nat
         /\ \E t \in timers : Front = expiration[t]
         /\ \A t \in timers : Front <= expiration[t]
<1>1. expiration \in [Timers -> Nat] /\ timers \subseteq Timers
  BY DEF TypeOK
<1> QED BY <1>1, FirstOf, Zenon DEF Front

LEMMA FrontFirstNext ==
  ASSUME TypeOK', timers' # {}
  PROVE  /\ Front' \in Nat
         /\ \E t \in timers' : Front' = expiration'[t]
         /\ \A t \in timers' : Front' <= expiration'[t]
<1>1. expiration' \in [Timers -> Nat] /\ timers' \subseteq Timers
  BY DEF TypeOK
<1> QED BY <1>1, FirstOf, Zenon DEF Front

(* Front depends on nothing but timers_ and its keys.                      *)
LEMMA FrontSame ==
  ASSUME timers' = timers, expiration' = expiration
  PROVE  Front' = Front
BY DEF Front

LEMMA ActiveTyped ==
  ASSUME TypeOK
  PROVE  /\ Len(active) \in Nat /\ k \in Nat /\ k >= 1 /\ k <= Len(active) + 1
         /\ DOMAIN active = 1..Len(active)
         /\ \A i \in 1..Len(active) : active[i] \in Timers
BY DEF TypeOK

LEMMA LiveFinite == IsFiniteSet(Live) /\ Cardinality(Live) \in Nat
<1>1. Live \subseteq Timers
  BY DEF Live
<1> QED BY <1>1, TimerAssumption, FS_Subset, FS_CardinalityType

(* One timer more, and one less, to be counted.                            *)
LEMMA LiveMore ==
  ASSUME NEW t \in Timers, t \notin Live, Live' = Live \cup {t}
  PROVE  Cardinality(Live') = Cardinality(Live) + 1
BY LiveFinite, FS_AddElement

LEMMA LiveLess ==
  ASSUME NEW t \in Live, Live' = Live \ {t}
  PROVE  Cardinality(Live') = Cardinality(Live) - 1 /\ Cardinality(Live) > 0
BY LiveFinite, FS_RemoveElement, FS_EmptySet

-----------------------------------------------------------------------------
(* Type correctness: pending_event_count_ does not go below zero, because  *)
(* it counts the timers that nobody has cancelled.                         *)
LEMMA TypeRegister ==
  ASSUME TMInv, NEW t \in Timers, NEW ts \in Nat, NEW i \in Nat,
         registerTimer(t, ts, i)
  PROVE  TypeOK'
<1>0. TypeOK
  BY DEF TMInv
<1>1. /\ expiration' \in [Timers -> Nat] /\ start' \in [Timers -> Nat]
      /\ interval' \in [Timers -> Nat]
  BY <1>0 DEF TypeOK, registerTimer
<1>2. timers' \in SUBSET Timers /\ pc' \in PCs
  BY <1>0 DEF TypeOK, registerTimer, insert, PCs
<1>3. pending' \in Nat /\ arg' \in Timers \cup {NoTimer} /\ late' \in SUBSET Timers
  BY <1>0 DEF TypeOK, registerTimer
<1> QED BY <1>0, <1>1, <1>2, <1>3 DEF TypeOK, registerTimer

LEMMA TypeWorker ==
  ASSUME TMInv, worker \/ wakeOther \/ stopCall \/ destroy \/ tick
  PROVE  TypeOK'
<1>0. TypeOK /\ Stage
  BY DEF TMInv
<1>1. CASE resetTimerFd
  <2>1. arg = NoTimer => Front \in Nat
    BY <1>0, <1>1, FrontFirst DEF Stage, resetTimerFd
  <2>2. arg # NoTimer => expiration[arg] \in Nat
    BY <1>0 DEF TypeOK
  <2>3. deadline' \in Nat
    BY <1>0, <1>1, <2>1, <2>2 DEF TypeOK, resetTimerFd, toRelativeItimerspec
  <2> QED BY <1>0, <1>1, <2>3 DEF TypeOK, resetTimerFd, PCs, timerVars, histVars
<1>2. CASE enable
  BY <1>0, <1>2 DEF TypeOK, enable, PCs, histVars
<1>3. CASE idleQuit \/ exit \/ idleWait \/ onTime \/ wakeOther
  BY <1>0, <1>3 DEF TypeOK, idleQuit, exit, idleWait, onTime, wakeOther, PCs,
                    timerVars, histVars
<1>4. CASE triggerTimer
  <2> DEFINE due == {t \in timers : expiration[t] <= now}
  <2>1. IsFiniteSet(due)
    BY <1>0, TimerAssumption, FS_Subset DEF TypeOK
  <2>2. Cardinality(due) \in Nat /\ due \subseteq Timers
    BY <1>0, <2>1, FS_CardinalityType DEF TypeOK
  <2> HIDE DEF due
  <2>3. active' \in [1..Cardinality(due) -> due]
    BY <1>4 DEF triggerTimer, Ordered, due
  <2>4. active' \in Seq(Timers) /\ k' \in 1..Len(active') + 1
    BY <1>4, <2>2, <2>3 DEF triggerTimer
  <2>5. timers' \in SUBSET Timers
    BY <1>0, <1>4 DEF TypeOK, triggerTimer
  <2> QED BY <1>0, <1>4, <2>4, <2>5 DEF TypeOK, triggerTimer, PCs, histVars
<1>5. CASE triggerNext
  <2>1. pc' \in PCs /\ k' \in 1..Len(active) + 1
    BY <1>0, <1>5, ActiveTyped DEF triggerNext, PCs
  <2> QED BY <1>0, <1>5, <2>1 DEF TypeOK, triggerNext, timerVars, histVars
<1>6. CASE triggerPush
  <2>1. active[k] \in Timers /\ k' \in 1..Len(active) + 1
    BY <1>0, <1>6, ActiveTyped DEF Stage, triggerPush
  <2>2. tasks' \in Seq(Timers) /\ rung' \in [Timers -> Nat]
    <3> DEFINE t == active[k]
    <3>1. tasks \in Seq(Timers) /\ rung \in [Timers -> Nat] /\ t \in Timers
      BY <1>0, <2>1 DEF TypeOK
    <3>2. tasks' = Append(tasks, t) /\ rung' = [rung EXCEPT ![t] = @ + 1]
      BY <1>6 DEF triggerPush
    <3> HIDE DEF t
    <3> QED BY <3>1, <3>2
  <2> QED BY <1>0, <1>6, <2>1, <2>2 DEF TypeOK, triggerPush, PCs, timerVars
<1>7. CASE resetTimer
  <2>1. active[k] \in Timers /\ k' \in 1..Len(active) + 1
    BY <1>0, <1>7, ActiveTyped DEF resetTimer
  <2>2. expiration' \in [Timers -> Nat] /\ timers' \in SUBSET Timers
    <3> DEFINE t == active[k]
    <3>1. /\ expiration \in [Timers -> Nat] /\ interval \in [Timers -> Nat]
          /\ timers \subseteq Timers /\ t \in Timers
      BY <1>0, <2>1 DEF TypeOK
    <3>2. \/ /\ expiration' = [expiration EXCEPT ![t] = @ + interval[t]]
             /\ timers' = timers \cup {t}
          \/ expiration' = expiration /\ timers' = timers
      BY <1>7 DEF resetTimer, repeat
    <3> QED BY <3>1, <3>2
  <2> QED BY <1>0, <1>7, <2>1, <2>2 DEF TypeOK, resetTimer, PCs, histVars
<1>8. CASE resetTimerEnd
  BY <1>0, <1>8, SMTT(30) DEF TypeOK, resetTimerEnd, PCs, timerVars, histVars
<1>9. CASE takeTask
  <2>1. tasks' \in Seq(Timers)
    BY <1>0, <1>9 DEF TypeOK, takeTask
  <2> QED BY <1>0, <1>9, <2>1 DEF TypeOK, takeTask, timerVars, histVars
<1>10. CASE destroy
  BY <1>0, <1>10 DEF TypeOK, destroy, PCs, histVars
<1>11. CASE stopCall
  BY <1>0, <1>11 DEF TypeOK, stopCall, timerVars, histVars
<1>12. CASE tick
  <2>1. now' \in 1..MaxTime
    BY <1>0, <1>12, TimerAssumption DEF TypeOK, tick
  <2> QED BY <1>0, <1>12, <2>1 DEF TypeOK, tick, timerVars, histVars
<1> QED
  BY <1>1, <1>2, <1>3, <1>4, <1>5, <1>6, <1>7, <1>8, <1>9, <1>10, <1>11, <1>12
     DEF worker

LEMMA TypeCancel ==
  ASSUME TMInv, NEW t \in Timers, cancellTimer(t) \/ unregisterEvent(t)
  PROVE  TypeOK'
<1>0. TypeOK
  BY DEF TMInv
<1>1. CASE cancellTimer(t)
  <2>1. t \in Live /\ Live' = Live \ {t}
    BY <1>1 DEF cancellTimer, Live, timerVars
  <2>2. pending' \in Nat
    BY <1>1, <2>1, LiveLess, LiveFinite DEF TMInv, Counted, cancellTimer
  <2> QED BY <1>0, <1>1, <2>2 DEF TypeOK, cancellTimer, timerVars
<1>2. CASE unregisterEvent(t)
  BY <1>0, <1>2 DEF TypeOK, unregisterEvent, histVars
<1> QED BY <1>1, <1>2

-----------------------------------------------------------------------------
(* Steps that do not touch the timers, their round and their cancellation: *)
(* the rest of the invariant depends on pc, deadline and the clock alone.  *)
roundVars == <<timerVars, active, k, arg, pending, cancelling, histVars>>

LEMMA PcOnly ==
  ASSUME TMInv, TypeOK', UNCHANGED <<roundVars, now, deadline>>,
         pc = "fiber" \/ pc = "wait",
         pc' \in {"wait", "fiber", "trigger", "exit"},
         idleTerm' = idleTerm \/ pending = 0
  PROVE  TMInv'
<1>1. Stage' /\ Created' /\ OnOff' /\ Round'
  BY DEF TMInv, Stage, Created, OnOff, Round, roundVars, timerVars, histVars,
         Rounds, Pushing
<1>2. Rings'
  BY DEF TMInv, Rings, Ahead, Passed, roundVars, timerVars, histVars, Pushing
<1>3. NotDropped'
  BY DEF TMInv, NotDropped, roundVars, timerVars, histVars
<1>4. Covers'
  BY FrontSame DEF TMInv, Covers, roundVars, timerVars
<1>5. Counted'
  <2>1. Live' = Live
    BY DEF Live, roundVars, timerVars, histVars
  <2>2. pending = 0 => Live = {}
    BY LiveFinite, FS_EmptySet DEF TMInv, Counted
  <2> QED BY <2>1, <2>2 DEF TMInv, Counted, roundVars, histVars
<1> QED BY <1>1, <1>2, <1>3, <1>4, <1>5 DEF TMInv

LEMMA Quiet ==
  ASSUME TMInv, TypeOK', UNCHANGED <<roundVars, deadline, idleTerm, pc>>,
         now' >= now
  PROVE  TMInv'
<1>0. now \in Nat /\ now' \in Nat
  BY DEF TMInv, TypeOK
<1>1. Stage' /\ Created' /\ OnOff'
  BY DEF TMInv, Stage, Created, OnOff, roundVars, timerVars, histVars
<1>2. Round'
  <2>1. \A i \in 1..Len(active) : expiration[active[i]] \in Nat
    BY ActiveTyped DEF TMInv, TypeOK
  <2> QED BY <1>0, <2>1 DEF TMInv, Round, roundVars, timerVars
<1>3. Rings'
  BY DEF TMInv, Rings, Ahead, Passed, roundVars, timerVars, histVars, Pushing
<1>4. NotDropped'
  BY DEF TMInv, NotDropped, roundVars, timerVars, histVars
<1>5. Covers'
  <2>1. Front' = Front /\ timers' = timers /\ expiration' = expiration
    BY FrontSame DEF roundVars, timerVars
  <2>2. timers # {} => Front \in Nat
    BY FrontFirst DEF TMInv
  <2> QED BY <1>0, <2>1, <2>2 DEF TMInv, Covers, roundVars
<1>6. Counted'
  <2>1. Live' = Live
    BY DEF Live, roundVars, timerVars, histVars
  <2> QED BY <2>1 DEF TMInv, Counted, roundVars, histVars
<1> QED BY <1>1, <1>2, <1>3, <1>4, <1>5, <1>6 DEF TMInv

LEMMA R_register ==
  ASSUME TMInv, NEW t \in Timers, NEW ts \in Nat \ {0}, NEW i \in Nat,
         registerTimer(t, ts, i)
  PROVE  TMInv'
<1>0. /\ TypeOK /\ TypeOK' /\ pc = "fiber" /\ expiration[t] = 0
      /\ active = <<>> /\ active' = active /\ k' = k /\ arg = NoTimer
  BY TypeRegister DEF TMInv, Stage, Rounds, Pushing, registerTimer
<1>1. /\ timers' = timers \cup {t} /\ pc' \in {"settime", "enable"}
      /\ arg' = t /\ t # NoTimer
      /\ expiration' = [expiration EXCEPT ![t] = ts]
      /\ start' = [start EXCEPT ![t] = ts]
      /\ interval' = [interval EXCEPT ![t] = i]
      /\ UNCHANGED <<now, on, deadline, idleTerm, cancelled, cancelling, rung>>
      /\ pending' = pending + 1
      /\ late' = IF idleTerm THEN late \cup {t} ELSE late
  BY NoTimerAssumption DEF registerTimer, insert
<1>2. /\ t \notin timers /\ t \notin cancelled
      /\ start[t] = 0 /\ interval[t] = 0 /\ rung[t] = 0
  BY <1>0 DEF TMInv, Created
<1>3. /\ expiration'[t] = ts /\ start'[t] = ts /\ interval'[t] = i
      /\ \A u \in Timers : u # t => /\ expiration'[u] = expiration[u]
                                    /\ start'[u] = start[u]
                                    /\ interval'[u] = interval[u]
  BY <1>0, <1>1 DEF TypeOK
<1>4. timers \subseteq Timers /\ cancelled \subseteq Timers
  BY <1>0 DEF TypeOK
<1>5. Stage'
  BY <1>0, <1>1 DEF Stage, Rounds, Pushing
<1>6. Created'
  BY <1>0, <1>1, <1>2, <1>3, <1>4 DEF TMInv, Created
<1>7. OnOff'
  <2>1. \A u \in Timers : u # NoTimer
    BY NoTimerAssumption
  <2>2. \A u \in Timers : expiration'[u] # 0 /\ u # t /\ u \notin cancelled => on[u]
    BY <1>0, <1>3, <2>1 DEF TMInv, OnOff
  <2>3. \A u \in cancelled \ cancelling : u \in timers' => ~on[u]
    BY <1>1, <1>2 DEF TMInv, OnOff
  <2> QED BY <1>0, <1>1, <1>2, <2>2, <2>3 DEF OnOff
<1>8. Round'
  BY <1>0, <1>1 DEF Round, Pushing
<1>9. Rings'
  <2>1. \A u \in timers : Ahead(u)'
    BY <1>1, <1>2, <1>3, <1>4 DEF TMInv, Rings, Ahead
  <2>2. Ahead(t)'
    BY <1>1, <1>2, <1>3 DEF Ahead
  <2> QED BY <1>0, <1>1, <2>1, <2>2 DEF Rings, Pushing
<1>10. NotDropped'
  BY <1>0, <1>1, <1>2, <1>3 DEF TMInv, NotDropped
<1>11. Covers'
  <2>1. /\ Front' \in Nat
        /\ \E u \in timers' : Front' = expiration'[u]
        /\ \A u \in timers' : Front' <= expiration'[u]
    BY <1>0, <1>1, FrontFirstNext
  <2>2. timers # {} => /\ Front \in Nat
                       /\ \E u \in timers : Front = expiration[u]
                       /\ \A u \in timers : Front <= expiration[u]
    BY <1>0, FrontFirst
  <2>3. \A u \in timers : expiration'[u] = expiration[u]
    BY <1>2, <1>3, <1>4
  <2>4. expiration \in [Timers -> Nat] /\ now \in Nat
    BY <1>0 DEF TypeOK
  <2>5. pc' = IF timers = {} \/ ts < Front THEN "settime" ELSE "enable"
    BY DEF registerTimer, insert
  <2>6. timers = {} \/ ts < Front => Front' = ts
    BY <1>1, <1>3, <1>4, <2>1, <2>2, <2>3, <2>4
  <2>7. timers # {} /\ ts >= Front => Front' = Front
    BY <1>1, <1>3, <1>4, <2>1, <2>2, <2>3, <2>4
  <2>8. timers # {} /\ Front > now => deadline = Front
    BY <1>0 DEF TMInv, Covers
  <2> QED BY <1>0, <1>1, <1>3, <2>2, <2>5, <2>6, <2>7, <2>8 DEF Covers
<1>12. Counted'
  <2>1. t \notin Live /\ Live' = Live \cup {t}
    BY <1>0, <1>1, <1>2, <1>3 DEF Live
  <2> QED BY <1>1, <2>1, LiveMore DEF TMInv, Counted
<1> QED BY <1>0, <1>5, <1>6, <1>7, <1>8, <1>9, <1>10, <1>11, <1>12 DEF TMInv

LEMMA R_resetTimerFd ==
  ASSUME TMInv, TypeOK', resetTimerFd
  PROVE  TMInv'
<1>0. /\ TypeOK /\ pc = "settime" /\ active = <<>>
      /\ UNCHANGED <<now, timerVars, active, k, arg, pending, idleTerm,
                     cancelling, histVars>>
      /\ pc' = IF arg = NoTimer THEN "fiber" ELSE "enable"
  BY DEF TMInv, Stage, Rounds, Pushing, resetTimerFd
<1>1. Stage' /\ Created' /\ OnOff' /\ Round'
  BY <1>0 DEF TMInv, Stage, Created, OnOff, Round, timerVars, histVars, Rounds,
              Pushing
<1>2. Rings'
  BY <1>0 DEF TMInv, Rings, Ahead, Passed, timerVars, histVars, Pushing
<1>3. NotDropped'
  BY <1>0 DEF TMInv, NotDropped, timerVars, histVars
<1>4. Covers'
  <2>1. Front' = Front
    BY <1>0, FrontSame DEF timerVars
  <2>2. arg # NoTimer => expiration[arg] = Front
    BY <1>0 DEF TMInv, Covers
  <2>3. deadline' = IF Front <= now THEN 0 ELSE Front
    BY <2>2 DEF resetTimerFd, toRelativeItimerspec
  <2>4. timers # {} => Front \in Nat
    BY <1>0, FrontFirst
  <2>5. now \in Nat
    BY <1>0 DEF TypeOK
  <2> QED BY <1>0, <2>1, <2>3, <2>4, <2>5 DEF Covers, timerVars
<1>5. Counted'
  <2>1. Live' = Live
    BY <1>0 DEF Live, timerVars, histVars
  <2> QED BY <1>0, <2>1 DEF TMInv, Counted, histVars
<1> QED BY <1>1, <1>2, <1>3, <1>4, <1>5 DEF TMInv

LEMMA R_enable ==
  ASSUME TMInv, TypeOK', enable
  PROVE  TMInv'
<1>0. /\ TypeOK /\ pc = "enable" /\ pc' = "fiber" /\ active = <<>>
      /\ on' = [on EXCEPT ![arg] = TRUE] /\ arg' = NoTimer /\ arg \in timers
      /\ UNCHANGED <<now, expiration, interval, timers, active, k, deadline,
                     pending, idleTerm, cancelling, histVars>>
  BY DEF TMInv, Stage, Rounds, Pushing, enable
<1>1. /\ timers \subseteq Timers /\ cancelled \subseteq Timers
      /\ on'[arg] /\ \A u \in Timers : u # arg => on'[u] = on[u]
  BY <1>0 DEF TypeOK
<1>2. Stage' /\ Created' /\ Round'
  BY <1>0 DEF TMInv, Stage, Created, Round, histVars, Rounds, Pushing
<1>3. OnOff'
  <2>1. NoTimer \notin cancelled
    BY <1>1, NoTimerAssumption
  <2> QED BY <1>0, <1>1, <2>1 DEF TMInv, OnOff, histVars
<1>4. Rings'
  BY <1>0 DEF TMInv, Rings, Ahead, histVars, Pushing
<1>5. NotDropped'
  BY <1>0 DEF TMInv, NotDropped, histVars
<1>6. Covers'
  BY <1>0, FrontSame DEF TMInv, Covers
<1>7. Counted'
  <2>1. Live' = Live
    BY <1>0 DEF Live, histVars
  <2> QED BY <1>0, <2>1 DEF TMInv, Counted, histVars
<1> QED BY <1>2, <1>3, <1>4, <1>5, <1>6, <1>7 DEF TMInv

LEMMA R_cancellTimer ==
  ASSUME TMInv, NEW t \in Timers, cancellTimer(t)
  PROVE  TMInv'
<1>0. /\ pc # "gone" /\ expiration[t] # 0 /\ t # arg
      /\ t \notin cancelled /\ pending' = pending - 1
      /\ cancelled' = cancelled \cup {t} /\ cancelling' = cancelling \cup {t}
      /\ UNCHANGED <<now, timerVars, active, k, arg, deadline, idleTerm, pc,
                     start, rung, late>>
  BY DEF cancellTimer
<1>1. Stage' /\ Created' /\ Round'
  BY <1>0 DEF TMInv, Stage, Created, Round, timerVars
<1>2. OnOff'
  BY <1>0 DEF TMInv, OnOff, timerVars
<1>3. Rings'
  BY <1>0 DEF TMInv, Rings, Ahead, Passed, timerVars
<1>4. NotDropped'
  BY <1>0 DEF TMInv, NotDropped, timerVars
<1>5. Covers'
  BY <1>0, FrontSame DEF TMInv, Covers, timerVars
<1>6. Counted'
  <2>1. t \in Live /\ Live' = Live \ {t}
    BY <1>0 DEF Live, timerVars
  <2> QED BY <1>0, <2>1, LiveLess DEF TMInv, Counted
<1> QED BY <1>1, <1>2, <1>3, <1>4, <1>5, <1>6, TypeCancel DEF TMInv

LEMMA R_unregisterEvent ==
  ASSUME TMInv, NEW t \in Timers, unregisterEvent(t)
  PROVE  TMInv'
<1>0. /\ TypeOK /\ TypeOK' /\ t \in cancelling
      /\ on' = [on EXCEPT ![t] = @ /\ ~Alive(t)]
      /\ cancelling' = cancelling \ {t}
      /\ UNCHANGED <<now, expiration, interval, timers, active, k, arg, deadline,
                     pending, idleTerm, pc, histVars>>
  BY TypeCancel DEF TMInv, unregisterEvent
<1>1. /\ cancelling \subseteq cancelled /\ cancelled \subseteq Timers
      /\ timers \subseteq Timers
      /\ on'[t] => on[t] /\ ~Alive(t)
      /\ \A u \in Timers : u # t => on'[u] = on[u]
  BY <1>0 DEF TypeOK
<1>2. \A u : u \in timers \/ (\E i \in 1..Len(active) : active[i] = u) => Alive(u)
  BY <1>0, ActiveTyped DEF Alive, Range
<1>3. Stage' /\ Created' /\ Round'
  BY <1>0 DEF TMInv, Stage, Created, Round, histVars
<1>4. OnOff'
  <2>1. \A i \in 1..Len(active) : active[i] \in Timers
    BY <1>0, ActiveTyped
  <2> QED BY <1>0, <1>1, <1>2, <2>1 DEF TMInv, OnOff, histVars
<1>5. Rings'
  <2>1. \A i \in 1..Len(active) : active[i] \in Timers
    BY <1>0, ActiveTyped
  <2>2. \A u \in Timers : Ahead(u)' <=> Ahead(u)
    BY <1>0 DEF Ahead, histVars
  <2>3. \A u \in Timers : Passed(u) => Passed(u)'
    BY <1>0, <1>1 DEF Passed, histVars
  <2> QED BY <1>0, <1>1, <2>1, <2>2, <2>3 DEF TMInv, Rings
<1>6. NotDropped'
  BY <1>0 DEF TMInv, NotDropped, histVars
<1>7. Covers'
  BY <1>0, FrontSame DEF TMInv, Covers
<1>8. Counted'
  <2>1. Live' = Live
    BY <1>0 DEF Live, histVars
  <2> QED BY <1>0, <2>1 DEF TMInv, Counted, histVars
<1> QED BY <1>0, <1>3, <1>4, <1>5, <1>6, <1>7, <1>8 DEF TMInv

(* active_timers_ holds what expired, each timer once.                     *)
LEMMA RoundBegins ==
  ASSUME TypeOK, triggerTimer
  PROVE  /\ \A i \in 1..Len(active') : /\ active'[i] \in timers \ timers'
                                       /\ expiration[active'[i]] <= now
         /\ \A t \in timers \ timers' : \E i \in 1..Len(active') : active'[i] = t
         /\ \A i, j \in 1..Len(active') : active'[i] = active'[j] => i = j
<1> DEFINE due == {t \in timers : expiration[t] <= now}
           n == Cardinality(due)
<1>1. IsFiniteSet(due)
  BY TimerAssumption, FS_Subset DEF TypeOK
<1>2. n \in Nat
  BY <1>1, FS_CardinalityType
<1>3. due = timers \ timers' /\ \A t \in due : expiration[t] <= now
  BY DEF triggerTimer
<1>4. active' \in [1..n -> due] /\ Range(active') = due
  BY DEF triggerTimer, Ordered
<1> HIDE DEF due, n
<1>5. active' \in Surjection(1..n, due)
  <2>1. \A t \in due : \E s \in 1..n : active'[s] = t
    BY <1>4 DEF Range
  <2> QED BY <1>4, <2>1 DEF Surjection
<1>6. IsFiniteSet(1..n) /\ Cardinality(1..n) = n
  BY <1>2, FS_Interval
<1>7. active' \in Injection(1..n, due)
  BY <1>5, <1>6, FS_SurjSameCardinalityImpliesInj DEF n
<1>8. Len(active') = n
  BY <1>2, <1>4
<1>9. \A i \in 1..n : active'[i] \in due
  BY <1>4
<1>10. \A i, j \in 1..n : active'[i] = active'[j] => i = j
  BY <1>4, <1>7 DEF Injection, IsInjective
<1>11. \A t \in due : \E i \in 1..n : active'[i] = t
  BY <1>5 DEF Surjection
<1> QED BY <1>3, <1>8, <1>9, <1>10, <1>11

LEMMA R_triggerTimer ==
  ASSUME TMInv, TypeOK', triggerTimer
  PROVE  TMInv'
<1>0. /\ TypeOK /\ pc = "trigger" /\ pc' = "push" /\ active = <<>> /\ arg = NoTimer
      /\ k' = 1 /\ timers' \subseteq timers
      /\ UNCHANGED <<now, expiration, interval, on, arg, pending, idleTerm,
                     cancelling, histVars>>
  BY DEF TMInv, Stage, Rounds, Pushing, triggerTimer
<1>1. /\ \A i \in 1..Len(active') : /\ active'[i] \in timers \ timers'
                                    /\ expiration[active'[i]] <= now
      /\ \A t \in timers \ timers' : \E i \in 1..Len(active') : active'[i] = t
      /\ \A i, j \in 1..Len(active') : active'[i] = active'[j] => i = j
  BY <1>0, RoundBegins
<1>2. timers \subseteq Timers /\ Len(active') \in Nat
  BY <1>0 DEF TypeOK
<1>3. Stage'
  BY <1>0 DEF Stage, Rounds, Pushing
<1>4. Created'
  BY <1>0, <1>1, <1>2 DEF TMInv, Created, histVars
<1>5. OnOff'
  BY <1>0, <1>1 DEF TMInv, OnOff, histVars
<1>6. Round'
  BY <1>0, <1>1 DEF Round
<1>7. Rings'
  <2>1. \A u \in timers : Ahead(u)'
    BY <1>0 DEF TMInv, Rings, Ahead, histVars
  <2> QED BY <1>0, <1>1, <2>1 DEF Rings
<1>8. NotDropped'
  <2>1. DOMAIN active' = 1..Len(active')
    BY DEF TypeOK
  <2>2. \A t \in timers \ timers' : \E i \in DOMAIN active' : active'[i] = t
    BY <1>1, <2>1
  <2> QED BY <1>0, <2>2 DEF TMInv, NotDropped, histVars
<1>9. Covers'
  BY <1>0 DEF Covers
<1>10. Counted'
  <2>1. Live' = Live
    BY <1>0 DEF Live, histVars
  <2> QED BY <1>0, <2>1 DEF TMInv, Counted, histVars
<1> QED BY <1>3, <1>4, <1>5, <1>6, <1>7, <1>8, <1>9, <1>10 DEF TMInv

LEMMA R_triggerNext ==
  ASSUME TMInv, TypeOK', triggerNext
  PROVE  TMInv'
<1>0. /\ TypeOK /\ pc = "push" /\ arg = NoTimer
      /\ UNCHANGED <<now, timerVars, active, arg, deadline, pending,
                     idleTerm, cancelling, histVars>>
  BY DEF TMInv, Stage, Rounds, Pushing, triggerNext
<1>1. \/ k > Len(active) /\ pc' = "reset" /\ k' = 1
      \/ k <= Len(active) /\ on[active[k]] /\ pc' = "push_back" /\ k' = k
      \/ k <= Len(active) /\ ~on[active[k]] /\ pc' = "push" /\ k' = k + 1
  BY <1>0, ActiveTyped DEF triggerNext
<1>2. /\ Len(active) \in Nat /\ k \in Nat /\ k >= 1
      /\ DOMAIN active = 1..Len(active)
  BY <1>0, ActiveTyped
<1>3. Stage' /\ Created' /\ OnOff'
  BY <1>0, <1>1 DEF TMInv, Stage, Created, OnOff, timerVars, histVars, Rounds, Pushing
<1>4. Round'
  BY <1>0, <1>1 DEF TMInv, Round, timerVars, Pushing
<1>5. Rings'
  <2>1. \A t : (Ahead(t)' <=> Ahead(t)) /\ (Passed(t)' <=> Passed(t))
    BY <1>0 DEF Ahead, Passed, timerVars, histVars
  <2>2. ~on[active[k]] => Passed(active[k])
    BY DEF Passed
  <2>3. \A i \in 1..Len(active) : IF i < k THEN Passed(active[i]) ELSE Ahead(active[i])
    BY <1>0 DEF TMInv, Rings, Pushing
  <2>4. \A t \in timers : Ahead(t)
    BY DEF TMInv, Rings
  <2> HIDE DEF TMInv
  <2>5. CASE pc' = "reset"
    <3>1. \A i \in 1..Len(active) : Passed(active[i])
      BY <1>1, <1>2, <2>3, <2>5
    <3> QED BY <1>0, <2>1, <2>4, <2>5, <3>1 DEF Rings, timerVars, Pushing
  <2>6. CASE pc' = "push_back"
    <3>1. k' = k
      BY <1>1, <2>6
    <3> QED BY <1>0, <2>1, <2>3, <2>4, <2>6, <3>1 DEF Rings, timerVars, Pushing
  <2>7. CASE pc' = "push"
    <3>1. k' = k + 1 /\ ~on[active[k]]
      BY <1>1, <2>7
    <3>2. \A i \in 1..Len(active) :
             IF i < k + 1 THEN Passed(active[i]) ELSE Ahead(active[i])
      BY <1>2, <2>2, <2>3, <3>1
    <3> QED BY <1>0, <2>1, <2>4, <2>7, <3>1, <3>2 DEF Rings, timerVars, Pushing
  <2> QED BY <1>1, <2>5, <2>6, <2>7
<1>6. NotDropped'
  BY <1>0, <1>1, <1>2 DEF TMInv, NotDropped, timerVars, histVars
<1>7. Covers'
  BY <1>0, <1>1 DEF Covers
<1>8. Counted'
  <2>1. Live' = Live
    BY <1>0 DEF Live, timerVars, histVars
  <2> QED BY <1>0, <1>1, <2>1 DEF TMInv, Counted, histVars
<1> QED BY <1>3, <1>4, <1>5, <1>6, <1>7, <1>8 DEF TMInv

(* The arithmetic of the n-th multiple.                                    *)
LEMMA NextMultiple ==
  ASSUME NEW n \in Nat, NEW d \in Nat
  PROVE  (n + 1) * d = n * d + d
OBVIOUS

LEMMA R_triggerPush ==
  ASSUME TMInv, TypeOK', triggerPush
  PROVE  TMInv'
<1> SUFFICES ASSUME NEW t, t = active[k] PROVE TMInv'
  OBVIOUS
<1>0. /\ TypeOK /\ pc = "push_back" /\ pc' = "push" /\ arg = NoTimer
      /\ k <= Len(active) /\ k' = k + 1
      /\ rung' = [rung EXCEPT ![t] = @ + 1]
      /\ UNCHANGED <<now, timerVars, active, arg, deadline, pending,
                     idleTerm, cancelling, cancelled, start, late>>
  BY DEF TMInv, Stage, Rounds, Pushing, triggerPush
<1>1. /\ Len(active) \in Nat /\ k \in 1..Len(active)
      /\ DOMAIN active = 1..Len(active)
      /\ \A i \in 1..Len(active) : active[i] \in Timers
  BY <1>0, ActiveTyped
<1>2. /\ t \in Timers /\ t \notin timers
      /\ \A i \in 1..Len(active) : active[i] = t => i = k
  BY <1>0, <1>1 DEF TMInv, Round
<1>3. Ahead(t) /\ expiration[t] # 0
  BY <1>0, <1>1 DEF TMInv, Rings, Created, Pushing
<1>4. /\ rung'[t] = rung[t] + 1 /\ rung[t] \in Nat /\ interval[t] \in Nat
      /\ expiration[t] \in Nat /\ start[t] \in Nat
      /\ \A u \in Timers : u # t => rung'[u] = rung[u]
  BY <1>0, <1>2 DEF TypeOK
<1>5. Stage' /\ OnOff' /\ Round'
  BY <1>0 DEF TMInv, Stage, OnOff, Round, timerVars, Rounds, Pushing
<1>6. Created'
  <2>1. \A u \in Timers : expiration[u] = 0 => rung'[u] = 0
    BY <1>3, <1>4 DEF TMInv, Created
  <2> QED BY <1>0, <2>1 DEF TMInv, Created, timerVars
<1>7. Rings'
  <2>1. \A u \in Timers : u # t => (Ahead(u)' <=> Ahead(u)) /\ (Passed(u)' <=> Passed(u))
    BY <1>0, <1>4 DEF Ahead, Passed, timerVars
  <2>2. Passed(t)'
    <3>1. rung'[t] * interval[t] = rung[t] * interval[t] + interval[t]
      BY <1>4, NextMultiple
    <3>2. rung[t] * interval[t] \in Nat
      BY <1>4
    <3>3. expiration[t] = start[t] + rung[t] * interval[t]
      BY <1>3 DEF Ahead
    <3> DEFINE p == rung[t] * interval[t]
               q == rung'[t] * interval[t]
    <3> HIDE DEF p, q
    <3>4. q = p + interval[t] /\ p \in Nat /\ expiration[t] = start[t] + p
      BY <3>1, <3>2, <3>3 DEF p, q
    <3>5. expiration[t] + interval[t] = start[t] + q /\ rung'[t] > 0
      BY <1>4, <3>4
    <3> QED BY <1>0, <3>5 DEF Passed, timerVars, q
  <2>3. \A i \in 1..Len(active) : IF i < k THEN Passed(active[i]) ELSE Ahead(active[i])
    BY <1>0 DEF TMInv, Rings, Pushing
  <2>4. \A u \in timers : Ahead(u)'
    BY <1>0, <1>2, <2>1 DEF TMInv, Rings, TypeOK
  <2>5. active[k] = t
    OBVIOUS
  <2>6. \A i \in 1..Len(active) :
           IF i < k + 1 THEN Passed(active[i])' ELSE Ahead(active[i])'
    <3> SUFFICES ASSUME NEW i \in 1..Len(active)
                 PROVE  IF i < k + 1 THEN Passed(active[i])' ELSE Ahead(active[i])'
      OBVIOUS
    <3>1. active' = active
      BY <1>0
    <3>2. CASE i = k
      BY <1>1, <2>2, <2>5, <3>1, <3>2
    <3>3. CASE i # k
      <4>1. active[i] # t /\ active[i] \in Timers
        BY <1>1, <1>2, <3>3
      <4>2. (i < k + 1 <=> i < k)
        BY <1>1, <3>3
      <4> QED BY <2>1, <2>3, <3>1, <4>1, <4>2
    <3> QED BY <3>2, <3>3
  <2> QED BY <1>0, <2>4, <2>6 DEF Rings, timerVars
<1>8. NotDropped'
  <2>1. \A u \in Timers : rung'[u] = 0 => rung[u] = 0
    BY <1>4
  <2> QED BY <1>0, <2>1 DEF TMInv, NotDropped, timerVars
<1>9. Covers'
  BY <1>0 DEF Covers
<1>10. Counted'
  <2>1. Live' = Live
    BY <1>0 DEF Live, timerVars
  <2> QED BY <1>0, <2>1 DEF TMInv, Counted, histVars
<1> QED BY <1>5, <1>6, <1>7, <1>8, <1>9, <1>10 DEF TMInv

LEMMA R_resetTimer ==
  ASSUME TMInv, TypeOK', resetTimer
  PROVE  TMInv'
<1> SUFFICES ASSUME NEW t, t = active[k] PROVE TMInv'
  OBVIOUS
<1>0. /\ TypeOK /\ pc = "reset" /\ pc' = pc /\ arg = NoTimer
      /\ k <= Len(active) /\ k' = k + 1
      /\ UNCHANGED <<now, interval, on, active, arg, deadline, pending,
                     idleTerm, cancelling, histVars>>
      /\ IF on[t] /\ interval[t] > 0
         THEN /\ expiration' = [expiration EXCEPT ![t] = @ + interval[t]]
              /\ timers' = timers \cup {t}
         ELSE expiration' = expiration /\ timers' = timers
  BY DEF TMInv, Stage, Rounds, Pushing, resetTimer, repeat
<1>1. /\ Len(active) \in Nat /\ k \in 1..Len(active)
      /\ DOMAIN active = 1..Len(active)
      /\ \A i \in 1..Len(active) : active[i] \in Timers
  BY <1>0, ActiveTyped
<1>2. /\ t \in Timers /\ t \notin timers
      /\ \A i \in 1..Len(active) : active[i] = t => i = k
  BY <1>0, <1>1 DEF TMInv, Round
<1>3. Passed(t) /\ expiration[t] # 0
  BY <1>0, <1>1 DEF TMInv, Rings, Created
<1>4. active[k] = t
  OBVIOUS
<1>5. /\ expiration[t] \in Nat /\ interval[t] \in Nat /\ timers \subseteq Timers
      /\ cancelled \subseteq Timers
      /\ expiration'[t] \in Nat \ {0}
      /\ \A u \in Timers : u # t => expiration'[u] = expiration[u]
  <2>1. /\ expiration \in [Timers -> Nat] /\ interval \in [Timers -> Nat]
        /\ timers \subseteq Timers /\ cancelled \subseteq Timers
    BY <1>0 DEF TypeOK
  <2>2. \/ expiration' = [expiration EXCEPT ![t] = @ + interval[t]]
        \/ expiration' = expiration
    BY <1>0
  <2> QED BY <1>2, <1>3, <2>1, <2>2
<1>6. on[t] /\ interval[t] > 0 => expiration'[t] = expiration[t] + interval[t]
  BY <1>0, <1>2 DEF TypeOK
<1>7. Stage'
  BY <1>0 DEF Stage, Rounds
<1>8. \A u \in Timers : expiration'[u] = 0 <=> expiration[u] = 0
  BY <1>3, <1>5
<1>9. Created'
  BY <1>0, <1>1, <1>2, <1>3, <1>8 DEF TMInv, Created, histVars
<1>10. OnOff'
  BY <1>0, <1>1, <1>4, <1>8 DEF TMInv, OnOff, histVars
<1>11. Round'
  <2>1. \A i \in 1..Len(active) : active[i] \in timers' => i < k + 1
    BY <1>0, <1>1, <1>2 DEF TMInv, Round
  <2> QED BY <1>0, <2>1 DEF TMInv, Round, Pushing
<1>12. Rings'
  <2>1. \A u \in Timers : u # t => (Ahead(u)' <=> Ahead(u)) /\ (Passed(u)' <=> Passed(u))
    BY <1>0, <1>5 DEF Ahead, Passed, histVars
  <2>2. on[t] /\ interval[t] > 0 => Ahead(t)'
    BY <1>0, <1>3, <1>5, <1>6 DEF Ahead, Passed, histVars
  <2>3. \A u \in timers' : Ahead(u)'
    BY <1>0, <1>2, <1>5, <2>1, <2>2 DEF TMInv, Rings
  <2>4. \A i \in 1..Len(active) : i >= k + 1 => Passed(active[i])'
    <3> SUFFICES ASSUME NEW i \in 1..Len(active), i >= k + 1
                 PROVE  Passed(active[i])'
      OBVIOUS
    <3>1. active[i] # t /\ active[i] \in Timers /\ i >= k /\ active' = active
      BY <1>0, <1>1, <1>2
    <3>2. Passed(active[i])
      BY <1>0, <3>1 DEF TMInv, Rings
    <3> QED BY <2>1, <3>1, <3>2
  <2> QED BY <1>0, <2>3, <2>4 DEF Rings, Pushing
<1>13. NotDropped'
  <2> SUFFICES ASSUME NEW u \in Timers, expiration'[u] # 0, u \notin cancelled,
                      interval[u] > 0 \/ rung[u] = 0
               PROVE  \/ u \in timers'
                      \/ \E i \in DOMAIN active : active[i] = u /\ i >= k + 1
    BY <1>0 DEF NotDropped, histVars
  <2>1. CASE u = t
    <3>1. on[t]
      BY <1>0, <1>2, <1>3, <2>1, NoTimerAssumption DEF TMInv, OnOff
    <3>2. interval[t] > 0
      BY <1>3, <2>1, <3>1 DEF Passed
    <3> QED BY <1>0, <2>1, <3>1, <3>2
  <2>2. CASE u # t
    <3>1. \/ u \in timers
          \/ \E i \in DOMAIN active : active[i] = u /\ i >= k
      BY <1>0, <1>8 DEF TMInv, NotDropped
    <3>2. \A i \in DOMAIN active : active[i] = u /\ i >= k => i >= k + 1
      BY <1>1, <1>4, <2>2
    <3> QED BY <1>0, <3>1, <3>2
  <2> QED BY <2>1, <2>2
<1>14. Covers'
  BY <1>0 DEF Covers
<1>15. Counted'
  <2>1. Live' = Live
    BY <1>0, <1>8 DEF Live, histVars
  <2> QED BY <1>0, <2>1 DEF TMInv, Counted, histVars
<1> QED BY <1>7, <1>9, <1>10, <1>11, <1>12, <1>13, <1>14, <1>15 DEF TMInv

LEMMA R_resetTimerEnd ==
  ASSUME TMInv, TypeOK', resetTimerEnd
  PROVE  TMInv'
<1>0. /\ TypeOK /\ pc = "reset" /\ arg = NoTimer /\ k > Len(active)
      /\ active' = <<>> /\ pc' = IF timers = {} THEN "fiber" ELSE "settime"
      /\ UNCHANGED <<now, timerVars, arg, deadline, pending, idleTerm,
                     cancelling, histVars>>
  BY DEF TMInv, Stage, Rounds, Pushing, resetTimerEnd
<1>1. Stage' /\ Created' /\ OnOff' /\ Round'
  BY <1>0 DEF TMInv, Stage, Created, OnOff, Round, timerVars, histVars, Rounds,
              Pushing
<1>2. Rings'
  BY <1>0 DEF TMInv, Rings, Ahead, timerVars, histVars, Pushing
<1>3. NotDropped'
  <2>1. \A i \in DOMAIN active : ~ (i >= k)
    BY <1>0, ActiveTyped
  <2> QED BY <1>0, <2>1 DEF TMInv, NotDropped, timerVars, histVars
<1>4. Covers'
  BY <1>0 DEF Covers, timerVars
<1>5. Counted'
  <2>1. Live' = Live
    BY <1>0 DEF Live, timerVars, histVars
  <2> QED BY <1>0, <2>1 DEF TMInv, Counted, histVars
<1> QED BY <1>1, <1>2, <1>3, <1>4, <1>5 DEF TMInv

(* The destructor may find timers: those of the last round.                *)
LEMMA R_destroy ==
  ASSUME TMInv, TypeOK', destroy
  PROVE  TMInv'
<1>0. /\ pc = "exit" /\ pc' = "gone" /\ timers' = {} /\ arg = NoTimer
      /\ active = <<>>
      /\ UNCHANGED <<now, expiration, interval, on, active, k, arg, pending,
                     idleTerm, cancelling, histVars>>
  BY DEF TMInv, Stage, Rounds, Pushing, destroy
<1>1. Stage' /\ Created' /\ OnOff' /\ Round'
  BY <1>0 DEF TMInv, Stage, Created, OnOff, Round, histVars, Rounds, Pushing
<1>2. Rings' /\ Covers' /\ NotDropped'
  BY <1>0 DEF Rings, Covers, NotDropped, Pushing
<1>3. Counted'
  <2>1. Live' = Live
    BY <1>0 DEF Live, histVars
  <2> QED BY <1>0, <2>1 DEF TMInv, Counted, histVars
<1> QED BY <1>1, <1>2, <1>3 DEF TMInv

-----------------------------------------------------------------------------
LEMMA TMInvInit == Init => TMInv
<1> SUFFICES ASSUME Init PROVE TMInv
  OBVIOUS
<1>1. TypeOK
  <2>1. now \in 1..MaxTime
    BY TimerAssumption DEF Init
  <2>2. active \in Seq(Timers) /\ tasks \in Seq(Timers) /\ k \in 1..Len(active) + 1
    BY DEF Init
  <2> QED BY <2>1, <2>2 DEF Init, TypeOK, PCs
<1>2. Stage /\ Created /\ OnOff /\ Round
  BY NoTimerAssumption DEF Init, Stage, Created, OnOff, Round, Rounds, Pushing
<1>3. Rings /\ NotDropped /\ Covers
  BY DEF Init, Rings, NotDropped, Covers, Pushing
<1>4. Counted
  <2>1. Live = {}
    BY DEF Init, Live
  <2> QED BY <2>1, FS_EmptySet DEF Init, Counted
<1> QED BY <1>1, <1>2, <1>3, <1>4 DEF TMInv

(* Every registration is one with a time after the epoch.                  *)
LEMMA Registrations ==
  ASSUME TypeOK, NEW t \in Timers,
         \/ \E ts \in 1..MaxTime : runAt(t, ts)
         \/ \E d \in 0..MaxTime - now : runAfter(t, d)
         \/ \E d \in 1..MaxTime - now : runEvery(t, d)
  PROVE  \E ts \in Nat \ {0}, i \in Nat : registerTimer(t, ts, i)
<1>0. now \in Nat \ {0}
  BY DEF TypeOK
<1>1. CASE \E ts \in 1..MaxTime : runAt(t, ts)
  <2>1. PICK ts \in 1..MaxTime : registerTimer(t, ts, 0)
    BY <1>1 DEF runAt
  <2>2. ts \in Nat \ {0} /\ 0 \in Nat
    OBVIOUS
  <2> QED BY <2>1, <2>2
<1>2. CASE \E d \in 0..MaxTime - now : runAfter(t, d)
  <2>1. PICK d \in 0..MaxTime - now : registerTimer(t, now + d, 0)
    BY <1>2 DEF runAfter
  <2>2. now + d \in Nat \ {0} /\ 0 \in Nat
    BY <1>0
  <2> QED BY <2>1, <2>2
<1>3. CASE \E d \in 1..MaxTime - now : runEvery(t, d)
  <2>1. PICK d \in 1..MaxTime - now : registerTimer(t, now + d, d)
    BY <1>3 DEF runEvery
  <2>2. now + d \in Nat \ {0} /\ d \in Nat
    BY <1>0
  <2> QED BY <2>1, <2>2
<1> QED BY <1>1, <1>2, <1>3

LEMMA TMInvNext == TMInv /\ [Next]_vars => TMInv'
<1> SUFFICES ASSUME TMInv, [Next]_vars PROVE TMInv'
  OBVIOUS
<1>0. TypeOK
  BY DEF TMInv
<1>1. CASE worker \/ wakeOther \/ stopCall \/ destroy \/ tick
  <2>0. TypeOK'
    BY <1>1, TypeWorker
  <2>1. CASE resetTimerFd
    BY <2>0, <2>1, R_resetTimerFd
  <2>2. CASE enable
    BY <2>0, <2>2, R_enable
  <2>3. CASE idleQuit \/ exit \/ idleWait \/ onTime \/ wakeOther
    <3>1. /\ UNCHANGED <<roundVars, now, deadline>>
          /\ pc = "fiber" \/ pc = "wait"
          /\ pc' \in {"wait", "fiber", "trigger", "exit"}
          /\ idleTerm' = idleTerm \/ pending = 0
      BY <2>3 DEF idleQuit, exit, idleWait, onTime, wakeOther, roundVars
    <3> QED BY <2>0, <3>1, PcOnly
  <2>4. CASE triggerTimer
    BY <2>0, <2>4, R_triggerTimer
  <2>5. CASE triggerNext
    BY <2>0, <2>5, R_triggerNext
  <2>6. CASE triggerPush
    BY <2>0, <2>6, R_triggerPush
  <2>7. CASE resetTimer
    BY <2>0, <2>7, R_resetTimer
  <2>8. CASE resetTimerEnd
    BY <2>0, <2>8, R_resetTimerEnd
  <2>9. CASE takeTask \/ stopCall \/ tick
    <3>1. /\ UNCHANGED <<roundVars, deadline, idleTerm, pc>>
          /\ now' = now \/ now' = now + 1
      BY <2>9 DEF takeTask, stopCall, tick, roundVars
    <3>2. now' >= now
      BY <1>0, <3>1 DEF TypeOK
    <3> QED BY <2>0, <3>1, <3>2, Quiet
  <2>10. CASE destroy
    BY <2>0, <2>10, R_destroy
  <2> QED
    BY <1>1, <2>1, <2>2, <2>3, <2>4, <2>5, <2>6, <2>7, <2>8, <2>9, <2>10 DEF worker
<1>2. ASSUME NEW t \in Timers,
             \/ \E ts \in 1..MaxTime : runAt(t, ts)
             \/ \E d \in 0..MaxTime - now : runAfter(t, d)
             \/ \E d \in 1..MaxTime - now : runEvery(t, d)
      PROVE  TMInv'
  <2>1. PICK ts \in Nat \ {0}, i \in Nat : registerTimer(t, ts, i)
    BY <1>0, <1>2, Registrations
  <2> QED BY <2>1, R_register
<1>3. ASSUME NEW t \in Timers, cancellTimer(t) \/ unregisterEvent(t)
      PROVE  TMInv'
  BY <1>3, R_cancellTimer, R_unregisterEvent
<1>4. CASE UNCHANGED vars
  <2>1. TypeOK'
    BY <1>0, <1>4 DEF TypeOK, vars, timerVars, histVars
  <2>2. UNCHANGED <<roundVars, deadline, idleTerm, pc>> /\ now' >= now
    BY <1>0, <1>4 DEF TypeOK, vars, roundVars
  <2> QED BY <2>1, <2>2, Quiet
<1> QED BY <1>1, <1>2, <1>3, <1>4 DEF Next

LEMMA TMInvAlways == Spec => []TMInv
BY TMInvInit, TMInvNext, PTL DEF Spec

(* The timers, the timerfd and the control of the worker keep their types; *)
(* in particular pending_event_count_ does not wrap below zero however     *)
(* expirations, cancellations and stop() interleave.                       *)
THEOREM TypeCorrect == Spec => []TypeOK
<1>1. TMInv => TypeOK
  BY DEF TMInv
<1> QED BY <1>1, TMInvAlways, PTL

(* resetTimerFd() is called whenever it has to be: outside the handlers    *)
(* the timerfd is set for the first timer, if that one is in the future.   *)
THEOREM TimerfdIsSet == Spec => []TimerfdCovers
<1>1. TMInv => TimerfdCovers
  BY DEF TMInv, Covers, TimerfdCovers
<1> QED BY <1>1, TMInvAlways, PTL

(* triggerTimer() and resetTimer() lose no timer that nobody cancelled.    *)
THEOREM NoTimerDropped == Spec => []NotDropped
<1>1. TMInv => NotDropped
  BY DEF TMInv
<1> QED BY <1>1, TMInvAlways, PTL

(* idle() returns only when every timer was cancelled, and what is left    *)
(* behind was registered after that, in the last round of run().           *)
THEOREM StopWaits == Spec => []StopWaitsForTimers
<1>1. TMInv => StopWaitsForTimers
  BY DEF TMInv, Counted, Live, StopWaitsForTimers
<1> QED BY <1>1, TMInvAlways, PTL

-----------------------------------------------------------------------------
(***************************************************************************)
(* The refinement                                                          *)
(***************************************************************************)
ringing == IF pc = "push_back" THEN {active[k]} ELSE {}
off     == cancelled \ cancelling

(* what an Alarm does not see                                              *)
LEMMA Stutters ==
  ASSUME UNCHANGED <<now, start, interval, off, ringing, rung>>
  PROVE  UNCHANGED Alarms!alarmVars
BY DEF Alarms!alarmVars, off, ringing

LEMMA A_register ==
  ASSUME TMInv, NEW t \in Timers, NEW ts \in Nat \ {0}, NEW i \in Nat,
         registerTimer(t, ts, i)
  PROVE  Alarms!Next
<1>1. start[t] = 0 /\ start \in [Timers -> Nat] /\ interval \in [Timers -> Nat]
  BY DEF TMInv, TypeOK, Created, registerTimer
<1>2. /\ start' = [start EXCEPT ![t] = ts] /\ interval' = [interval EXCEPT ![t] = i]
      /\ UNCHANGED <<now, cancelled, cancelling, rung, active, k>>
      /\ pc = "fiber" /\ pc' \in {"settime", "enable"}
  BY DEF registerTimer, insert
<1>3. start'[t] = ts /\ interval'[t] = i
  BY <1>1, <1>2
<1>4. Alarms!Set(t)
  BY <1>1, <1>2, <1>3 DEF Alarms!Set
<1> QED BY <1>4 DEF Alarms!Next

LEMMA A_cancel ==
  ASSUME TMInv, NEW t \in Timers, unregisterEvent(t)
  PROVE  Alarms!Next
<1>1. cancelling \subseteq cancelled
  BY DEF TMInv, TypeOK
<1>2. off' = off \cup {t}
  BY <1>1 DEF unregisterEvent, histVars, off
<1>3. Alarms!Cancel(t)
  BY <1>2 DEF Alarms!Cancel, unregisterEvent, histVars, off
<1> QED BY <1>3 DEF Alarms!Next

(* The decision to ring: the loop of triggerTimer finds the timer on.      *)
LEMMA A_decide ==
  ASSUME TMInv, triggerNext, pc' = "push_back"
  PROVE  Alarms!Next
<1> SUFFICES ASSUME NEW t, t = active[k] PROVE Alarms!Next
  OBVIOUS
<1>0. TypeOK /\ pc = "push" /\ UNCHANGED <<now, timerVars, active, histVars, cancelling>>
  BY DEF TMInv, triggerNext
<1>1. k \in 1..Len(active) /\ on[t] /\ k' = k
  <2>1. Len(active) \in Nat /\ k \in Nat /\ k >= 1
    BY <1>0, ActiveTyped
  <2> QED BY <2>1 DEF triggerNext
<1>2. t \in Timers /\ expiration[t] # 0 /\ start[t] # 0
  BY <1>0, <1>1, ActiveTyped DEF TMInv, Created
<1>3. t \notin cancelled \ cancelling
  BY <1>1 DEF TMInv, OnOff
<1>4. expiration[t] <= now
  BY <1>0, <1>1 DEF TMInv, Round, Pushing
<1>5. Ahead(t)
  <2>1. ~ (k < k)
    BY <1>1
  <2> QED BY <1>0, <1>1, <2>1 DEF TMInv, Rings, Pushing
<1>6. start[t] + rung[t] * interval[t] <= now
  BY <1>4, <1>5 DEF Ahead
<1>7. interval[t] > 0 \/ rung[t] = 0
  BY <1>0, <1>2, <1>5 DEF Ahead, TypeOK
<1>8. ringing = {} /\ ringing' = {t}
  BY <1>0, <1>1 DEF ringing
<1>9. Alarms!Decide(t)
  BY <1>0, <1>2, <1>3, <1>6, <1>7, <1>8
     DEF Alarms!Decide, ringing, timerVars, histVars
<1> QED BY <1>2, <1>9 DEF Alarms!Next

LEMMA A_ring ==
  ASSUME TMInv, triggerPush
  PROVE  Alarms!Next
<1> SUFFICES ASSUME NEW t, t = active[k] PROVE Alarms!Next
  OBVIOUS
<1>1. t \in Timers
  BY ActiveTyped DEF TMInv, Stage, triggerPush
<1>2. ringing = {t} /\ ringing' = {}
  BY DEF ringing, triggerPush
<1>3. Alarms!Ring(t)
  BY <1>2 DEF Alarms!Ring, triggerPush, ringing, timerVars
<1> QED BY <1>1, <1>3 DEF Alarms!Next

LEMMA StepRefines ==
  TMInv /\ [Next]_vars => [Alarms!Next]_(Alarms!alarmVars)
<1> SUFFICES ASSUME TMInv, [Next]_vars PROVE Alarms!Next \/ UNCHANGED Alarms!alarmVars
  OBVIOUS
<1>0. TypeOK
  BY DEF TMInv
<1>1. CASE tick
  <2>1. now' > now
    BY <1>0, <1>1 DEF tick, TypeOK
  <2>2. Alarms!Tick
    BY <1>1, <2>1 DEF Alarms!Tick, tick, timerVars, histVars
  <2> QED BY <2>2 DEF Alarms!Next
<1>2. CASE triggerNext
  <2>1. CASE pc' # "push_back"
    BY <1>2, <2>1, Stutters DEF triggerNext, ringing, off, timerVars, histVars
  <2> QED BY <1>2, <2>1, A_decide
<1>3. CASE triggerPush
  BY <1>3, A_ring
<1>4. CASE \/ resetTimerFd \/ enable \/ idleQuit \/ exit \/ idleWait
           \/ wakeOther \/ onTime
  BY <1>4, Stutters DEF resetTimerFd, enable, idleQuit, exit, idleWait, wakeOther,
                        onTime, ringing, off, timerVars, histVars
<1>5. CASE triggerTimer \/ resetTimer \/ resetTimerEnd \/ destroy
  BY <1>5, Stutters DEF triggerTimer, resetTimer, resetTimerEnd, destroy, ringing,
                        off, timerVars, histVars
<1>6. CASE takeTask \/ stopCall
  BY <1>6, Stutters DEF takeTask, stopCall, ringing, off, timerVars, histVars
<1>7. ASSUME NEW t \in Timers,
             \/ \E ts \in 1..MaxTime : runAt(t, ts)
             \/ \E d \in 0..MaxTime - now : runAfter(t, d)
             \/ \E d \in 1..MaxTime - now : runEvery(t, d)
      PROVE  Alarms!Next
  <2>1. PICK ts \in Nat \ {0}, i \in Nat : registerTimer(t, ts, i)
    BY <1>0, <1>7, Registrations
  <2> QED BY <2>1, A_register
<1>8. ASSUME NEW t \in Timers, cancellTimer(t)
      PROVE  UNCHANGED Alarms!alarmVars
  <2>1. off' = off
    BY <1>8 DEF cancellTimer, off
  <2> QED BY <1>8, <2>1, Stutters DEF cancellTimer, ringing, timerVars
<1>9. ASSUME NEW t \in Timers, unregisterEvent(t)
      PROVE  Alarms!Next
  BY <1>9, A_cancel
<1>10. CASE UNCHANGED vars
  BY <1>10, Stutters DEF vars, ringing, off, timerVars, histVars
<1> QED
  BY <1>1, <1>2, <1>3, <1>4, <1>5, <1>6, <1>7, <1>8, <1>9, <1>10 DEF Next, worker

(* TimerManager implements Alarm: no callback is queued early, twice for a *)
(* single timer, or for a timer whose cancellation had returned before     *)
(* triggerTimer looked at it, and the n-th callback of a repeating timer   *)
(* belongs to the n-th multiple of its interval, however late the worker.  *)
THEOREM ImplementsAlarm == Spec => Refinement
<1>1. Init => Alarms!Init
  BY DEF Init, Alarms!Init
<1> QED BY <1>1, TMInvAlways, StepRefines, PTL DEF Spec, Refinement, Alarms!Spec
=============================================================================
