-------------------------- MODULE VIATimers_proof --------------------------
(***************************************************************************)
(* The timers of a VIA, for counters of any width and any costs of the     *)
(* instructions: a timer that can interrupt has its task waiting for the   *)
(* very time at which its count runs out, and then it does interrupt.      *)
(* The timers and their CPU loop keep the scheduler's invariant, which is  *)
(* proved in Interrupts_proof and used here; what that module says of      *)
(* interrupts is not, so its lines are constants.                          *)
(***************************************************************************)
EXTENDS VIATimers, TLAPS

S == INSTANCE Interrupts_proof WITH
    MacII <- TRUE, Highs <- {}, TraceCost <- 0, InterruptCost <- 0,
    lines <- {}, curIPL <- 0, intmask <- 7, t1 <- FALSE, pending <- FALSE, tracePending <- FALSE

---------------------------------------------------------------------------
(* The inductive invariant.                                                *)

Timer1 == [count : 0..(Wrap - 1), latch : Loads \cup {0}, active : BOOLEAN, ready : BOOLEAN,
           running : BOOLEAN, last : Int, irq : BOOLEAN, free : BOOLEAN]
Timer2 == [count : 0..(Wrap - 1), active : BOOLEAN, short : BOOLEAN, running : BOOLEAN,
           last : Int, irq : BOOLEAN]

(* T1IntReady is up to date whenever timer 1 runs, so that checkT1IntReady *)
(* looks at a timer that begins to count, and only at one.                 *)
ReadyKnown == t1.running => (t1.ready <=> Counting1(t1))

(* The timers run except in extra time.                                    *)
Frozen == extra \in BOOLEAN /\ (t1.running <=> ~extra) /\ (t2.running <=> ~extra)

Own == TypeOK /\ DeadlineMatchesCount /\ ReadyKnown /\ Frozen

IInv == S!IInv /\ Own

---------------------------------------------------------------------------
(* The scheduler.                                                          *)

LEMMA Constants ==
    /\ Sched!SchedulerAssumption /\ Loads \subseteq Nat
    /\ Steps \in Nat /\ Steps > 1 /\ Wrap \in Nat \ {0} /\ Wrap > Steps
    /\ StepCycles \in Nat \ {0} /\ TimeWrap \in Nat \ {0} /\ TimeWrap > Wrap * StepCycles
    /\ ShortLoad \in Nat
BY VIAAssumption

(* The constants meet the assumptions of the scheduler and the interrupts. *)
LEMMA SchedAssumption == S!SchedulerAssumption /\ S!InterruptAssumption
BY Constants DEF Sched!SchedulerAssumption, S!SchedulerAssumption, S!InterruptAssumption

(* Sched and S are two instances of the same module.                       *)
LEMMA SameStep == [Sched!Next]_Sched!vars <=> [S!Next]_S!vars
BY DEF Sched!OutsideAdd, S!OutsideAdd, Sched!Zap, S!Zap, Sched!StartRun, S!StartRun,
       Sched!Dispatch, S!Dispatch, Sched!BeginSlice, S!BeginSlice,
       Sched!EnterMaxCycles, S!EnterMaxCycles, Sched!ExecuteAdd, S!ExecuteAdd,
       Sched!NeedToGetOut, S!NeedToGetOut, Sched!EndExecute, S!EndExecute,
       Sched!DecodeNext, S!DecodeNext, Sched!LeaveMaxCycles, S!LeaveMaxCycles,
       Sched!EndSlice, S!EndSlice, Sched!addIdle, S!addIdle, Sched!add, S!add,
       Sched!Arming, S!Arming, Sched!NoDelay, S!NoDelay, Sched!IsDue, S!IsDue,
       Sched!doGetNext, S!doGetNext, Sched!getCyclesRemaining, S!getCyclesRemaining,
       Sched!getCurrent, S!getCurrent, Sched!setCyclesRemaining, S!setCyclesRemaining,
       Sched!ictVars, S!ictVars, Sched!cpuVars, S!cpuVars,
       Sched!Running, S!Running, Sched!Next, S!Next, Sched!vars, S!vars

(* A step of the scheduler preserves the scheduler's invariant.            *)
LEMMA SchedInv == S!IInv /\ [Sched!Next]_Sched!vars => S!IInv'
BY SameStep, SchedAssumption, S!NextIInv

LEMMA SchedOutside ==
    ASSUME S!IInv, NEW delay, DOMAIN delay \subseteq Tasks,
           \A t \in DOMAIN delay : delay[t] \in Delays, Sched!OutsideAdd(delay)
    PROVE  S!IInv'
<1>1. S!OutsideAdd(delay)
  BY DEF Sched!OutsideAdd, S!OutsideAdd, Sched!addIdle, S!addIdle
<1> QED
  BY <1>1, SchedAssumption, S!OutsideStep

(* Handlers and notifications read the time at which the slice ended.      *)
LEMMA SchedFacts ==
    ASSUME S!IInv
    PROVE  /\ active \subseteq Tasks /\ when \in [Tasks -> Int] /\ nextCount \in Int
           /\ maxCycles \in Int /\ moreCycles \in Int /\ now \in Int
           /\ pc \in {"outside", "dispatch"} => now = nextCount
<1>1. /\ active \subseteq Tasks /\ when \in [Tasks -> Int] /\ nextCount \in Int
      /\ maxCycles \in Int /\ moreCycles \in Int
      /\ pc \in {"outside", "dispatch"} => maxCycles = 0 /\ moreCycles = 0
  BY DEF S!IInv, S!TypeOK, S!IdleCPU
<1> QED
  BY <1>1 DEF now, Sched!getCurrent, Sched!getCyclesRemaining

---------------------------------------------------------------------------
(* A look at a timer.                                                      *)

LEMMA ModWrap == \A i \in Int : (i % Wrap) \in 0..(Wrap - 1)
BY Constants

LEMMA ZeroCount == 0 \in 0..(Wrap - 1)
BY Constants

LEMMA DelayOfCount == \A c \in 0..(Wrap - 1) : UntilExpiry(c) \in Delays
<1> SUFFICES ASSUME NEW c \in 0..(Wrap - 1) PROVE UntilExpiry(c) \in Delays
  OBVIOUS
<1>1. PICK k \in 1..Wrap : UntilExpiry(c) = k * StepCycles
  <2>1. CASE c = 0
    BY <2>1, Constants DEF UntilExpiry
  <2>2. CASE c # 0
    <3>1. 1 + c \in 1..Wrap /\ UntilExpiry(c) = (1 + c) * StepCycles
      BY <2>2, Constants DEF UntilExpiry
    <3> QED
      BY <3>1
  <2> QED
    BY <2>1, <2>2
<1> QED
  BY <1>1 DEF Delays

(* How long ago the last look was, also if the clock wrapped since.        *)
LEMMA ElapsedFacts ==
    ASSUME NEW t, t.last \in Int, t.count \in 0..(Wrap - 1), now \in Int
    PROVE  /\ Elapsed(t) \in 0..(TimeWrap - 1) /\ ElapsedSteps(t) \in 0..(Wrap - 1)
           /\ CountedDown(t) \in 0..(Wrap - 1)
           /\ t.last = now => Elapsed(t) = 0
<1>1. now - t.last \in Int
  OBVIOUS
<1> DEFINE ago == now - t.last
<1>2. ago % TimeWrap \in 0..(TimeWrap - 1) /\ (t.last = now => ago % TimeWrap = 0)
  <2>1. t.last = now => ago = 0
    OBVIOUS
  <2> HIDE DEF ago
  <2>2. ago \in Int
    BY <1>1 DEF ago
  <2> QED
    BY <2>1, <2>2, Constants
<1>3. Elapsed(t) \in 0..(TimeWrap - 1) /\ (t.last = now => Elapsed(t) = 0)
  BY <1>2 DEF Elapsed
<1>4. ElapsedSteps(t) \in 0..(Wrap - 1)
  <2> DEFINE e == Elapsed(t) \div StepCycles
  <2>1. e \in Int
    BY <1>3, Constants
  <2> HIDE DEF e
  <2>2. (e % Wrap) \in 0..(Wrap - 1)
    BY <2>1, ModWrap
  <2> QED
    BY <2>2 DEF ElapsedSteps, e
<1>5. CountedDown(t) \in 0..(Wrap - 1)
  BY <1>4, ModWrap DEF CountedDown
<1> QED
  BY <1>3, <1>4, <1>5

LEMMA ReloadedFacts ==
    ASSUME NEW t, t.last \in Int, t.count \in 0..(Wrap - 1), t.latch \in Nat, now \in Int
    PROVE  Reloaded(t) \in 0..(Wrap - 1)
<1> DEFINE v == t.latch * Steps
           late == (ElapsedSteps(t) - t.count) % Wrap
           times == IF v = 0 THEN 1 ELSE 1 + (late \div v)
           down == CountedDown(t)
<1>1. v \in Nat /\ down \in Int
  BY Constants, ElapsedFacts
<1>2. late \in Nat
  BY ElapsedFacts, ModWrap
<1> HIDE DEF v, late, down
<1>3. times \in Int
  BY <1>1, <1>2
<1> HIDE DEF times
<1>4. down + v * times \in Int
  BY <1>1, <1>3
<1>5. ((down + v * times) % Wrap) \in 0..(Wrap - 1)
  BY <1>4, ModWrap
<1> QED
  BY <1>5 DEF Reloaded, v, late, times, down

(* What doTimer1Check does to a timer: it is up to date and armed for its  *)
(* own count, and its interrupt is set by an expiry and by nothing else.   *)
LEMMA Check1 ==
    ASSUME NEW t \in Timer1, now \in Int, NEW u, u = doTimer1Check(t)
    PROVE  /\ u \in Timer1 /\ (u.running <=> t.running)
           /\ u.running => u.last = now /\ (u.ready <=> Counting1(u))
           /\ ~t.running => u = t
           /\ DOMAIN Armed1(u) = IF u.running /\ Counting1(u) THEN {T1Task} ELSE {}
           /\ \A x \in DOMAIN Armed1(u) : Armed1(u)[x] = UntilExpiry(u.count)
           /\ \A x \in DOMAIN Armed1(u) : x \in Tasks /\ Armed1(u)[x] \in Delays
           /\ u.irq => t.irq \/ (t.running /\ Elapsed(t) # 0)
           /\ t.running /\ Counting1(t) /\ Elapsed(t) # 0 /\ Expired(t) => u.irq
<1> DEFINE late == Elapsed(t) # 0 /\ Expired(t)
           c == IF late /\ t.free THEN Reloaded(t)
                ELSE IF Elapsed(t) # 0 THEN CountedDown(t) ELSE t.count
           w == [t EXCEPT !.count = c, !.last = now,
                          !.irq = t.irq \/ (late /\ (t.free \/ t.active)),
                          !.active = t.active /\ (t.free \/ ~late)]
<1>1. /\ t.count \in 0..(Wrap - 1) /\ t.latch \in Nat /\ t.last \in Int /\ t.active \in BOOLEAN
      /\ t.irq \in BOOLEAN /\ t.free \in BOOLEAN /\ t.running \in BOOLEAN /\ t.ready \in BOOLEAN
  <2>1. t.latch \in Loads \cup {0}
    BY DEF Timer1
  <2>2. \A l \in Loads \cup {0} : l \in Nat
    BY Constants
  <2> QED
    BY <2>1, <2>2 DEF Timer1
<1>2. c \in 0..(Wrap - 1)
  BY <1>1, ElapsedFacts, ReloadedFacts
<1>3. LookedAt1(t) = [w EXCEPT !.ready = Counting1(w)]
  BY DEF LookedAt1
<1> HIDE DEF c, late
<1>4. /\ w \in Timer1 /\ w.running = t.running /\ w.last = now /\ w.free = t.free
      /\ w.irq = (t.irq \/ (late /\ (t.free \/ t.active)))
  BY <1>1, <1>2 DEF Timer1
<1> HIDE DEF w
<1>5. Counting1(w) \in BOOLEAN
  BY DEF Counting1
<1> DEFINE x == [w EXCEPT !.ready = Counting1(w)]
<1>6. /\ x \in Timer1 /\ x.running = t.running /\ x.last = now /\ x.irq = w.irq
      /\ x.free = w.free /\ x.active = w.active /\ x.ready = Counting1(w)
  BY <1>4, <1>5 DEF Timer1
<1> HIDE DEF x
<1>7. Counting1(x) <=> Counting1(w)
  BY <1>6 DEF Counting1
<1>8. u = IF t.running THEN x ELSE t
  BY <1>3 DEF doTimer1Check, x
<1>9. u \in Timer1 /\ (u.running <=> t.running) /\ (~t.running => u = t)
  BY <1>6, <1>8
<1>10. u.running => u.last = now /\ (u.ready <=> Counting1(u))
  BY <1>6, <1>7, <1>8
<1>11. u.count \in 0..(Wrap - 1)
  BY <1>9 DEF Timer1
<1>12. /\ DOMAIN Armed1(u) = IF u.running /\ Counting1(u) THEN {T1Task} ELSE {}
       /\ \A y \in DOMAIN Armed1(u) : Armed1(u)[y] = UntilExpiry(u.count)
  BY DEF Armed1
<1>13. \A y \in DOMAIN Armed1(u) : y \in Tasks /\ Armed1(u)[y] \in Delays
  BY <1>11, <1>12, DelayOfCount DEF Tasks
<1>14. u.irq => t.irq \/ (t.running /\ Elapsed(t) # 0)
  BY <1>4, <1>6, <1>8 DEF late
<1>15. t.running /\ Counting1(t) /\ Elapsed(t) # 0 /\ Expired(t) => u.irq
  BY <1>4, <1>6, <1>8 DEF late, Counting1
<1> QED
  BY <1>9, <1>10, <1>12, <1>13, <1>14, <1>15

LEMMA Check2 ==
    ASSUME NEW t \in Timer2, now \in Int, NEW u, u = doTimer2Check(t)
    PROVE  /\ u \in Timer2 /\ (u.running <=> t.running)
           /\ u.running \/ u.short => u.last = now
           /\ ~t.running /\ ~t.short => u = t
           /\ DOMAIN Armed2(u) = IF (u.running \/ u.short) /\ u.active THEN {T2Task} ELSE {}
           /\ \A x \in DOMAIN Armed2(u) : Armed2(u)[x] = UntilExpiry(u.count)
           /\ \A x \in DOMAIN Armed2(u) : x \in Tasks /\ Armed2(u)[x] \in Delays
           /\ (t.running \/ t.short) /\ t.active /\ Expired(t) => u.irq
<1> DEFINE late == t.active /\ Expired(t)
           c == CountedDown(t)
           x == [t EXCEPT !.count = c, !.last = now, !.irq = t.irq \/ late,
                          !.active = t.active /\ ~late, !.short = t.short /\ ~late]
<1>1. /\ t.count \in 0..(Wrap - 1) /\ t.last \in Int /\ t.active \in BOOLEAN
      /\ t.irq \in BOOLEAN /\ t.short \in BOOLEAN /\ t.running \in BOOLEAN
  BY DEF Timer2
<1>2. c \in 0..(Wrap - 1)
  BY <1>1, ElapsedFacts
<1>3. LookedAt2(t) = x
  BY DEF LookedAt2
<1> HIDE DEF c, late
<1>4. /\ x \in Timer2 /\ x.running = t.running /\ x.last = now /\ x.irq = (t.irq \/ late)
      /\ x.short = (t.short /\ ~late)
  BY <1>1, <1>2 DEF Timer2
<1> HIDE DEF x
<1>8. u = IF t.running \/ t.short THEN x ELSE t
  BY <1>3 DEF doTimer2Check
<1>9. u \in Timer2 /\ (u.running <=> t.running) /\ (~t.running /\ ~t.short => u = t)
  BY <1>4, <1>8
<1>10. u.running \/ u.short => u.last = now
  BY <1>4, <1>8
<1>11. u.count \in 0..(Wrap - 1)
  BY <1>9 DEF Timer2
<1>12. /\ DOMAIN Armed2(u) = IF (u.running \/ u.short) /\ u.active THEN {T2Task} ELSE {}
       /\ \A y \in DOMAIN Armed2(u) : Armed2(u)[y] = UntilExpiry(u.count)
  BY DEF Armed2
<1>13. \A y \in DOMAIN Armed2(u) : y \in Tasks /\ Armed2(u)[y] \in Delays
  BY <1>11, <1>12, DelayOfCount DEF Tasks
<1>15. (t.running \/ t.short) /\ t.active /\ Expired(t) => u.irq
  BY <1>4, <1>8 DEF late
<1> QED
  BY <1>9, <1>10, <1>12, <1>13, <1>15

---------------------------------------------------------------------------
(* A deadline matches a timer's count.                                     *)

Matches1(t, act, w) ==
    t.running /\ Counting1(t) => T1Task \in act /\ w = t.last + UntilExpiry(t.count)
Matches2(t, act, w) ==
    (t.running \/ t.short) /\ t.active => T2Task \in act /\ w = t.last + UntilExpiry(t.count)

LEMMA DeadlineMatches ==
    DeadlineMatchesCount <=> /\ Matches1(t1, active, when[T1Task])
                             /\ Matches2(t2, active, when[T2Task])
BY DEF DeadlineMatchesCount, Matches1, Matches2

(* What a step of the scheduler arms.                                      *)
LEMMA ArmingStep ==
    ASSUME S!IInv, pc = "exec", NEW task \in Tasks, NEW delay, DOMAIN delay \subseteq {task},
           \A x \in DOMAIN delay : delay[x] \in Delays, Arming(delay)
    PROVE  /\ S!IInv' /\ pc' = pc /\ active' = active \cup DOMAIN delay
           /\ \A x \in Tasks : when'[x] = IF x \in DOMAIN delay THEN now + delay[x] ELSE when[x]
<1>1. CASE DOMAIN delay = {}
  <2>1. UNCHANGED schedVars
    BY <1>1 DEF Arming
  <2>2. UNCHANGED Sched!vars
    BY <2>1 DEF schedVars, Sched!vars
  <2>3. S!IInv'
    BY <2>2, SchedInv
  <2> QED
    BY <1>1, <2>1, <2>3, SchedFacts DEF schedVars
<1>2. CASE DOMAIN delay # {}
  <2>1. DOMAIN delay = {task} /\ Sched!ExecuteAdd(task, delay[task]) /\ delay[task] \in Delays
    BY <1>2 DEF Arming
  <2>2. S!IInv'
    <3>1. Sched!Next
      BY <2>1 DEF Sched!Next, Sched!Running
    <3> QED
      BY <3>1, SchedInv
  <2>3. /\ pc' = pc /\ active' = active \cup {task}
        /\ when' = [when EXCEPT ![task] = now + delay[task]]
    BY <2>1 DEF Sched!ExecuteAdd, Sched!add, now
  <2> QED
    BY <2>1, <2>2, <2>3, SchedFacts
<1> QED
  BY <1>1, <1>2

LEMMA DispatchStep ==
    ASSUME S!IInv, NEW task \in Tasks, NEW delay, DOMAIN delay \subseteq {task},
           \A x \in DOMAIN delay : delay[x] \in Delays, delay \in Sched!Arming,
           Sched!Dispatch(task, delay)
    PROVE  /\ S!IInv' /\ pc = "dispatch" /\ when[task] = now
           /\ active' = (active \ {task}) \cup DOMAIN delay
           /\ \A x \in Tasks : when'[x] = IF x \in DOMAIN delay THEN now + delay[x] ELSE when[x]
<1>1. Sched!Next
  BY DEF Sched!Next, Sched!Running
<1>2. S!IInv' /\ (pc = "dispatch" => now = nextCount)
  BY <1>1, SchedInv, SchedFacts
<1>3. /\ pc = "dispatch" /\ when[task] = nextCount
      /\ active' = (active \ {task}) \cup DOMAIN delay
      /\ when' = [t \in Tasks |-> IF t \in DOMAIN delay THEN nextCount + delay[t] ELSE when[t]]
  BY DEF Sched!Dispatch, Sched!addIdle, Sched!IsDue
<1> QED
  BY <1>2, <1>3

LEMMA OutsideStep ==
    ASSUME S!IInv, NEW delay, DOMAIN delay \subseteq Tasks,
           \A x \in DOMAIN delay : delay[x] \in Delays, Sched!OutsideAdd(delay)
    PROVE  /\ S!IInv' /\ active' = active \cup DOMAIN delay
           /\ \A x \in Tasks : when'[x] = IF x \in DOMAIN delay THEN now + delay[x] ELSE when[x]
<1>1. /\ pc = "outside" /\ active' = active \cup DOMAIN delay
      /\ when' = [t \in Tasks |-> IF t \in DOMAIN delay THEN nextCount + delay[t] ELSE when[t]]
  BY DEF Sched!OutsideAdd, Sched!addIdle
<1>2. S!IInv' /\ now = nextCount
  BY <1>1, SchedOutside, SchedFacts
<1> QED
  BY <1>1, <1>2

(* A handler arms one task, or none.                                       *)
LEMMA ArmedIsArming ==
    /\ \A u : (\A x \in DOMAIN Armed1(u) : Armed1(u)[x] \in Delays) => Armed1(u) \in Sched!Arming
    /\ \A u : (\A x \in DOMAIN Armed2(u) : Armed2(u)[x] \in Delays) => Armed2(u) \in Sched!Arming
<1>1. ASSUME NEW task \in Tasks, NEW P, NEW c,
             \A y \in DOMAIN [t \in {x \in {task} : P} |-> c] :
                [t \in {x \in {task} : P} |-> c][y] \in Delays
      PROVE  [t \in {x \in {task} : P} |-> c] \in Sched!Arming
  <2>1. CASE P
    <3>1. [t \in {x \in {task} : P} |-> c] \in [{task} -> Delays]
      BY <1>1, <2>1
    <3> QED
      BY <3>1 DEF Sched!Arming
  <2>2. CASE ~P
    <3>1. [t \in {x \in {task} : P} |-> c] = [t \in {} |-> 0]
      BY <2>2
    <3> QED
      BY <3>1 DEF Sched!Arming, Sched!NoDelay
  <2> QED
    BY <2>1, <2>2
<1> QED
  BY <1>1 DEF Armed1, Armed2, Tasks

LEMMA TypeParts == TypeOK <=> t1 \in Timer1 /\ t2 \in Timer2
BY DEF TypeOK, Timer1, Timer2

LEMMA TasksApart == T1Task \in Tasks /\ T2Task \in Tasks /\ T1Task # T2Task
BY DEF T1Task, T2Task, Tasks

(* A timer that was brought up to date, and armed as that asks for.        *)
LEMMA Looked1Matches ==
    ASSUME NEW t \in Timer1, now \in Int, NEW u, u = doTimer1Check(t), NEW act, NEW w,
           T1Task \in DOMAIN Armed1(u) => T1Task \in act /\ w = now + Armed1(u)[T1Task]
    PROVE  Matches1(u, act, w)
<1> SUFFICES ASSUME u.running, Counting1(u)
             PROVE  T1Task \in act /\ w = u.last + UntilExpiry(u.count)
  BY DEF Matches1
<1>1. T1Task \in DOMAIN Armed1(u) /\ Armed1(u)[T1Task] = UntilExpiry(u.count) /\ u.last = now
  BY Check1
<1> QED
  BY <1>1

LEMMA Looked2Matches ==
    ASSUME NEW t \in Timer2, now \in Int, NEW u, u = doTimer2Check(t), NEW act, NEW w,
           T2Task \in DOMAIN Armed2(u) => T2Task \in act /\ w = now + Armed2(u)[T2Task]
    PROVE  Matches2(u, act, w)
<1> SUFFICES ASSUME u.running \/ u.short, u.active
             PROVE  T2Task \in act /\ w = u.last + UntilExpiry(u.count)
  BY DEF Matches2
<1>1. T2Task \in DOMAIN Armed2(u) /\ Armed2(u)[T2Task] = UntilExpiry(u.count) /\ u.last = now
  BY Check2
<1> QED
  BY <1>1

(* Steps that leave both timers alone, but for what does not count: the    *)
(* latch, and timer 2's flag.                                              *)
LEMMA TimersKept ==
    ASSUME Own, S!IInv', active' = active, when' = when, UNCHANGED <<t1, t2, extra>>
    PROVE  IInv'
<1>1. TypeOK' /\ ReadyKnown' /\ Frozen'
  BY DEF Own, TypeOK, ReadyKnown, Frozen, Counting1
<1>2. DeadlineMatchesCount'
  BY DEF Own, DeadlineMatchesCount, Counting1, UntilExpiry
<1> QED
  BY <1>1, <1>2 DEF IInv, Own

LEMMA LoopStep == ASSUME IInv, Loop PROVE IInv'
<1>1. Sched!Next /\ UNCHANGED <<t1, t2, extra>>
  BY DEF Loop, Sched!Next, Sched!Running
<1>2. active' = active /\ when' = when
  BY DEF Loop, Sched!StartRun, Sched!BeginSlice, Sched!EnterMaxCycles, Sched!EndExecute,
         Sched!DecodeNext, Sched!LeaveMaxCycles, Sched!EndSlice, Sched!ictVars
<1> QED
  BY <1>1, <1>2, SchedInv, TimersKept DEF IInv

---------------------------------------------------------------------------
(* Register accesses.                                                      *)

LEMMA Access1Step ==
    ASSUME IInv, NEW t \in Timer1, t.running <=> t1.running, Access1(t)
    PROVE  IInv'
<1> DEFINE u == doTimer1Check(t)
           d == Armed1(u)
<1>1. pc = "exec" /\ Arming(d) /\ t1' = u /\ t2' = t2 /\ extra' = extra
  BY DEF Access1
<1>2. S!IInv /\ Own /\ now \in Int /\ t2 \in Timer2
  BY SchedFacts, TypeParts DEF IInv, Own
<1>3. /\ u \in Timer1 /\ (u.running <=> t1.running)
      /\ u.running => (u.ready <=> Counting1(u))
      /\ DOMAIN d \subseteq {T1Task} /\ \A x \in DOMAIN d : d[x] \in Delays
  BY <1>2, Check1
<1>4. /\ S!IInv' /\ active' = active \cup DOMAIN d
      /\ \A x \in Tasks : when'[x] = IF x \in DOMAIN d THEN now + d[x] ELSE when[x]
  BY <1>1, <1>2, <1>3, ArmingStep, TasksApart
<1>5. Matches1(u, active', when'[T1Task])
  BY <1>2, <1>4, Looked1Matches, TasksApart
<1>6. Matches2(t2, active', when'[T2Task])
  <2>1. Matches2(t2, active, when[T2Task]) /\ when'[T2Task] = when[T2Task]
    BY <1>2, <1>3, <1>4, DeadlineMatches, TasksApart DEF Own
  <2> QED
    BY <1>4, <2>1 DEF Matches2
<1> HIDE DEF u, d
<1>7. DeadlineMatchesCount'
  BY <1>1, <1>5, <1>6 DEF DeadlineMatchesCount, Matches1, Matches2, Counting1, UntilExpiry
<1>8. TypeOK' /\ ReadyKnown' /\ Frozen'
  BY <1>1, <1>2, <1>3, TypeParts DEF Own, TypeOK, Timer1, Timer2, ReadyKnown, Frozen, Counting1
<1> QED
  BY <1>4, <1>7, <1>8 DEF IInv, Own

(* checkT1IntReady need not look at a timer that is ready: it still counts *)
(* what it counted.                                                        *)
LEMMA CheckReadyStep ==
    ASSUME IInv, NEW t \in Timer1, CheckT1IntReady(t),
           t.count = t1.count, t.last = t1.last, t.running = t1.running, t.ready = t1.ready
    PROVE  IInv'
<1>1. CASE t.running /\ Counting1(t) /\ ~t.ready
  <2>1. Access1(t)
    BY <1>1 DEF CheckT1IntReady
  <2> QED
    BY <2>1, Access1Step
<1>2. CASE ~(t.running /\ Counting1(t) /\ ~t.ready)
  <2> DEFINE r == IF t.running THEN Counting1(t) ELSE t.ready
             u == [t EXCEPT !.ready = r]
  <2>1. t1' = u /\ UNCHANGED <<schedVars, t2, extra>>
    BY <1>2 DEF CheckT1IntReady
  <2>2. Own /\ t1 \in Timer1 /\ t2 \in Timer2 /\ S!IInv
    BY TypeParts DEF IInv, Own
  <2>3. r \in BOOLEAN
    BY DEF Counting1, Timer1
  <2>4. /\ u \in Timer1 /\ u.count = t1.count /\ u.last = t1.last /\ u.running = t1.running
        /\ u.ready = r /\ u.irq = t.irq /\ u.free = t.free /\ u.active = t.active
    <3> HIDE DEF r
    <3> QED
      BY <2>3 DEF Timer1
  <2>5. Counting1(u) <=> Counting1(t)
    BY <2>4 DEF Counting1
  <2>6. u.running => (u.ready <=> Counting1(u))
    BY <2>4, <2>5
  <2>7. Matches1(u, active, when[T1Task])
    <3> SUFFICES ASSUME u.running, Counting1(u)
                 PROVE  T1Task \in active /\ when[T1Task] = u.last + UntilExpiry(u.count)
      BY DEF Matches1
    <3>1. t.ready
      BY <1>2, <2>4, <2>5
    <3>2. t1.running /\ Counting1(t1)
      BY <2>2, <2>4, <3>1 DEF Own, ReadyKnown
    <3> QED
      BY <2>2, <2>4, <3>2 DEF Own, DeadlineMatchesCount
  <2>8. UNCHANGED <<active, when>> /\ S!IInv'
    <3>1. UNCHANGED Sched!vars
      BY <2>1 DEF schedVars, Sched!vars
    <3> QED
      BY <2>1, <2>2, <3>1, SchedInv DEF schedVars
  <2> HIDE DEF u, r
  <2>9. DeadlineMatchesCount'
    BY <2>1, <2>2, <2>7, <2>8 DEF Own, DeadlineMatchesCount, Matches1, Counting1, UntilExpiry
  <2>10. TypeOK' /\ ReadyKnown' /\ Frozen'
    BY <2>1, <2>2, <2>4, <2>6, TypeParts
       DEF Own, TypeOK, Timer1, Timer2, ReadyKnown, Frozen, Counting1
  <2> QED
    BY <2>8, <2>9, <2>10 DEF IInv, Own
<1> QED
  BY <1>1, <1>2

LEMMA SchedKept == ASSUME S!IInv, UNCHANGED schedVars PROVE S!IInv' /\ UNCHANGED <<active, when, pc>>
<1>1. UNCHANGED Sched!vars
  BY DEF schedVars, Sched!vars
<1> QED
  BY <1>1, SchedInv DEF schedVars

LEMMA Timer1Accesses == ASSUME IInv, AccessTimer1 PROVE IInv'
<1>1. t1 \in Timer1 /\ t2 \in Timer2 /\ now \in Int /\ S!IInv /\ Own
  BY SchedFacts, TypeParts DEF IInv, Own
<1>2. ASSUME NEW v \in Loads, WriteT1C_H(v) PROVE IInv'
  <2> DEFINE t == [t1 EXCEPT !.latch = v, !.count = (v * Steps) % Wrap, !.irq = FALSE,
                             !.last = now, !.active = @ \/ ~t1.free]
  <2>1. (v * Steps) % Wrap \in 0..(Wrap - 1)
    <3>1. v * Steps \in Int
      BY Constants
    <3> QED
      BY <3>1, ModWrap
  <2>2. t \in Timer1 /\ (t.running <=> t1.running)
    <3> DEFINE c == (v * Steps) % Wrap
    <3> HIDE DEF c
    <3>1. LET s == [t1 EXCEPT !.latch = v, !.count = c, !.irq = FALSE, !.last = now,
                              !.active = @ \/ ~t1.free]
          IN  c \in 0..(Wrap - 1) => s \in Timer1 /\ (s.running <=> t1.running)
      BY <1>1 DEF Timer1
    <3> QED
      BY <2>1, <3>1 DEF c
  <2> QED
    BY <1>2, <2>2, Access1Step DEF WriteT1C_H
<1>3. ASSUME NEW v \in Loads, WriteT1Latch(v) PROVE IInv'
  <2>1. /\ t1' \in Timer1 /\ t1'.count = t1.count /\ t1'.last = t1.last /\ t1'.free = t1.free
        /\ t1'.running = t1.running /\ t1'.ready = t1.ready /\ t1'.irq = t1.irq
        /\ t1'.active = t1.active /\ t2' = t2 /\ extra' = extra /\ UNCHANGED schedVars
    BY <1>1, <1>3 DEF WriteT1Latch, Timer1
  <2>2. S!IInv' /\ UNCHANGED <<active, when, pc>>
    BY <1>1, <2>1, SchedKept
  <2>3. DeadlineMatchesCount'
    BY <1>1, <2>1, <2>2 DEF Own, DeadlineMatchesCount, Counting1, UntilExpiry
  <2>4. TypeOK' /\ ReadyKnown' /\ Frozen'
    BY <1>1, <2>1 DEF Own, TypeOK, Timer1, ReadyKnown, Frozen, Counting1
  <2> QED
    BY <2>2, <2>3, <2>4 DEF IInv, Own
<1>4. ASSUME ReadT1C_L PROVE IInv'
  <2>1. [t1 EXCEPT !.irq = FALSE] \in Timer1 /\ [t1 EXCEPT !.irq = FALSE].running = t1.running
    BY <1>1 DEF Timer1
  <2> QED
    BY <1>4, <2>1, Access1Step DEF ReadT1C_L
<1>5. ASSUME ReadT1C_H PROVE IInv'
  BY <1>1, <1>5, Access1Step DEF ReadT1C_H
<1>6. ASSUME WriteIFR_T1 PROVE IInv'
  <2> DEFINE t == [t1 EXCEPT !.irq = FALSE]
  <2>1. /\ t \in Timer1 /\ t.count = t1.count /\ t.last = t1.last /\ t.running = t1.running
        /\ t.ready = t1.ready
    BY <1>1 DEF Timer1
  <2> QED
    BY <1>6, <2>1, CheckReadyStep DEF WriteIFR_T1
<1>7. ASSUME NEW free \in BOOLEAN, WriteACR(free) PROVE IInv'
  <2> DEFINE t == [t1 EXCEPT !.free = free]
  <2>1. /\ t \in Timer1 /\ t.count = t1.count /\ t.last = t1.last /\ t.running = t1.running
        /\ t.ready = t1.ready
    BY <1>1 DEF Timer1
  <2> QED
    BY <1>7, <2>1, CheckReadyStep DEF WriteACR
<1> QED
  BY <1>2, <1>3, <1>4, <1>5, <1>6, <1>7 DEF AccessTimer1

LEMMA Access2Step ==
    ASSUME IInv, NEW t \in Timer2, t.running <=> t2.running, NEW clear \in BOOLEAN,
           Access2(t, clear)
    PROVE  IInv'
<1> DEFINE u == doTimer2Check(t)
           d == Armed2(u)
           x == IF clear THEN [u EXCEPT !.irq = FALSE] ELSE u
<1>1. pc = "exec" /\ Arming(d) /\ t2' = x /\ t1' = t1 /\ extra' = extra
  BY DEF Access2
<1>2. S!IInv /\ Own /\ now \in Int /\ t1 \in Timer1
  BY SchedFacts, TypeParts DEF IInv, Own
<1>3. /\ u \in Timer2 /\ (u.running <=> t2.running)
      /\ DOMAIN d \subseteq {T2Task} /\ \A y \in DOMAIN d : d[y] \in Delays
  BY <1>2, Check2
<1>4. /\ S!IInv' /\ active' = active \cup DOMAIN d
      /\ \A y \in Tasks : when'[y] = IF y \in DOMAIN d THEN now + d[y] ELSE when[y]
  BY <1>1, <1>2, <1>3, ArmingStep, TasksApart
<1>5. Matches2(u, active', when'[T2Task])
  BY <1>2, <1>4, Looked2Matches, TasksApart
<1>6. Matches1(t1, active', when'[T1Task])
  <2>1. Matches1(t1, active, when[T1Task]) /\ when'[T1Task] = when[T1Task]
    BY <1>2, <1>3, <1>4, DeadlineMatches, TasksApart DEF Own
  <2> QED
    BY <1>4, <2>1 DEF Matches1
<1> HIDE DEF u, d
(* Clearing the flag, which says nothing of whether timer 2 counts. *)
<1>7. /\ x \in Timer2 /\ x.running = u.running /\ x.short = u.short /\ x.active = u.active
      /\ x.last = u.last /\ x.count = u.count
  BY <1>3 DEF Timer2
<1> HIDE DEF x
<1>8. DeadlineMatchesCount'
  BY <1>1, <1>5, <1>6, <1>7 DEF DeadlineMatchesCount, Matches1, Matches2, Counting1, UntilExpiry
<1>9. TypeOK' /\ ReadyKnown' /\ Frozen'
  BY <1>1, <1>2, <1>3, <1>7, TypeParts
     DEF Own, TypeOK, Timer1, Timer2, ReadyKnown, Frozen, Counting1
<1> QED
  BY <1>4, <1>8, <1>9 DEF IInv, Own

LEMMA Timer2Accesses == ASSUME IInv, AccessTimer2 PROVE IInv'
<1>1. t1 \in Timer1 /\ t2 \in Timer2 /\ now \in Int /\ S!IInv /\ Own
  BY SchedFacts, TypeParts DEF IInv, Own
<1>2. ASSUME NEW v \in Loads, WriteT2_H(v) PROVE IInv'
  <2> DEFINE c == (v * Steps) % Wrap
             short == t2.short \/ (v < ShortLoad /\ v # 0)
             t == [t2 EXCEPT !.count = c, !.irq = FALSE, !.active = TRUE, !.last = now,
                             !.short = short]
  <2>1. c \in 0..(Wrap - 1) /\ short \in BOOLEAN
    <3>1. v * Steps \in Int /\ t2.short \in BOOLEAN
      BY <1>1, Constants DEF Timer2
    <3> QED
      BY <3>1, ModWrap
  <2>2. Access2(t, FALSE)
    BY <1>2 DEF WriteT2_H
  <2> HIDE DEF c, short
  <2>3. t \in Timer2 /\ (t.running <=> t2.running)
    BY <1>1, <2>1 DEF Timer2
  <2> QED
    BY <2>2, <2>3, Access2Step
<1>3. ASSUME ReadT2_L \/ ReadT2_H PROVE IInv'
  BY <1>1, <1>3, Access2Step DEF ReadT2_L, ReadT2_H
<1>4. ASSUME WriteIFR_T2 PROVE IInv'
  <2>1. /\ t2' \in Timer2 /\ t2'.count = t2.count /\ t2'.last = t2.last
        /\ t2'.running = t2.running /\ t2'.short = t2.short
        /\ t2'.active = t2.active /\ t1' = t1 /\ extra' = extra /\ UNCHANGED schedVars
    BY <1>1, <1>4 DEF WriteIFR_T2, Timer2
  <2>2. S!IInv' /\ UNCHANGED <<active, when, pc>>
    BY <1>1, <2>1, SchedKept
  <2>3. DeadlineMatchesCount'
    BY <1>1, <2>1, <2>2 DEF Own, DeadlineMatchesCount, Counting1, UntilExpiry
  <2>4. TypeOK' /\ ReadyKnown' /\ Frozen'
    BY <1>1, <2>1 DEF Own, TypeOK, Timer2, ReadyKnown, Frozen, Counting1
  <2> QED
    BY <2>2, <2>3, <2>4 DEF IInv, Own
<1> QED
  BY <1>2, <1>3, <1>4 DEF AccessTimer2

---------------------------------------------------------------------------
(* Resets.                                                                 *)

LEMMA ResetStep == ASSUME IInv, Reset \/ Zap PROVE IInv'
<1>1. t1 \in Timer1 /\ t2 \in Timer2 /\ S!IInv /\ Own
  BY TypeParts DEF IInv, Own
<1>2. t1' = cleared1(t1) /\ t2' = cleared2(t2) /\ extra' = extra
  BY DEF Reset, Zap
<1>3. S!IInv'
  <2>1. CASE Reset
    BY <1>1, <2>1, SchedKept DEF Reset
  <2>2. CASE Zap
    <3>1. Sched!Next
      BY <2>2 DEF Zap, Sched!Next
    <3> QED
      BY <1>1, <3>1, SchedInv
  <2> QED
    BY <2>1, <2>2
<1>4. /\ t1' \in Timer1 /\ t1'.running = t1.running /\ t1'.ready = FALSE
      /\ t1'.free = FALSE /\ t1'.active = FALSE
  BY <1>1, <1>2, ZeroCount DEF cleared1, Timer1
<1>5. t2' \in Timer2 /\ t2'.running = t2.running /\ t2'.active = FALSE
  BY <1>1, <1>2, ZeroCount DEF cleared2, Timer2
<1>6. DeadlineMatchesCount'
  BY <1>4, <1>5 DEF DeadlineMatchesCount, Counting1
<1>7. TypeOK' /\ ReadyKnown' /\ Frozen'
  BY <1>1, <1>2, <1>4, <1>5 DEF Own, TypeOK, Timer1, Timer2, ReadyKnown, Frozen, Counting1
<1> QED
  BY <1>3, <1>6, <1>7 DEF IInv, Own

---------------------------------------------------------------------------
(* The tasks, and the notifications around extra time.                     *)

LEMMA Task1Step == ASSUME IInv, Timer1Task PROVE IInv'
<1> DEFINE d == Armed1(t1')
<1>1. t1' = doTimer1Check(t1) /\ Sched!Dispatch(T1Task, d) /\ t2' = t2 /\ extra' = extra
  BY DEF Timer1Task
<1>2. S!IInv /\ Own /\ now \in Int /\ t1 \in Timer1 /\ t2 \in Timer2
  BY SchedFacts, TypeParts DEF IInv, Own
<1>3. /\ t1' \in Timer1 /\ (t1'.running <=> t1.running)
      /\ t1'.running => (t1'.ready <=> Counting1(t1'))
      /\ DOMAIN d \subseteq {T1Task} /\ \A x \in DOMAIN d : d[x] \in Delays
  BY <1>1, <1>2, Check1
<1>4. d \in Sched!Arming
  BY <1>3, ArmedIsArming
<1>5. /\ S!IInv' /\ active' = (active \ {T1Task}) \cup DOMAIN d
      /\ \A x \in Tasks : when'[x] = IF x \in DOMAIN d THEN now + d[x] ELSE when[x]
  BY <1>1, <1>2, <1>3, <1>4, DispatchStep, TasksApart
<1>6. Matches1(t1', active', when'[T1Task])
  BY <1>1, <1>2, <1>5, Looked1Matches, TasksApart
<1>7. Matches2(t2, active', when'[T2Task])
  <2>1. Matches2(t2, active, when[T2Task]) /\ when'[T2Task] = when[T2Task]
    BY <1>2, <1>3, <1>5, DeadlineMatches, TasksApart DEF Own
  <2> QED
    BY <1>5, <2>1, TasksApart DEF Matches2
<1> HIDE DEF d
<1>8. DeadlineMatchesCount'
  BY <1>1, <1>6, <1>7 DEF DeadlineMatchesCount, Matches1, Matches2, Counting1, UntilExpiry
<1>9. TypeOK' /\ ReadyKnown' /\ Frozen'
  BY <1>1, <1>2, <1>3, TypeParts DEF Own, TypeOK, Timer1, Timer2, ReadyKnown, Frozen, Counting1
<1> QED
  BY <1>5, <1>8, <1>9 DEF IInv, Own

LEMMA Task2Step == ASSUME IInv, Timer2Task PROVE IInv'
<1> DEFINE d == Armed2(t2')
<1>1. t2' = doTimer2Check(t2) /\ Sched!Dispatch(T2Task, d) /\ t1' = t1 /\ extra' = extra
  BY DEF Timer2Task
<1>2. S!IInv /\ Own /\ now \in Int /\ t1 \in Timer1 /\ t2 \in Timer2
  BY SchedFacts, TypeParts DEF IInv, Own
<1>3. /\ t2' \in Timer2 /\ (t2'.running <=> t2.running)
      /\ DOMAIN d \subseteq {T2Task} /\ \A x \in DOMAIN d : d[x] \in Delays
  BY <1>1, <1>2, Check2
<1>4. d \in Sched!Arming
  BY <1>3, ArmedIsArming
<1>5. /\ S!IInv' /\ active' = (active \ {T2Task}) \cup DOMAIN d
      /\ \A x \in Tasks : when'[x] = IF x \in DOMAIN d THEN now + d[x] ELSE when[x]
  BY <1>1, <1>2, <1>3, <1>4, DispatchStep, TasksApart
<1>6. Matches2(t2', active', when'[T2Task])
  BY <1>1, <1>2, <1>5, Looked2Matches, TasksApart
<1>7. Matches1(t1, active', when'[T1Task])
  <2>1. Matches1(t1, active, when[T1Task]) /\ when'[T1Task] = when[T1Task]
    BY <1>2, <1>3, <1>5, DeadlineMatches, TasksApart DEF Own
  <2> QED
    BY <1>5, <2>1, TasksApart DEF Matches1
<1> HIDE DEF d
<1>8. DeadlineMatchesCount'
  BY <1>1, <1>6, <1>7 DEF DeadlineMatchesCount, Matches1, Matches2, Counting1, UntilExpiry
<1>9. TypeOK' /\ ReadyKnown' /\ Frozen'
  BY <1>1, <1>2, <1>3, TypeParts DEF Own, TypeOK, Timer1, Timer2, ReadyKnown, Frozen, Counting1
<1> QED
  BY <1>5, <1>8, <1>9 DEF IInv, Own

(* Both timers looked at between two runs.                                 *)
LEMMA BothStep ==
    ASSUME IInv, NEW s1 \in Timer1, NEW s2 \in Timer2, NEW u1, NEW u2,
           u1 = doTimer1Check(s1), u2 = doTimer2Check(s2),
           Sched!OutsideAdd(Both(Armed1(u1), Armed2(u2)))
    PROVE  /\ S!IInv' /\ u1 \in Timer1 /\ u2 \in Timer2
           /\ (u1.running <=> s1.running) /\ (u2.running <=> s2.running)
           /\ u1.running => (u1.ready <=> Counting1(u1))
           /\ Matches1(u1, active', when'[T1Task]) /\ Matches2(u2, active', when'[T2Task])
<1> DEFINE f == Armed1(u1)
           g == Armed2(u2)
           d == Both(f, g)
<1>1. S!IInv /\ now \in Int
  BY SchedFacts DEF IInv
<1>2. /\ u1 \in Timer1 /\ (u1.running <=> s1.running)
      /\ u1.running => (u1.ready <=> Counting1(u1))
      /\ DOMAIN f \subseteq {T1Task} /\ \A x \in DOMAIN f : f[x] \in Delays
  BY <1>1, Check1
<1>3. /\ u2 \in Timer2 /\ (u2.running <=> s2.running)
      /\ DOMAIN g \subseteq {T2Task} /\ \A x \in DOMAIN g : g[x] \in Delays
  BY <1>1, Check2
<1> HIDE DEF f, g
<1>4. /\ DOMAIN d = DOMAIN f \cup DOMAIN g
      /\ \A x \in DOMAIN f : d[x] = f[x]
      /\ \A x \in DOMAIN g : x \notin DOMAIN f => d[x] = g[x]
  BY DEF Both
<1>5. /\ DOMAIN d \subseteq Tasks /\ \A x \in DOMAIN d : d[x] \in Delays
      /\ T2Task \notin DOMAIN f
  BY <1>2, <1>3, <1>4, TasksApart
<1>6. Sched!OutsideAdd(d)
  BY DEF f, g
<1> HIDE DEF d
<1>7. /\ S!IInv' /\ active' = active \cup DOMAIN d
      /\ \A x \in Tasks : when'[x] = IF x \in DOMAIN d THEN now + d[x] ELSE when[x]
  BY <1>1, <1>5, <1>6, OutsideStep
<1>8. T1Task \in DOMAIN f => T1Task \in active' /\ when'[T1Task] = now + f[T1Task]
  BY <1>4, <1>7, TasksApart
<1>9. T2Task \in DOMAIN g => T2Task \in active' /\ when'[T2Task] = now + g[T2Task]
  BY <1>4, <1>5, <1>7, TasksApart
<1>10. Matches1(u1, active', when'[T1Task]) /\ Matches2(u2, active', when'[T2Task])
  BY <1>1, <1>8, <1>9, Looked1Matches, Looked2Matches DEF f, g
<1> QED
  BY <1>2, <1>3, <1>7, <1>10

(* In extra time timer 1 stands still, and timer 2 unless it is short: it  *)
(* is still armed for its count.                                           *)
LEMMA ExtraBeginStep == ASSUME IInv, ExtraTimeBegin PROVE IInv'
<1> DEFINE u1 == doTimer1Check(t1)
           u2 == doTimer2Check(t2)
<1>1. /\ extra' = TRUE /\ Sched!OutsideAdd(Both(Armed1(u1), Armed2(u2)))
      /\ t1' = [u1 EXCEPT !.running = FALSE] /\ t2' = [u2 EXCEPT !.running = FALSE]
  BY DEF ExtraTimeBegin
<1>2. t1 \in Timer1 /\ t2 \in Timer2 /\ Own
  BY TypeParts DEF IInv, Own
<1>3. /\ S!IInv' /\ u1 \in Timer1 /\ u2 \in Timer2 /\ (u2.running <=> t2.running)
      /\ Matches2(u2, active', when'[T2Task])
  BY <1>1, <1>2, BothStep
<1> HIDE DEF u1, u2
<1>4. t1' \in Timer1 /\ t1'.running = FALSE
  BY <1>1, <1>3 DEF Timer1
<1>5. /\ t2' \in Timer2 /\ t2'.running = FALSE /\ t2'.short = u2.short /\ t2'.last = u2.last
      /\ t2'.active = u2.active /\ t2'.count = u2.count
  BY <1>1, <1>3 DEF Timer2
<1>6. DeadlineMatchesCount'
  BY <1>3, <1>4, <1>5 DEF DeadlineMatchesCount, Matches2, UntilExpiry
<1>7. TypeOK' /\ ReadyKnown' /\ Frozen'
  BY <1>1, <1>4, <1>5 DEF TypeOK, Timer1, Timer2, ReadyKnown, Frozen
<1> QED
  BY <1>3, <1>6, <1>7 DEF IInv, Own

LEMMA ExtraEndStep == ASSUME IInv, ExtraTimeEnd PROVE IInv'
<1> DEFINE s1 == [t1 EXCEPT !.running = TRUE, !.last = now]
           s2 == [t2 EXCEPT !.running = TRUE, !.last = IF t2.short THEN @ ELSE now]
           u1 == doTimer1Check(s1)
           u2 == doTimer2Check(s2)
<1>1. /\ extra' = FALSE /\ Sched!OutsideAdd(Both(Armed1(u1), Armed2(u2)))
      /\ t1' = u1 /\ t2' = u2
  BY DEF ExtraTimeEnd
<1>2. t1 \in Timer1 /\ t2 \in Timer2 /\ now \in Int
  BY SchedFacts, TypeParts DEF IInv, Own
<1>3. s1 \in Timer1 /\ s1.running = TRUE
  BY <1>2 DEF Timer1
<1>4. s2 \in Timer2 /\ s2.running = TRUE
  BY <1>2 DEF Timer2
<1> HIDE DEF s1, s2
<1>5. /\ S!IInv' /\ u1 \in Timer1 /\ u2 \in Timer2 /\ u1.running /\ u2.running
      /\ u1.ready <=> Counting1(u1)
      /\ Matches1(u1, active', when'[T1Task]) /\ Matches2(u2, active', when'[T2Task])
  BY <1>1, <1>3, <1>4, BothStep
<1> HIDE DEF u1, u2
<1>6. DeadlineMatchesCount'
  BY <1>1, <1>5 DEF DeadlineMatchesCount, Matches1, Matches2, Counting1, UntilExpiry
<1>7. TypeOK' /\ ReadyKnown' /\ Frozen'
  BY <1>1, <1>5 DEF TypeOK, Timer1, Timer2, ReadyKnown, Frozen, Counting1
<1> QED
  BY <1>5, <1>6, <1>7 DEF IInv, Own

---------------------------------------------------------------------------
(* The theorems.                                                           *)

LEMMA InitStep == Init => IInv
<1> SUFFICES ASSUME Init PROVE IInv
  OBVIOUS
<1>1. S!IInv
  <2>1. S!Init
    BY DEF Init, Sched!Init, S!Init
  <2> QED
    BY <2>1, SchedAssumption, S!InitIInv
<1>2. t1 \in Timer1 /\ t2 \in Timer2
  BY ZeroCount DEF Init, Timer1, Timer2
<1>3. DeadlineMatchesCount /\ ReadyKnown /\ Frozen
  BY DEF Init, DeadlineMatchesCount, Counting1, ReadyKnown, Frozen
<1>4. Own
  BY <1>2, <1>3, TypeParts DEF Own
<1> QED
  BY <1>1, <1>4 DEF IInv

LEMMA NextStep == IInv /\ [Next]_vars => IInv'
<1> SUFFICES ASSUME IInv, [Next]_vars PROVE IInv'
  OBVIOUS
<1>1. CASE UNCHANGED vars
  <2>1. S!IInv' /\ UNCHANGED <<active, when, t1, t2, extra>>
    BY <1>1, SchedKept DEF IInv, vars
  <2> QED
    BY <2>1, TimersKept DEF IInv
<1>2. CASE Step
  BY <1>2, LoopStep, ResetStep, Timer1Accesses, Timer2Accesses, Task1Step, Task2Step,
     ExtraBeginStep, ExtraEndStep DEF Step
<1> QED
  BY <1>1, <1>2 DEF Next

(* The scheduler's invariant, the timers' types, the deadlines.            *)
THEOREM Invariance == Spec => []IInv
BY InitStep, NextStep, PTL DEF Spec

(* The timers keep their types, their counters wrap at their width.        *)
THEOREM TypeCorrect == Spec => []TypeOK
BY Invariance, PTL DEF IInv, Own

(* A timer that can interrupt has its task armed for exactly the expiry    *)
(* that its count and the time of its last look imply, at every moment.    *)
THEOREM DeadlinesMatch == Spec => []DeadlineMatchesCount
BY Invariance, PTL DEF IInv, Own

(* And the scheduler will not miss it: with both timers in it, no task is  *)
(* ever left behind its deadline.                                          *)
THEOREM DeadlinesKept == Spec => []Sched!NoMissedDeadline
<1>1. IInv => Sched!NoMissedDeadline
  BY DEF IInv, S!IInv, S!NoMissedDeadline, Sched!NoMissedDeadline
<1> QED
  BY Invariance, <1>1, PTL

(* When the task of a timer comes, its count has run out: a step before,   *)
(* and long before the clock or the counter could have wrapped.            *)
LEMMA RunOut ==
    ASSUME NEW t, t.last \in Int, Loaded(t), now = t.last + UntilExpiry(t.count)
    PROVE  Elapsed(t) # 0 /\ Expired(t)
<1>1. PICK c \in Nat : c = t.count /\ c >= 1 /\ c + 1 < Wrap
  <2>1. Steps \in Nat /\ Steps > 1 /\ Wrap \in Nat /\ t.count \in 1..(Wrap - Steps)
    BY Constants DEF Loaded
  <2>2. t.count \in Nat /\ t.count >= 1 /\ t.count + 1 < Wrap
    BY <2>1
  <2> QED
    BY <2>2
<1>2. PICK m \in Nat \ {0} : m = StepCycles
  BY Constants
<1>3. UntilExpiry(t.count) = (1 + c) * m
  BY <1>1, <1>2 DEF UntilExpiry
<1>4. PICK d \in Nat \ {0} : d = (1 + c) * m
  <2>1. (1 + c) * m \in Nat \ {0}
    BY <1>1, <1>2
  <2> QED
    BY <2>1
<1>5. d < TimeWrap /\ TimeWrap \in Nat \ {0}
  <2>1. Wrap \in Nat /\ TimeWrap > Wrap * m /\ TimeWrap \in Nat \ {0}
    BY <1>2, Constants
  <2>2. \A i, j \in Nat : i <= j => i * m <= j * m
    BY <1>2
  <2>3. (1 + c) * m <= Wrap * m
    BY <1>1, <2>1, <2>2
  <2> QED
    BY <1>2, <1>4, <2>1, <2>3
<1>6. Elapsed(t) = d
  <2>1. now - t.last = d
    BY <1>3, <1>4
  <2>2. d % TimeWrap = d
    BY <1>5
  <2> QED
    BY <2>1, <2>2 DEF Elapsed
<1>7. ElapsedSteps(t) = 1 + c
  <2>1. d \div m = 1 + c
    BY <1>1, <1>2, <1>4
  <2>2. (1 + c) % Wrap = 1 + c
    <3>1. Wrap \in Nat \ {0} /\ 1 + c \in 0..(Wrap - 1)
      BY <1>1, Constants
    <3> QED
      BY <3>1
  <2> QED
    BY <1>2, <1>6, <2>1, <2>2 DEF ElapsedSteps
<1> QED
  BY <1>1, <1>4, <1>6, <1>7 DEF Expired

(* The task that waits for an expiry finds it: the interrupt is set.       *)
THEOREM ExpiryInterrupts == Spec => TaskInterrupts
<1>1. ASSUME IInv
      PROVE  /\ t1.last \in Int /\ t2.last \in Int /\ now \in Int
             /\ t1 \in Timer1 /\ t2 \in Timer2 /\ DeadlineMatchesCount
             /\ pc = "dispatch" => now = nextCount
  BY <1>1, SchedFacts, TypeParts DEF IInv, Own, Timer1, Timer2
<1>2. ASSUME IInv, Timer1Task, t1.running, Counting1(t1), Loaded(t1) PROVE t1'.irq
  <2>1. when[T1Task] = now
    BY <1>1, <1>2 DEF Timer1Task, Sched!Dispatch, Sched!IsDue
  <2>2. now = t1.last + UntilExpiry(t1.count)
    BY <1>1, <1>2, <2>1 DEF DeadlineMatchesCount
  <2>3. Elapsed(t1) # 0 /\ Expired(t1)
    BY <1>1, <1>2, <2>2, RunOut
  <2> QED
    BY <1>1, <1>2, <2>3, Check1 DEF Timer1Task
<1>3. ASSUME IInv, Timer2Task, t2.running \/ t2.short, t2.active, Loaded(t2) PROVE t2'.irq
  <2>1. when[T2Task] = now
    BY <1>1, <1>3 DEF Timer2Task, Sched!Dispatch, Sched!IsDue
  <2>2. now = t2.last + UntilExpiry(t2.count)
    BY <1>1, <1>3, <2>1 DEF DeadlineMatchesCount
  <2>3. Expired(t2)
    BY <1>1, <1>3, <2>2, RunOut
  <2> QED
    BY <1>1, <1>3, <2>3, Check2 DEF Timer2Task
<1>4. IInv /\ [Next]_vars =>
        [ /\ (Timer1Task /\ t1.running /\ Counting1(t1) /\ Loaded(t1)) => t1'.irq
          /\ (Timer2Task /\ (t2.running \/ t2.short) /\ t2.active /\ Loaded(t2)) => t2'.irq
        ]_vars
  BY <1>2, <1>3
<1> QED
  BY Invariance, <1>4, PTL DEF Spec, TaskInterrupts

(* A look at timer 1 in extra time, when it stands still, does nothing.    *)
LEMMA LookInExtraTime ==
    ASSUME IInv, extra, NEW t, t.running <=> t1.running
    PROVE  doTimer1Check(t) = t
<1>1. ~t.running
  BY DEF IInv, Own, Frozen
<1> QED
  BY <1>1 DEF doTimer1Check

LEMMA NoInterruptInExtraTime ==
    ASSUME IInv, extra, ~t1.irq, [Next]_vars
    PROVE  ~t1'.irq
<1>1. t1 \in Timer1 /\ now \in Int
  BY SchedFacts, TypeParts DEF IInv, Own
<1>2. ASSUME NEW t, Access1(t), t.running <=> t1.running, ~t.irq PROVE ~t1'.irq
  <2>1. doTimer1Check(t) = t
    BY <1>2, LookInExtraTime
  <2> QED
    BY <1>2, <2>1 DEF Access1
<1>3. ASSUME NEW t, CheckT1IntReady(t), t \in Timer1, t.running <=> t1.running, ~t.irq
      PROVE  ~t1'.irq
  <2>1. CASE t1' = [t EXCEPT !.ready = IF t.running THEN Counting1(t) ELSE @]
    BY <1>3, <2>1 DEF Timer1
  <2> QED
    BY <1>2, <1>3, <2>1 DEF CheckT1IntReady
<1>4. CASE AccessTimer1
  <2>1. ASSUME NEW v \in Loads, WriteT1C_H(v) PROVE ~t1'.irq
    <3> DEFINE t == [t1 EXCEPT !.latch = v, !.count = (v * Steps) % Wrap, !.irq = FALSE,
                               !.last = now, !.active = @ \/ ~t1.free]
    <3>1. t.running = t1.running /\ ~t.irq
      BY <1>1 DEF Timer1
    <3>2. Access1(t)
      BY <2>1 DEF WriteT1C_H
    <3> HIDE DEF t
    <3> QED
      BY <1>2, <3>1, <3>2
  <2>2. ASSUME NEW v \in Loads, WriteT1Latch(v) PROVE ~t1'.irq
    BY <1>1, <2>2 DEF WriteT1Latch, Timer1
  <2>3. CASE ReadT1C_L
    <3>1. [t1 EXCEPT !.irq = FALSE].running = t1.running /\ ~[t1 EXCEPT !.irq = FALSE].irq
      BY <1>1 DEF Timer1
    <3> QED
      BY <1>2, <2>3, <3>1 DEF ReadT1C_L
  <2>4. CASE ReadT1C_H
    BY <1>2, <2>4 DEF ReadT1C_H
  <2>5. CASE WriteIFR_T1
    <3> DEFINE t == [t1 EXCEPT !.irq = FALSE]
    <3>1. t \in Timer1 /\ t.running = t1.running /\ ~t.irq
      BY <1>1 DEF Timer1
    <3> QED
      BY <1>3, <2>5, <3>1 DEF WriteIFR_T1
  <2>6. ASSUME NEW free \in BOOLEAN, WriteACR(free) PROVE ~t1'.irq
    <3> DEFINE t == [t1 EXCEPT !.free = free]
    <3>1. t \in Timer1 /\ t.running = t1.running /\ ~t.irq
      BY <1>1 DEF Timer1
    <3> QED
      BY <1>3, <2>6, <3>1 DEF WriteACR
  <2> QED
    BY <1>4, <2>1, <2>2, <2>3, <2>4, <2>5, <2>6 DEF AccessTimer1
<1>5. CASE Timer1Task
  BY <1>1, <1>5, LookInExtraTime DEF Timer1Task
(* Extra time ends: the clock of timer 1 is set before it is looked at. *)
<1>6. CASE ExtraTimeEnd
  <2> DEFINE s == [t1 EXCEPT !.running = TRUE, !.last = now]
  <2>1. s \in Timer1 /\ s.last = now /\ s.irq = t1.irq /\ t1' = doTimer1Check(s)
    BY <1>1, <1>6 DEF Timer1, ExtraTimeEnd
  <2> HIDE DEF s
  <2>2. Elapsed(s) = 0
    BY <1>1, <2>1, ElapsedFacts DEF Timer1
  <2> QED
    BY <1>1, <2>1, <2>2, Check1
<1>7. CASE Reset
  BY <1>1, <1>7 DEF Reset, cleared1, Timer1
<1>8. CASE Loop \/ AccessTimer2 \/ Timer2Task \/ UNCHANGED vars
  <2>1. t1' = t1
    BY <1>8 DEF Loop, AccessTimer2, WriteT2_H, ReadT2_L, ReadT2_H, WriteIFR_T2, Access2,
                Timer2Task, vars
  <2> QED
    BY <2>1
<1>9. CASE ExtraTimeBegin \/ Zap
  BY <1>9 DEF ExtraTimeBegin, Zap
<1> QED
  BY <1>4, <1>5, <1>6, <1>7, <1>8, <1>9 DEF Next, Step

(* "VIA timers are frozen for the duration" (main.cpp): timer 1 sets no    *)
(* interrupt in extra time, nor, by its age, when it ends.                 *)
THEOREM FrozenInExtraTime == Spec => Timer1Frozen
<1>1. IInv /\ [Next]_vars =>
        [ /\ (extra /\ ~t1.irq) => ~(t1'.irq /\ extra')
          /\ (extra /\ ~extra' /\ ~t1.irq) => ~t1'.irq ]_vars
  BY NoInterruptInExtraTime
<1> QED
  BY Invariance, <1>1, PTL DEF Spec, Timer1Frozen
===========================================================================
