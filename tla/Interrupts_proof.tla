------------------------- MODULE Interrupts_proof -------------------------
(***************************************************************************)
(* The CPU loop with its scheduler and its interrupts.  The scheduler's    *)
(* invariants hold for every set of tasks, every delay and every           *)
(* instruction cost, and it implements TaskClock.  No interrupt is lost and*)
(* none waits for a second instruction, for every set of masks and for both*)
(* kinds of Mac; and as the machine with interrupts implements the         *)
(* scheduler, what is proved of the scheduler holds of it too.             *)
(***************************************************************************)
EXTENDS Interrupts, TLAPS

USE SchedulerAssumption

(* The inductive invariant.  While tasks are being dispatched, the ones    *)
(* that are due are those that the snapshot still lists; outside a slice   *)
(* no cycles remain; the CPU is never further behind than Overshoot.       *)
IdleCPU == pc \in {"outside", "dispatch"} => maxCycles = 0 /\ moreCycles = 0

DueIsListed ==
    pc = "dispatch" =>
        /\ nextCount < stop
        /\ \A t \in active : when[t] = nextCount => t \in todo
        /\ \A t \in todo : when[t] = nextCount => t \in active

Bounds ==
    /\ moreCycles >= 0 /\ residual <= 0 /\ -Overshoot <= residual
    /\ pc = "cpu" => moreCycles = 0
    /\ pc \in {"cpu", "decode"} => -Overshoot <= maxCycles
    /\ pc = "exec" => \A x \in Extras : -Overshoot <= maxCycles - x

IInv ==
    /\ TypeOK /\ NoMissedDeadline /\ NeverPastStop
    /\ IdleCPU /\ DueIsListed /\ Bounds

(* What a handler may arm: tasks of Tasks, each a positive time from now.  *)
LEMMA ArmingFacts ==
    \A delay \in Arming :
        DOMAIN delay \subseteq Tasks /\ \A t \in DOMAIN delay : delay[t] \in Delays
<1> SUFFICES ASSUME NEW delay \in Arming
             PROVE  DOMAIN delay \subseteq Tasks /\ \A t \in DOMAIN delay : delay[t] \in Delays
  OBVIOUS
<1>1. CASE delay = NoDelay
  BY <1>1 DEF NoDelay
<1>2. CASE delay # NoDelay
  <2>1. PICK t \in Tasks : delay \in [{t} -> Delays]
    BY <1>2 DEF Arming
  <2> QED
    BY <2>1
<1> QED
  BY <1>1, <1>2

(* Arming tasks while no cycles remain misses no deadline, and leaves no   *)
(* armed task due that was not due before.                                 *)
LEMMA AddIdle ==
    ASSUME TypeOK, NoMissedDeadline, NEW base \in SUBSET active, NEW delay,
           DOMAIN delay \subseteq Tasks, \A t \in DOMAIN delay : delay[t] \in Delays,
           addIdle(base, delay), UNCHANGED nextCount
    PROVE  /\ active' \subseteq Tasks /\ when' \in [Tasks -> Int]
           /\ NoMissedDeadline'
           /\ \A t \in active' : when'[t] = nextCount =>
                                    t \in base /\ when[t] = nextCount
           /\ \A t \in Tasks : when'[t] = nextCount => when[t] = nextCount
<1>b. \A n \in Delays : n \in Int /\ n > 0
  OBVIOUS
<1>1. /\ DOMAIN delay \subseteq Tasks
      /\ \A t \in DOMAIN delay : delay[t] \in Int /\ delay[t] > 0
  BY <1>b
<1>2. nextCount \in Int /\ when \in [Tasks -> Int] /\ active \subseteq Tasks
  BY DEF TypeOK
<1>3. active' \subseteq Tasks
  BY <1>1, <1>2 DEF addIdle
<1>4. when' \in [Tasks -> Int]
  BY <1>1, <1>2 DEF addIdle
<1>5. ASSUME NEW t \in active'
      PROVE  \/ when'[t] > nextCount
             \/ t \in base /\ when'[t] = when[t]
  <2>1. CASE t \in DOMAIN delay
    <3>1. when'[t] = nextCount + delay[t]
      BY <1>1, <2>1 DEF addIdle
    <3>2. QED
      BY <1>1, <1>2, <2>1, <3>1
  <2>2. CASE t \notin DOMAIN delay
    BY <1>2, <1>3, <1>5, <2>2 DEF addIdle
  <2>3. QED
    BY <2>1, <2>2
<1>6. NoMissedDeadline'
  BY <1>2, <1>3, <1>4, <1>5 DEF NoMissedDeadline
<1>7. \A t \in active' : when'[t] = nextCount => t \in base /\ when[t] = nextCount
  BY <1>2, <1>5
<1>8. \A t \in Tasks : when'[t] = nextCount => when[t] = nextCount
  BY <1>1, <1>2 DEF addIdle
<1>9. QED
  BY <1>3, <1>4, <1>6, <1>7, <1>8

(* The initial state.                                                      *)
LEMMA InitIInv == Init => IInv
  BY DEF Init, IInv, TypeOK, NoMissedDeadline, NeverPastStop, IdleCPU,
         DueIsListed, Bounds, Places

(* add keeps every deadline ahead: the slice it cuts short ends exactly at *)
(* the new deadline, which is before all the others.                       *)
LEMMA AddStep ==
    ASSUME IInv, NEW t \in Tasks, NEW n \in Delays, ExecuteAdd(t, n)
    PROVE  IInv'
<1> USE DEF ExecuteAdd, add, getCurrent, getCyclesRemaining
<1>1. TypeOK' /\ pc' = "exec" /\ stop' = stop /\ residual' = residual
  BY DEF IInv, TypeOK, Places, setCyclesRemaining
<1>2. NoMissedDeadline' /\ NeverPastStop'
  <2>1. CASE getCyclesRemaining > n
    BY <2>1 DEF IInv, TypeOK, NoMissedDeadline, NeverPastStop
  <2>2. CASE ~(getCyclesRemaining > n)
    BY <2>2 DEF IInv, TypeOK, NoMissedDeadline, NeverPastStop
  <2>3. QED
    BY <2>1, <2>2
<1>3. Bounds'
  <2>1. CASE getCyclesRemaining > n
    <3>1. setCyclesRemaining(n)
      BY <2>1
    <3>2. n \in Nat /\ n > 0
      OBVIOUS
    <3>3. maxCycles' = n \/ maxCycles' = maxCycles
      BY <3>1 DEF setCyclesRemaining
    <3>4. moreCycles' >= 0
      BY <3>1, <3>2 DEF setCyclesRemaining, IInv, TypeOK
    <3>5. \A x \in Extras : -Overshoot <= maxCycles' - x
      BY <3>2, <3>3 DEF IInv, TypeOK, Bounds
    <3>6. QED
      BY <1>1, <3>4, <3>5 DEF IInv, Bounds
  <2>2. CASE ~(getCyclesRemaining > n)
    BY <1>1, <2>2 DEF IInv, TypeOK, Bounds
  <2>3. QED
    BY <2>1, <2>2
<1>4. QED
  BY <1>1, <1>2, <1>3 DEF IInv, IdleCPU, DueIsListed

(* A notification may arm several tasks, or none.                          *)
LEMMA OutsideStep ==
    ASSUME IInv, NEW delay, DOMAIN delay \subseteq Tasks,
           \A t \in DOMAIN delay : delay[t] \in Delays, OutsideAdd(delay)
    PROVE  IInv'
<1>1. /\ pc = "outside" /\ addIdle(active, delay) /\ active \in SUBSET active
      /\ UNCHANGED <<nextCount, todo, stop, maxCycles, moreCycles, residual, pc>>
  BY DEF OutsideAdd
<1>2. active' \subseteq Tasks /\ when' \in [Tasks -> Int] /\ NoMissedDeadline'
  BY <1>1, AddIdle DEF IInv
<1>3. TypeOK' /\ NeverPastStop' /\ IdleCPU' /\ DueIsListed' /\ Bounds'
  BY <1>1, <1>2 DEF IInv, TypeOK, NeverPastStop, IdleCPU, DueIsListed, Bounds
<1> QED
  BY <1>2, <1>3 DEF IInv

(* Every step preserves the inductive invariant.                           *)
LEMMA NextIInv == IInv /\ [Next]_vars => IInv'
<1> SUFFICES ASSUME IInv, [Next]_vars PROVE IInv'
  OBVIOUS
<1> USE DEF IInv, TypeOK, NoMissedDeadline, NeverPastStop, IdleCPU,
            DueIsListed, Bounds, Places
<1>1. ASSUME NEW t \in Tasks, NEW n \in Delays, OutsideAdd([u \in {t} |-> n])
      PROVE  IInv'
  <2>1. /\ DOMAIN [u \in {t} |-> n] \subseteq Tasks
        /\ \A u \in DOMAIN [v \in {t} |-> n] : [v \in {t} |-> n][u] \in Delays
    OBVIOUS
  <2> QED
    BY <1>1, <2>1, OutsideStep
<1>2. CASE Zap
  BY <1>2 DEF Zap
<1>3. ASSUME NEW n \in Budgets, StartRun(n) PROVE IInv'
  BY <1>3 DEF StartRun, ictVars, cpuVars
<1>4. ASSUME NEW t \in Tasks, NEW delay \in Arming, Dispatch(t, delay) PROVE IInv'
  <2>1. /\ active' \subseteq Tasks /\ when' \in [Tasks -> Int]
        /\ NoMissedDeadline'
        /\ \A u \in active' : when'[u] = nextCount =>
                                 u \in active \ {t} /\ when[u] = nextCount
        /\ \A u \in Tasks : when'[u] = nextCount => when[u] = nextCount
    BY <1>4, AddIdle, ArmingFacts DEF Dispatch
  <2>2. /\ \A u \in active' : when'[u] = nextCount => u \in todo'
        /\ \A u \in todo' : when'[u] = nextCount => u \in active'
    <3>1. /\ \A u \in todo : u \in Nat /\ (IsDue(u) => t <= u)
          /\ t \in Nat /\ todo' = {u \in todo : u > t}
          /\ active \ {t} \subseteq active'
      BY <1>4 DEF Dispatch, addIdle
    <3>2. ASSUME NEW u \in active', when'[u] = nextCount PROVE u \in todo'
      BY <1>4, <2>1, <3>1, <3>2 DEF Dispatch, IsDue
    <3>3. ASSUME NEW u \in todo', when'[u] = nextCount PROVE u \in active'
      BY <1>4, <2>1, <3>1, <3>3 DEF Dispatch
    <3>4. QED
      BY <3>2, <3>3
  <2>3. /\ todo' \subseteq Tasks /\ pc = "dispatch"
        /\ UNCHANGED <<nextCount, stop, maxCycles, moreCycles, residual, pc>>
    BY <1>4 DEF Dispatch
  <2>4. DueIsListed'
    BY <2>2, <2>3
  <2>5. TypeOK' /\ NoMissedDeadline'
    BY <2>1, <2>3
  <2>6. NeverPastStop' /\ IdleCPU' /\ Bounds'
    BY <2>3
  <2>7. QED
    BY <2>4, <2>5, <2>6 DEF IInv
<1>5. CASE BeginSlice
  <2>1. PICK v \in doGetNext(stop - nextCount) :
          nextCount' = nextCount + v /\ maxCycles' = maxCycles + v + residual
    BY <1>5 DEF BeginSlice
  <2>2. /\ v \in Int /\ v >= 0 /\ v <= stop - nextCount
        /\ \A t \in active : v <= when[t] - nextCount
    <3>1. pc = "dispatch" /\ nextCount < stop
      BY <1>5 DEF BeginSlice
    <3>2. v <= stop - nextCount
      BY <2>1 DEF doGetNext
    <3>5. v \in Int /\ v >= 0
      <4>1. CASE v = stop - nextCount
        BY <3>1, <4>1
      <4>2. ASSUME NEW t \in active, when[t] >= nextCount, v = when[t] - nextCount
            PROVE  v \in Int /\ v >= 0
        BY <4>2
      <4>3. QED
        BY <2>1, <4>1, <4>2 DEF doGetNext
    <3>3. \A t \in active : v <= when[t] - nextCount
      BY <2>1 DEF doGetNext
    <3>4. QED
      BY <3>2, <3>5, <3>3
  <2>3. QED
    BY <1>5, <2>1, <2>2 DEF BeginSlice
<1>6. ASSUME NEW e \in Entries, NEW c \in Costs, NEW traced \in BOOLEAN,
             EnterMaxCycles(e, c, traced)
      PROVE  IInv'
  <2>1. e + c \in Nat /\ \A x \in Extras : e + c + x <= Overshoot
    OBVIOUS
  <2>2. CASE traced /\ maxCycles > e
    BY <1>6, <2>1, <2>2 DEF EnterMaxCycles, ictVars
  <2>3. CASE ~(traced /\ maxCycles > e)
    BY <1>6, <2>1, <2>3 DEF EnterMaxCycles, ictVars
  <2>4. QED
    BY <2>2, <2>3
<1>7. ASSUME NEW t \in Tasks, NEW n \in Delays, ExecuteAdd(t, n) PROVE IInv'
  BY <1>7, AddStep
<1>8. CASE NeedToGetOut
  BY <1>8 DEF NeedToGetOut, ictVars
<1>9. ASSUME NEW e \in Extras, EndExecute(e) PROVE IInv'
  BY <1>9 DEF EndExecute, ictVars
<1>10. ASSUME NEW c \in Costs, DecodeNext(c) PROVE IInv'
  BY <1>10 DEF DecodeNext, ictVars
<1>11. ASSUME NEW c \in Costs, LeaveMaxCycles(c) PROVE IInv'
  BY <1>11 DEF LeaveMaxCycles, ictVars
<1>12. CASE EndSlice
  <2>1. residual' = maxCycles /\ -Overshoot <= residual' /\ residual' <= 0
    BY <1>12 DEF EndSlice
  <2>2. CASE stop = nextCount
    BY <1>12, <2>1, <2>2 DEF EndSlice, ictVars
  <2>3. CASE stop # nextCount
    <3>1. /\ pc' = "dispatch" /\ todo' = active /\ maxCycles' = 0
          /\ UNCHANGED <<active, when, nextCount, stop, moreCycles>>
      BY <1>12, <2>3 DEF EndSlice, ictVars
    <3>2. DueIsListed' /\ IdleCPU'
      BY <1>12, <2>3, <3>1 DEF EndSlice
    <3>3. QED
      BY <1>12, <2>1, <3>1, <3>2 DEF EndSlice
  <2>4. QED
    BY <2>2, <2>3
<1>13. CASE UNCHANGED vars
  BY <1>13 DEF vars
<1>14. QED
  BY <1>1, <1>2, <1>3, <1>4, <1>5, <1>6, <1>7, <1>8, <1>9, <1>10, <1>11,
     <1>12, <1>13 DEF Next, Running

(* The inductive invariant holds of every reachable state.                 *)
THEOREM Invariance == Spec => []IInv
  BY InitIInv, NextIInv, PTL DEF Spec

(* Types: in particular V_MaxCyclesToGo and its companions stay integers   *)
(* and every armed task is a registered one.                               *)
THEOREM TypeCorrect == Spec => []TypeOK
  BY Invariance, PTL DEF IInv

(* No task is ever left behind its deadline, for any tasks and delays.     *)
THEOREM DeadlinesKept == Spec => []NoMissedDeadline
  BY Invariance, PTL DEF IInv

(* The subtraction StopiCount - nextCount never wraps.                     *)
THEOREM StopNotPassed == Spec => []NeverPastStop
  BY Invariance, PTL DEF IInv

(* The comment of doGetNext holds: the next slice is never empty.          *)
THEOREM SlicesNotEmpty == Spec => []SliceNotEmpty
<1>1. IInv => SliceNotEmpty
  BY DEF IInv, SliceNotEmpty, TypeOK, NoMissedDeadline, DueIsListed, IsDue
<1>2. QED
  BY <1>1, Invariance, PTL

---------------------------------------------------------------------------
(* Refinement: each step of the loop is a step of the clock or none.       *)

clockVars == <<CpuClock, [t \in active |-> when[t]], pc = "exec">>

(* Steps that only move cycles between the counters.                       *)
LEMMA Bookkeeping ==
    ASSUME IInv,
           \/ \E n \in Budgets : StartRun(n)
           \/ BeginSlice \/ NeedToGetOut \/ EndSlice
           \/ \E c \in Costs : LeaveMaxCycles(c)
           \/ UNCHANGED vars
    PROVE  UNCHANGED clockVars
<1> USE DEF IInv, TypeOK, IdleCPU, Bounds, CpuClock, InSlice, getCurrent,
            getCyclesRemaining, clockVars
<1>1. ASSUME NEW n \in Budgets, StartRun(n) PROVE UNCHANGED clockVars
  BY <1>1 DEF StartRun, ictVars, cpuVars
<1>2. CASE BeginSlice
  <2>1. PICK v \in doGetNext(stop - nextCount) :
          nextCount' = nextCount + v /\ maxCycles' = maxCycles + v + residual
    BY <1>2 DEF BeginSlice
  <2>2. v \in Int
    BY <2>1 DEF doGetNext
  <2>3. CpuClock' = CpuClock
    BY <1>2, <2>1, <2>2 DEF BeginSlice
  <2>4. QED
    BY <1>2, <2>3 DEF BeginSlice
<1>3. CASE NeedToGetOut
  BY <1>3 DEF NeedToGetOut, ictVars
<1>4. CASE EndSlice
  BY <1>4 DEF EndSlice, ictVars
<1>5. ASSUME NEW c \in Costs, LeaveMaxCycles(c) PROVE UNCHANGED clockVars
  BY <1>5 DEF LeaveMaxCycles, ictVars
<1>6. CASE UNCHANGED vars
  BY <1>6 DEF vars
<1>7. QED
  BY <1>1, <1>2, <1>3, <1>4, <1>5, <1>6

(* The initial states are the task clock's.                                *)
LEMMA InitClock == Init => Clock!Init
  BY DEF Init, Clock!Init, Clock!NoDelay, CpuClock, InSlice

(* add in the middle of an instruction: the deadline is exactly n cycles   *)
(* ahead of the CPU, and cutting the slice moves no cycle.                 *)
LEMMA AddIsArm ==
    ASSUME IInv, NEW t \in Tasks, NEW n \in Delays, ExecuteAdd(t, n)
    PROVE  Clock!ArmBusy(t, n)
<1> USE DEF ExecuteAdd, add, getCurrent, getCyclesRemaining, IInv, TypeOK
<1>1. CpuClock = getCurrent /\ CpuClock' = getCurrent'
  BY DEF CpuClock, InSlice
<1>2. getCurrent' = getCurrent
  <2>1. CASE getCyclesRemaining > n
    <3>1. setCyclesRemaining(n) /\ nextCount' = getCurrent + n
      BY <2>1
    <3>2. moreCycles' + maxCycles' = n
      BY <3>1 DEF setCyclesRemaining
    <3>3. QED
      BY <3>1, <3>2
  <2>2. CASE ~(getCyclesRemaining > n)
    BY <2>2
  <2>3. QED
    BY <2>1, <2>2
<1>3. when' = [when EXCEPT ![t] = CpuClock + n] /\ active' = active \cup {t}
  BY <1>1
<1>4. [u \in active' |-> when'[u]] =
        [u \in active \cup {t} |-> IF u \in {t} THEN CpuClock + n ELSE when[u]]
  BY <1>3
<1>5. QED
  BY <1>1, <1>2, <1>4 DEF Clock!ArmBusy, Clock!Arm, Clock!Armed

(* Every step of the scheduler is one of the task clock, or a stutter.     *)
LEMMA NextClock == IInv /\ [Next]_vars => [Clock!Next]_(Clock!vars)
<1> SUFFICES ASSUME IInv, [Next]_vars PROVE [Clock!Next]_(Clock!vars)
  OBVIOUS
<1> USE DEF CpuClock, InSlice, getCurrent, getCyclesRemaining
<1>1. ASSUME NEW t \in Tasks, NEW n \in Delays, OutsideAdd([u \in {t} |-> n])
      PROVE  Clock!ArmIdle(t, n)
  <2>1. /\ CpuClock = nextCount - residual /\ CpuClock' = CpuClock
        /\ -residual \in 0..Overshoot /\ CpuClock - (-residual) = nextCount
    BY <1>1 DEF OutsideAdd, IInv, TypeOK, Bounds
  <2>2. [u \in active' |-> when'[u]] =
          [u \in active \cup {t} |-> IF u \in {t} THEN nextCount + n ELSE when[u]]
    BY <1>1 DEF OutsideAdd, addIdle, IInv, TypeOK
  <2>3. Clock!Arm(active, CpuClock - (-residual), [u \in {t} |-> n])
    BY <2>1, <2>2 DEF Clock!Arm
  <2>4. QED
    BY <1>1, <2>1, <2>3 DEF Clock!ArmIdle, Clock!Armed, OutsideAdd
<1>2. CASE Zap
  BY <1>2 DEF Zap, Clock!Next, Clock!Reset, Clock!NoDelay, IInv, TypeOK, Bounds
<1>3. ASSUME NEW t \in Tasks, NEW delay \in Arming, Dispatch(t, delay)
      PROVE  Clock!Fire(t, delay)
  <2>1. t \in active /\ when[t] = nextCount
    BY <1>3 DEF Dispatch, IsDue, IInv, DueIsListed
  <2>2. CpuClock = nextCount - residual /\ CpuClock' = CpuClock
    BY <1>3 DEF Dispatch
  <2>3. \A u \in active : when[t] < when[u] \/ (when[t] = when[u] /\ t <= u)
    BY <1>3, <2>1 DEF Dispatch, IsDue, IInv, TypeOK, NoMissedDeadline, DueIsListed
  <2>4. [u \in active' |-> when'[u]] =
          [u \in (active \ {t}) \cup DOMAIN delay |->
              IF u \in DOMAIN delay THEN when[t] + delay[u] ELSE when[u]]
    BY <1>3, <2>1, ArmingFacts DEF Dispatch, addIdle, IInv, TypeOK
  <2>5. when[t] <= CpuClock
    BY <2>1, <2>2 DEF IInv, TypeOK, Bounds
  <2>6. ~(pc = "exec") /\ pc' = pc
    BY <1>3 DEF Dispatch
  <2>7. QED
    BY <2>1, <2>2, <2>3, <2>4, <2>5, <2>6 DEF Clock!Fire, Clock!Arm, Clock!Armed
<1>4. ASSUME NEW e \in Entries, NEW c \in Costs, NEW traced \in BOOLEAN,
             EnterMaxCycles(e, c, traced)
      PROVE  Clock!BeginInstruction
  BY <1>4 DEF EnterMaxCycles, ictVars, Clock!BeginInstruction, Clock!Armed,
              IInv, TypeOK, Bounds, NoMissedDeadline
<1>5. ASSUME NEW e \in Extras, EndExecute(e) PROVE Clock!EndInstruction
  BY <1>5 DEF EndExecute, ictVars, Clock!EndInstruction, IInv, TypeOK
<1>6. ASSUME NEW c \in Costs, DecodeNext(c) PROVE Clock!BeginInstruction
  BY <1>6 DEF DecodeNext, ictVars, Clock!BeginInstruction, Clock!Armed,
              IInv, TypeOK, Bounds, NoMissedDeadline
<1>7. CASE UNCHANGED clockVars
  BY <1>7 DEF clockVars, Clock!vars
<1>8. Clock!Arming = Arming
  BY DEF Clock!Arming, Arming, Clock!NoDelay, NoDelay
<1>9. QED
  BY <1>1, <1>2, <1>3, <1>4, <1>5, <1>6, <1>7, <1>8, AddIsArm, Bookkeeping
     DEF Next, Running, Clock!Next

(* The scheduler implements the task clock: tasks run at their deadlines,  *)
(* in deadline order, before any later instruction, and no cycle is lost   *)
(* or counted twice however slices are cut.                                *)
THEOREM Implementation == Spec => ImplementsTaskClock
  BY InitClock, NextClock, Invariance, PTL DEF Spec, ImplementsTaskClock, Clock!Spec

---------------------------------------------------------------------------
(* The machine with interrupts. *)

USE InterruptAssumption

(* The inductive invariant: the scheduler's, and besides: the level is the *)
(* one the lines ask for, a level above the mask is pending, and what is   *)
(* pending ends the pass through the CPU loop.                             *)
Own ==
    /\ MachineTypeOK
    /\ curIPL = NewIPL(lines)
    /\ NoLostInterrupt
    /\ LastOfPass

MachineInv == IInv /\ Own

(* What the scheduler's invariant says here.                               *)
LEMMA SchedFacts == IInv => /\ nextCount \in Int /\ residual \in Int
                            /\ pc \in {"outside", "dispatch"} => maxCycles = 0
                            /\ maxCycles \in Int /\ moreCycles \in Int
  BY DEF IInv, TypeOK, IdleCPU

(* The encoder yields an interrupt level.                                  *)
LEMMA LevelInRange ==
    \A ls \in [Lines -> BOOLEAN] : NewIPL(ls) \in 0..7
<1> SUFFICES ASSUME NEW ls \in [Lines -> BOOLEAN] PROVE NewIPL(ls) \in 0..7
  OBVIOUS
<1>1. \A b \in BOOLEAN : Bit(b) \in {0, 1}
  BY DEF Bit
<1>2. \A l \in Lines : ls[l] \in BOOLEAN
  OBVIOUS
<1>3. {"button", "SCC", "VIA2", "VIA1"} \subseteq Lines
  BY DEF Lines
<1>4. Bit(ls["VIA1"]) \in {0, 1} /\ Bit(ls["SCC"]) \in {0, 1} /\ Bit(ls["button"]) \in {0, 1}
      /\ Bit(ls["VIA1"] /\ ~ls["SCC"]) \in {0, 1}
  BY <1>1, <1>2, <1>3
<1>5. CASE MacII
  BY <1>2, <1>3, <1>4, <1>5 DEF NewIPL
<1>6. CASE ~MacII
  <2>1. NewIPL(ls) = Bit(ls["VIA1"] /\ ~ls["SCC"]) + 2 * Bit(ls["SCC"]) + 4 * Bit(ls["button"])
    BY <1>6 DEF NewIPL
  <2>2. \A x \in {0, 1}, y \in {0, 1}, z \in {0, 1} : x + 2 * y + 4 * z \in 0..7
    OBVIOUS
  <2>3. QED
    BY <1>4, <2>1, <2>2
<1>7. QED
  BY <1>5, <1>6

(* The high byte of the status register yields a mask and a trace bit.     *)
LEMMA MaskInRange == \A high \in Highs : MaskOf(high) \in 0..7 /\ TraceOf(high) \in BOOLEAN
  BY DEF MaskOf, TraceOf

(* The machine starts with nothing requested and nothing pending.          *)
LEMMA InitMachine == MachineInit => MachineInv
<1> SUFFICES ASSUME MachineInit PROVE MachineInv
  OBVIOUS
<1>1. Init /\ IInv
  BY InitIInv DEF MachineInit
<1>2. maxCycles \in Int /\ moreCycles \in Int
  BY <1>1, SchedFacts
<1>3. lines \in [Lines -> BOOLEAN] /\ curIPL = 0 /\ intmask = 7
  BY DEF MachineInit
<1>4. MachineTypeOK
  <2>1. curIPL \in 0..7 /\ intmask \in 0..7
    BY <1>3
  <2>2. t1 = FALSE /\ pending = FALSE /\ tracePending = FALSE
    BY DEF MachineInit
  <2>3. QED
    BY <1>2, <1>3, <2>1, <2>2, Zenon DEF MachineTypeOK
<1>5. curIPL = NewIPL(lines)
  <2>1. \A l \in {"button", "SCC", "VIA2", "VIA1"} : lines[l] = FALSE
    BY DEF MachineInit, Lines
  <2>2. NewIPL(lines) = 0
    <3>1. CASE MacII
      BY <2>1, <3>1 DEF NewIPL, Bit
    <3>2. CASE ~MacII
      BY <2>1, <3>2 DEF NewIPL, Bit
    <3>3. QED
      BY <3>1, <3>2
  <2>3. QED
    BY <1>3, <2>2
<1>6. QED
  BY <1>1, <1>4, <1>5 DEF MachineInit, Init, MachineInv, Own, NoLostInterrupt, LastOfPass

(* NeedToGetOut leaves no cycles to decode another instruction with.       *)
LEMMA GotOut ==
    ASSUME maxCycles \in Int, moreCycles \in Int, needToGetOut
    PROVE  maxCycles' \in Int /\ moreCycles' \in Int /\ maxCycles' <= 0
  BY DEF needToGetOut

(* A change of a line, wherever it happens.                                *)
LEMMA LineStep ==
    ASSUME MachineInv, NEW l \in Lines, NEW v \in BOOLEAN, LineChange(l, v)
    PROVE  Own'
<1> DEFINE raised == curIPL' # curIPL /\ Unmasked(curIPL', intmask)
<1>1. /\ lines' \in [Lines -> BOOLEAN] /\ curIPL' = NewIPL(lines') /\ curIPL' \in 0..7
      /\ UNCHANGED <<pc, intmask, t1, tracePending>>
      /\ pending' = (pending \/ raised)
      /\ setExternalInterruptPending(raised)
  BY LevelInRange DEF LineChange, setLine, setExternalInterruptPending, MachineInv, Own, MachineTypeOK
<1>2. maxCycles' \in Int /\ moreCycles' \in Int
  BY <1>1, GotOut DEF setExternalInterruptPending, MachineInv, Own, MachineTypeOK
<1>3. MachineTypeOK'
  BY <1>1, <1>2 DEF MachineInv, Own, MachineTypeOK
<1>4. NoLostInterrupt'
  BY <1>1 DEF MachineInv, Own, MachineTypeOK, NoLostInterrupt, Unmasked
<1>5. LastOfPass'
  <2>1. CASE raised
    BY <1>1, <2>1, GotOut DEF setExternalInterruptPending, MachineInv, Own, MachineTypeOK, LastOfPass
  <2>2. CASE ~raised
    BY <1>1, <2>2 DEF setExternalInterruptPending, MachineInv, Own, LastOfPass
  <2>3. QED
    BY <2>1, <2>2
<1>6. QED
  BY <1>1, <1>3, <1>4, <1>5 DEF MachineInv, Own

(* m68k_setSR: any change of the mask makes the CPU look again.            *)
LEMMA SetSRStep ==
    ASSUME MachineInv, NEW high \in Highs, SetSR(high)
    PROVE  Own'
<1>1. MaskOf(high) \in 0..7 /\ TraceOf(high) \in BOOLEAN
  BY MaskInRange
<1>2. /\ UNCHANGED <<pc, lines, curIPL, tracePending>>
      /\ intmask' = MaskOf(high) /\ t1' = TraceOf(high)
      /\ pending' = (pending \/ MaskOf(high) # intmask)
  BY DEF SetSR
<1>3. CASE MaskOf(high) # intmask \/ TraceOf(high)
  <2>1. needToGetOut
    BY <1>3 DEF SetSR
  <2>2. maxCycles' \in Int /\ moreCycles' \in Int /\ maxCycles' <= 0
    BY <2>1, GotOut DEF MachineInv, Own, MachineTypeOK
  <2>3. QED
    BY <1>1, <1>2, <2>2 DEF MachineInv, Own, MachineTypeOK, NoLostInterrupt, LastOfPass
<1>4. CASE ~(MaskOf(high) # intmask \/ TraceOf(high))
  <2>1. UNCHANGED <<maxCycles, moreCycles>>
    BY <1>4 DEF SetSR
  <2>2. QED
    BY <1>1, <1>2, <1>4, <2>1 DEF MachineInv, Own, MachineTypeOK, NoLostInterrupt, LastOfPass
<1>5. QED
  BY <1>3, <1>4

(* The head of the loop: a pending interrupt is taken and raises the mask  *)
(* to its own level, or is no longer above the mask.                       *)
LEMMA EnterStep ==
    ASSUME MachineInv, NEW c \in Costs, EnterCPU(c)
    PROVE  Own' /\ curIPL' <= intmask'
<1> DEFINE taken == pending /\ Unmasked(curIPL, intmask)
           e == (IF tracePending THEN TraceCost ELSE 0) +
                (IF taken THEN InterruptCost ELSE 0)
           traced == t1 /\ ~tracePending /\ ~taken
<1>1. /\ EnterMaxCycles(e, c, traced)
      /\ pending' = FALSE /\ t1' = traced /\ tracePending' = traced
      /\ intmask' = IF taken THEN curIPL ELSE intmask
      /\ UNCHANGED <<lines, curIPL>>
  BY DEF EnterCPU
<1>2. e \in Nat /\ c \in Nat /\ c > 0
  OBVIOUS
<1> HIDE DEF e
<1>3. /\ maxCycles' \in Int /\ moreCycles' \in Int
      /\ traced => maxCycles' <= 0
      /\ pc = "cpu" /\ pc' = "exec" /\ maxCycles > 0
  BY <1>1, <1>2 DEF EnterMaxCycles, MachineInv, Own, MachineTypeOK
<1>4. curIPL' <= intmask'
  BY <1>1 DEF MachineInv, Own, MachineTypeOK, NoLostInterrupt, Unmasked
<1>5. MachineTypeOK'
  BY <1>1, <1>3 DEF MachineInv, Own, MachineTypeOK
<1>6. NoLostInterrupt' /\ LastOfPass'
  BY <1>1, <1>3, <1>4, <1>5 DEF NoLostInterrupt, LastOfPass, MachineTypeOK
<1>7. QED
  BY <1>1, <1>4, <1>5, <1>6 DEF MachineInv, Own

(* The loop's own steps do not give the pass new cycles once an exception  *)
(* is pending: in particular, a device that arms a task can only cut.      *)
LEMMA LoopStep ==
    ASSUME MachineInv, Loop
    PROVE  /\ Own'
           /\ (pc # "exec" /\ pc' = "exec") => ~pending /\ ~tracePending
<1>1. UNCHANGED <<lines, curIPL, intmask, t1, pending, tracePending>>
  BY DEF Loop, intVars
<1>2. maxCycles \in Int /\ moreCycles \in Int
  BY DEF MachineInv, Own, MachineTypeOK
<1> DEFINE Kept == /\ maxCycles' \in Int /\ moreCycles' \in Int
                   /\ pc' \in {"exec", "decode"} =>
                        pc \in {"exec", "decode"} /\ (maxCycles <= 0 => maxCycles' <= 0)
                   /\ pc # "exec" /\ pc' = "exec" => pc = "decode" /\ maxCycles > 0
<1>3. ASSUME NEW t \in Tasks, NEW n \in Delays, OutsideAdd([u \in {t} |-> n])
      PROVE  Kept
  BY <1>2, <1>3 DEF OutsideAdd
<1>4. ASSUME NEW n \in Budgets, StartRun(n)
      PROVE  Kept
  BY <1>2, <1>4 DEF StartRun, cpuVars
<1>5. ASSUME NEW t \in Tasks, NEW delay \in Arming, Dispatch(t, delay)
      PROVE  Kept
  BY <1>2, <1>5 DEF Dispatch
<1>7. ASSUME NEW t \in Tasks, NEW n \in Delays, ExecuteAdd(t, n)
      PROVE  Kept
  <2>1. n \in Nat \ {0} /\ UNCHANGED pc
    BY <1>7 DEF ExecuteAdd
  <2>2. CASE getCyclesRemaining > n
    <3>1. setCyclesRemaining(n)
      BY <1>7, <2>2 DEF ExecuteAdd, add
    <3>2. QED
      BY <1>2, <2>1, <3>1 DEF setCyclesRemaining
  <2>3. CASE ~(getCyclesRemaining > n)
    <3>1. UNCHANGED <<maxCycles, moreCycles>>
      BY <1>7, <2>3 DEF ExecuteAdd, add
    <3>2. QED
      BY <1>2, <2>1, <3>1
  <2>4. QED
    BY <2>2, <2>3
<1>8. ASSUME NEW e \in Extras, EndExecute(e)
      PROVE  Kept
  <2>1. e \in Nat
    OBVIOUS
  <2>2. QED
    BY <1>2, <1>8, <2>1 DEF EndExecute
<1>9. ASSUME NEW c \in Costs, DecodeNext(c)
      PROVE  Kept
  <2>1. c \in Nat \ {0}
    OBVIOUS
  <2>2. QED
    BY <1>2, <1>9, <2>1 DEF DecodeNext
<1>10. ASSUME NEW c \in Costs, LeaveMaxCycles(c)
       PROVE  Kept
  BY <1>2, <1>10 DEF LeaveMaxCycles
<1>11. ASSUME EndSlice
       PROVE  Kept
  BY <1>2, <1>11 DEF EndSlice
<1>12a. IInv'
  <2>1. [Next]_vars
    BY DEF Loop, Next, Running
  <2>2. QED
    BY <2>1, NextIInv DEF MachineInv
<1> DEFINE Entered == BeginSlice
<1>12. CASE ~Entered
  <2>1. Kept
    BY <1>3, <1>4, <1>5, <1>7, <1>8, <1>9, <1>10, <1>11, <1>12 DEF Loop
  <2>2. MachineTypeOK' /\ curIPL' = NewIPL(lines') /\ NoLostInterrupt'
    BY <1>1, <2>1 DEF MachineInv, Own, MachineTypeOK, NoLostInterrupt
  <2>3. LastOfPass'
    BY <1>1, <1>2, <2>1 DEF MachineInv, Own, LastOfPass
  <2>4. (pc # "exec" /\ pc' = "exec") => ~pending /\ ~tracePending
    BY <1>2, <2>1 DEF MachineInv, Own, LastOfPass
  <2>5. QED
    BY <2>2, <2>3, <2>4 DEF MachineInv, Own
<1>13. CASE Entered
  <2>2. moreCycles' = moreCycles /\ pc' = "cpu"
    BY <1>13 DEF BeginSlice
  <2>3. maxCycles' \in Int
    BY <1>12a DEF IInv, TypeOK
  <2>4. QED
    BY <1>1, <2>2, <2>3, <1>2 DEF MachineInv, Own, MachineTypeOK, NoLostInterrupt, LastOfPass
<1>14. QED
  BY <1>12, <1>13

(* Every step of the machine with interrupts is a step of the scheduler:   *)
(* outside an instruction there is no slice left to put aside.             *)
LEMMA GotOutSched ==
    ASSUME MachineInv, needToGetOut \/ UNCHANGED <<maxCycles, moreCycles>>,
           pc \in {"outside", "dispatch", "exec"},
           UNCHANGED <<active, when, nextCount, todo, stop, residual, pc>>
    PROVE  [Next]_vars
<1>1. pc \in {"outside", "dispatch"} => maxCycles = 0
  BY SchedFacts DEF MachineInv
<1>2. maxCycles \in Int
  BY SchedFacts DEF MachineInv
<1>3. CASE maxCycles <= 0 \/ UNCHANGED <<maxCycles, moreCycles>>
  BY <1>3 DEF needToGetOut, vars
<1>4. CASE maxCycles > 0 /\ needToGetOut
  <2>1. NeedToGetOut
    BY <1>1, <1>2, <1>4 DEF needToGetOut, NeedToGetOut, ictVars
  <2>2. QED
    BY <2>1 DEF Next, Running
<1>5. QED
  BY <1>2, <1>3, <1>4

(* The refinement step.                                                    *)
LEMMA NextSched == MachineInv /\ [MachineNext]_machineVars => [Next]_vars
<1> SUFFICES ASSUME MachineInv, [MachineNext]_machineVars PROVE [Next]_vars
  OBVIOUS
<1>1. CASE Loop
  BY <1>1 DEF Loop, Next, Running
<1>2. CASE MachineZap
  BY <1>2 DEF MachineZap, Next
<1>3. CASE Trap
  BY <1>3 DEF Trap, vars
<1>4. ASSUME NEW l \in Lines, NEW v \in BOOLEAN, LineChange(l, v)
      PROVE  [Next]_vars
  <2>1. needToGetOut \/ UNCHANGED <<maxCycles, moreCycles>>
    BY <1>4 DEF LineChange, setLine, setExternalInterruptPending
  <2>2. QED
    BY <1>4, <2>1, GotOutSched DEF LineChange
<1>5. ASSUME NEW high \in Highs, SetSR(high)
      PROVE  [Next]_vars
  <2>1. needToGetOut \/ UNCHANGED <<maxCycles, moreCycles>>
    BY <1>5 DEF SetSR
  <2>2. QED
    BY <1>5, <2>1, GotOutSched DEF SetSR
<1>6. ASSUME NEW c \in Costs, EnterCPU(c)
      PROVE  [Next]_vars
  <2> DEFINE taken == pending /\ Unmasked(curIPL, intmask)
             e == (IF tracePending THEN TraceCost ELSE 0) +
                  (IF taken THEN InterruptCost ELSE 0)
             traced == t1 /\ ~tracePending /\ ~taken
  <2>1. EnterMaxCycles(e, c, traced)
    BY <1>6 DEF EnterCPU
  <2>2. e \in Entries
    OBVIOUS
  <2>3. traced \in BOOLEAN
    OBVIOUS
  <2> HIDE DEF e, traced
  <2>4. QED
    BY <2>1, <2>2, <2>3 DEF Next, Running
<1>7. CASE UNCHANGED machineVars
  BY <1>7 DEF machineVars, vars
<1>8. QED
  BY <1>1, <1>2, <1>3, <1>4, <1>5, <1>6, <1>7 DEF MachineNext

(* A reset drops every line but the button, and masks everything else.     *)
LEMMA ZapStep == MachineInv /\ MachineZap => Own' /\ pc' # "exec"
<1> SUFFICES ASSUME MachineInv, MachineZap PROVE Own' /\ pc' # "exec"
  OBVIOUS
<1>1. /\ pc' = "outside" /\ maxCycles' = 0 /\ moreCycles' = 0
      /\ intmask' = 7 /\ t1' = FALSE /\ pending' = FALSE /\ tracePending' = FALSE
  BY DEF MachineZap, Zap
<1>2. lines' \in [Lines -> BOOLEAN] /\ curIPL' = NewIPL(lines')
  BY DEF MachineZap, MachineInv, Own, MachineTypeOK
<1>3. curIPL' \in 0..7
  BY <1>2, LevelInRange
<1>4. MachineTypeOK'
  <2>1. intmask' \in 0..7 /\ maxCycles' \in Int /\ moreCycles' \in Int
    BY <1>1
  <2>2. QED
    BY <1>1, <1>2, <1>3, <2>1, Zenon DEF MachineTypeOK
<1>5. NoLostInterrupt' /\ LastOfPass'
  BY <1>1, <1>3 DEF NoLostInterrupt, LastOfPass
<1>6. QED
  BY <1>1, <1>2, <1>4, <1>5 DEF Own

(* Every step preserves the inductive invariant, and none begins an        *)
(* instruction with an exception waiting.                                  *)
LEMMA NextMachine ==
    MachineInv /\ [MachineNext]_machineVars =>
        /\ MachineInv'
        /\ pc # "exec" /\ pc' = "exec" =>
              curIPL' <= intmask' /\ (pc = "decode" => ~tracePending)
<1> SUFFICES ASSUME MachineInv, [MachineNext]_machineVars
             PROVE  /\ Own'
                    /\ pc # "exec" /\ pc' = "exec" =>
                          curIPL' <= intmask' /\ (pc = "decode" => ~tracePending)
  BY NextSched, NextIInv DEF MachineInv
<1>1. CASE Loop
  <2>1. UNCHANGED <<curIPL, intmask>>
    BY <1>1 DEF Loop, intVars
  <2>2. ~pending => curIPL <= intmask
    BY DEF MachineInv, Own, MachineTypeOK, NoLostInterrupt
  <2>3. QED
    BY <1>1, <2>1, <2>2, LoopStep
<1>2. CASE MachineZap
  BY <1>2, ZapStep
<1>3. CASE Trap
  <2>1. /\ UNCHANGED <<maxCycles, moreCycles, pc, lines, curIPL, intmask, pending>>
        /\ t1' = FALSE /\ tracePending' = FALSE
    BY <1>3 DEF Trap, vars
  <2>2. MachineTypeOK' /\ NoLostInterrupt'
    BY <2>1 DEF MachineInv, Own, MachineTypeOK, NoLostInterrupt
  <2>3. LastOfPass' /\ curIPL' = NewIPL(lines')
    BY <2>1 DEF MachineInv, Own, LastOfPass
  <2>4. QED
    BY <2>1, <2>2, <2>3 DEF Own
<1>4. ASSUME NEW l \in Lines, NEW v \in BOOLEAN, LineChange(l, v)
      PROVE  Own' /\ pc' = pc
  BY <1>4, LineStep DEF LineChange
<1>5. ASSUME NEW high \in Highs, SetSR(high)
      PROVE  Own' /\ pc' = pc
  BY <1>5, SetSRStep DEF SetSR
<1>6. ASSUME NEW c \in Costs, EnterCPU(c)
      PROVE  Own' /\ curIPL' <= intmask' /\ pc = "cpu"
  BY <1>6, EnterStep DEF EnterCPU, EnterMaxCycles
<1>7. CASE UNCHANGED machineVars
  BY <1>7 DEF machineVars, vars, intVars, MachineInv, Own, MachineTypeOK, NoLostInterrupt, LastOfPass
<1>8. QED
  BY <1>1, <1>2, <1>3, <1>4, <1>5, <1>6, <1>7 DEF MachineNext

---------------------------------------------------------------------------
(* Theorems.                                                               *)

(* The invariant holds of every reachable state.                           *)
THEOREM MachineInvariance == MachineSpec => []MachineInv
<1>1. MachineInv /\ [MachineNext]_machineVars => MachineInv'
  BY NextMachine
<1>2. QED
  BY InitMachine, <1>1, PTL DEF MachineSpec

(* The interrupt state keeps its types (Interrupts.MachineTypeOK).                *)
THEOREM MachineTypes == MachineSpec => []MachineTypeOK
<1>1. MachineInv => MachineTypeOK
  BY DEF MachineInv, Own
<1>2. QED
  BY MachineInvariance, <1>1, PTL

(* NewIPL, setSR and DoCheckExternalInterruptPending between them lose no  *)
(* interrupt: a level above the mask is always pending.                    *)
THEOREM InterruptsKept == MachineSpec => []NoLostInterrupt
<1>1. MachineInv => NoLostInterrupt
  BY DEF MachineInv, Own
<1>2. QED
  BY MachineInvariance, <1>1, PTL

(* The slice loop of m68k_go_nCycles is left in time: no instruction       *)
(* begins with an unmasked interrupt waiting or a trace exception owed.    *)
THEOREM ExceptionsInTime == MachineSpec => ExceptionsBeforeInstruction
<1>1. MachineInv /\ [MachineNext]_machineVars =>
        [(pc # "exec" /\ pc' = "exec") =>
          /\ curIPL' <= intmask'
          /\ pc = "decode" => ~tracePending]_machineVars
  BY NextMachine
<1>2. QED
  BY MachineInvariance, <1>1, PTL DEF MachineSpec, ExceptionsBeforeInstruction

(* The machine with interrupts implements ICTScheduler, so no deadline is  *)
(* missed and no slice is empty when interrupts cut the slices either.     *)
THEOREM MachineImplementation == MachineSpec => ImplementsScheduler
<1>1. MachineInit => Init
  BY DEF MachineInit
<1>2. QED
  BY <1>1, NextSched, MachineInvariance, PTL DEF MachineSpec, ImplementsScheduler, Spec
===========================================================================
