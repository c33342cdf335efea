----------------------------- MODULE VIATimers -----------------------------
(***************************************************************************)
(* The two timers of a VIA (devices/via_base.cpp).  They keep no running   *)
(* counter: each holds the count at the last time it was looked at, and is *)
(* brought up to date by doTimer1Check and doTimer2Check, called from the  *)
(* guest's register accesses, from a scheduler task armed for the expected *)
(* expiry, and around the extra time that speeds above 1x add to a tick.   *)
(* The CPU loop and the scheduler are ICTScheduler's.                      *)
(*                                                                         *)
(* A count is kept in steps of 2^-6 of a VIA cycle, the precision of the   *)
(* code's 16.16 fixed point; a step takes StepCycles cycles.  The square   *)
(* wave that timer 1 can put on port B is left out.                        *)
(***************************************************************************)
EXTENDS Integers, FiniteSets

CONSTANTS Budgets, Costs, Extras, Entries, Overshoot, MaxTime,
          Loads,        \* counts the guest writes, in VIA cycles
          Steps,        \* steps in a VIA cycle (64)
          StepCycles,   \* CYCLES_PER_VIA_TIME
          Wrap,         \* steps after which a counter wraps (2^16 * 64)
          TimeWrap,     \* InstructionCount wraps (2^64)
          ShortLoad,    \* T2 counts below this run in extra time too (128)
          Programs      \* the sets of timers that a guest may program

VARIABLES active, when, nextCount, todo, stop, maxCycles, moreCycles, residual, pc,
    t1,      \* timer 1: T1C_F, latch, T1_Active, T1IntReady, T1Running,
             \* T1LastTime, its IFR bit, and ACR's free-running bit
    t2,      \* timer 2: T2C_F, T2_Active, T2C_ShortTime, T2Running,
             \* T2LastTime, its IFR bit
    extra,   \* extra time is being emulated
    uses     \* the timers this guest programs; never changes

T1Task == 0
T2Task == 1
Tasks == {T1Task, T2Task}
Delays == {n * StepCycles : n \in 1..Wrap}

Sched == INSTANCE ICTScheduler

(* A counter runs out long before the clock wraps.                         *)
ASSUME VIAAssumption ==
    /\ Sched!SchedulerAssumption
    /\ Loads \subseteq Nat
    /\ Steps \in Nat /\ Steps > 1 /\ Wrap \in Nat /\ Wrap > Steps
    /\ StepCycles \in Nat \ {0}
    /\ TimeWrap \in Nat /\ TimeWrap > Wrap * StepCycles
    /\ ShortLoad \in Nat /\ \A p \in Programs : p \subseteq Tasks

schedVars == <<active, when, nextCount, todo, stop, maxCycles, moreCycles, residual, pc>>
vars == <<schedVars, t1, t2, extra, uses>>

now == Sched!getCurrent

---------------------------------------------------------------------------
(* Arithmetic of a timer t.                                                *)

Elapsed(t) == (now - t.last) % TimeWrap
ElapsedSteps(t) == (Elapsed(t) \div StepCycles) % Wrap

(* (Mutant) the 32-bit counter does not wrap.                              *)
CountedDownSigned(t) == t.count - ElapsedSteps(t)

CountedDown(t) == (t.count - ElapsedSteps(t)) % Wrap

Expired(t) ==
    \/ Elapsed(t) > Wrap * StepCycles
    \/ t.count <= ElapsedSteps(t) /\ t.count # 0

(* The count after it ran out, reloaded from the latch as often as needed. *)
Reloaded(t) ==
    LET v == t.latch * Steps
        times == IF v = 0 THEN 1
                 ELSE 1 + ((ElapsedSteps(t) - t.count) % Wrap) \div v
    IN  (CountedDown(t) + v * times) % Wrap

(* (Mutant) the task is armed for the count itself, without the step in    *)
(* which the counter turns over.                                           *)
UntilExpiryShort(count) == IF count <= 1 THEN StepCycles ELSE (count - 1) * StepCycles

(* How far ahead the task that waits for the expiry is armed.              *)
UntilExpiry(count) == IF count = 0 THEN Wrap * StepCycles
                                   ELSE (1 + count) * StepCycles

(* Timer 1 can still interrupt.                                            *)
Counting1(t) == ~t.irq /\ (t.free \/ t.active)

(* Timer 1 brought up to date: what doTimer1Check makes of a running timer *)
LookedAt1(t) ==
    LET late == Elapsed(t) # 0 /\ Expired(t)
        u == [t EXCEPT !.count = IF late /\ t.free THEN Reloaded(t)
                                 ELSE IF Elapsed(t) # 0 THEN CountedDown(t) ELSE @,
                       !.last = now,
                       !.irq = @ \/ (late /\ (t.free \/ t.active)),
                       !.active = @ /\ (t.free \/ ~late)]
    IN  [u EXCEPT !.ready = Counting1(u)]

(* And timer 2.                                                            *)
LookedAt2(t) ==
    LET late == t.active /\ Expired(t)
    IN  [t EXCEPT !.count = CountedDown(t), !.last = now, !.irq = @ \/ late,
                  !.active = @ /\ ~late, !.short = @ /\ ~late]

(* The task a look arms again, for timer 1 left as u1 and timer 2 as u2.   *)
Armed1(u1) ==
    [t \in {x \in {T1Task} : u1.running /\ Counting1(u1)} |-> UntilExpiry(u1.count)]
Armed2(u2) ==
    [t \in {x \in {T2Task} : (u2.running \/ u2.short) /\ u2.active}
        |-> UntilExpiry(u2.count)]
Both(f, g) == [t \in DOMAIN f \cup DOMAIN g |-> IF t \in DOMAIN f THEN f[t] ELSE g[t]]

doTimer1Check(t) == IF t.running THEN LookedAt1(t) ELSE t
doTimer2Check(t) == IF t.running \/ t.short THEN LookedAt2(t) ELSE t

---------------------------------------------------------------------------
(* Register accesses of the instruction being executed.                    *)

Arming(delay) ==
    IF DOMAIN delay = {} THEN UNCHANGED schedVars
    ELSE \E task \in DOMAIN delay : Sched!ExecuteAdd(task, delay[task])

(* The access changes timer 1 to t and then looks at it.                   *)
Access1(t) ==
    LET u == doTimer1Check(t)
    IN  /\ pc = "exec"
        /\ Arming(Armed1(u))
        /\ t1' = u
        /\ UNCHANGED <<t2, extra>>

(* checkT1IntReady looks at the timer only if it has begun to count.       *)
CheckT1IntReady(t) ==
    IF t.running /\ Counting1(t) /\ ~t.ready
    THEN Access1(t)
    ELSE /\ pc = "exec"
         /\ t1' = [t EXCEPT !.ready = IF t.running THEN Counting1(t) ELSE @]
         /\ UNCHANGED <<schedVars, t2, extra>>

(* kT1C_H written: the counter is loaded with the latch and started.       *)
WriteT1C_H(v) ==
    Access1([t1 EXCEPT !.latch = v, !.count = (v * Steps) % Wrap, !.irq = FALSE,
                       !.last = now, !.active = @ \/ ~t1.free])

(* kT1L_L, kT1L_H and kT1C_L written: only the latch changes.              *)
WriteT1Latch(v) ==
    /\ pc = "exec"
    /\ t1' = [t1 EXCEPT !.latch = v]
    /\ UNCHANGED <<schedVars, t2, extra>>

ReadT1C_L == Access1([t1 EXCEPT !.irq = FALSE])
ReadT1C_H == Access1(t1)
WriteACR(free) == CheckT1IntReady([t1 EXCEPT !.free = free])
WriteIFR_T1 == CheckT1IntReady([t1 EXCEPT !.irq = FALSE])

Access2(t, clear) ==
    LET u == doTimer2Check(t)
    IN  /\ pc = "exec"
        /\ Arming(Armed2(u))
        /\ t2' = IF clear THEN [u EXCEPT !.irq = FALSE] ELSE u
        /\ UNCHANGED <<t1, extra>>

(* kT2_H written: T2C_ShortTime is set for a short count and is not        *)
(* cleared for another.                                                    *)
WriteT2_H(v) ==
    Access2([t2 EXCEPT !.count = (v * Steps) % Wrap, !.irq = FALSE, !.active = TRUE,
                       !.last = now, !.short = @ \/ (v < ShortLoad /\ v # 0)], FALSE)

ReadT2_L == Access2(t2, TRUE)
ReadT2_H == Access2(t2, FALSE)

WriteIFR_T2 ==
    /\ pc = "exec"
    /\ t2' = [t2 EXCEPT !.irq = FALSE]
    /\ UNCHANGED <<schedVars, t1, extra>>

(* (Mutant) T1IntReady survives the reset.                                 *)
cleared1StillReady(t) ==
    [t EXCEPT !.count = 0, !.latch = 0, !.active = FALSE, !.irq = FALSE, !.free = FALSE]

(* VIABase::clear.                                                         *)
cleared1(t) == [t EXCEPT !.count = 0, !.latch = 0, !.active = FALSE, !.ready = FALSE,
                         !.irq = FALSE, !.free = FALSE]
cleared2(t) == [t EXCEPT !.count = 0, !.active = FALSE, !.irq = FALSE]

(* The RESET instruction: VIABase::reset.                                  *)
Reset ==
    /\ pc = "exec"
    /\ t1' = cleared1(t1) /\ t2' = cleared2(t2)
    /\ UNCHANGED <<schedVars, extra>>

---------------------------------------------------------------------------
(* Calls from outside the guest.                                           *)

Init ==
    /\ Sched!Init
    /\ t1 = [count |-> 0, latch |-> 0, active |-> FALSE, ready |-> FALSE,
             running |-> TRUE, last |-> 0, irq |-> FALSE, free |-> FALSE]
    /\ t2 = [count |-> 0, active |-> FALSE, short |-> FALSE,
             running |-> TRUE, last |-> 0, irq |-> FALSE]
    /\ extra = FALSE
    /\ uses \in Programs

(* The scheduler runs the task of a timer.                                 *)
Timer1Task ==
    /\ t1' = doTimer1Check(t1)
    /\ Sched!Dispatch(T1Task, Armed1(t1'))
    /\ UNCHANGED <<t2, extra>>

Timer2Task ==
    /\ t2' = doTimer2Check(t2)
    /\ Sched!Dispatch(T2Task, Armed2(t2'))
    /\ UNCHANGED <<t1, extra>>

(* ExtraTimeBeginNotify, after the cycles of the tick.                     *)
ExtraTimeBegin ==
    LET u1 == doTimer1Check(t1)
        u2 == doTimer2Check(t2)
    IN  /\ ~extra /\ extra' = TRUE
        /\ Sched!OutsideAdd(Both(Armed1(u1), Armed2(u2)))
        /\ t1' = [u1 EXCEPT !.running = FALSE]
        /\ t2' = [u2 EXCEPT !.running = FALSE]

(* (Mutant) the clock of timer 1 goes on from where it was stopped.        *)
ExtraTimeEndSameLast ==
    LET u1 == doTimer1Check([t1 EXCEPT !.running = TRUE])
        u2 == doTimer2Check([t2 EXCEPT !.running = TRUE,
                                       !.last = IF t2.short THEN @ ELSE now])
    IN  /\ extra /\ extra' = FALSE
        /\ Sched!OutsideAdd(Both(Armed1(u1), Armed2(u2)))
        /\ t1' = u1 /\ t2' = u2

(* ExtraTimeEndNotify.                                                     *)
ExtraTimeEnd ==
    LET u1 == doTimer1Check([t1 EXCEPT !.running = TRUE, !.last = now])
        u2 == doTimer2Check([t2 EXCEPT !.running = TRUE,
                                       !.last = IF t2.short THEN @ ELSE now])
    IN  /\ extra /\ extra' = FALSE
        /\ Sched!OutsideAdd(Both(Armed1(u1), Armed2(u2)))
        /\ t1' = u1 /\ t2' = u2

(* EmulatedHardwareZap: VIABase::zap, and the scheduler and CPU reset; it  *)
(* is called at the start of a tick.                                       *)
Zap ==
    /\ ~extra
    /\ Sched!Zap
    /\ t1' = cleared1(t1) /\ t2' = cleared2(t2)
    /\ UNCHANGED extra

Loop ==
    /\ \/ \E n \in Budgets : Sched!StartRun(n)
       \/ Sched!BeginSlice
       \/ \E e \in Entries, c \in Costs : Sched!EnterMaxCycles(e, c, FALSE)
       \/ \E e \in Extras : Sched!EndExecute(e)
       \/ \E c \in Costs : Sched!DecodeNext(c) \/ Sched!LeaveMaxCycles(c)
       \/ Sched!EndSlice
    /\ UNCHANGED <<t1, t2, extra>>

AccessTimer1 ==
    \/ \E v \in Loads : WriteT1C_H(v) \/ WriteT1Latch(v)
    \/ ReadT1C_L \/ ReadT1C_H \/ WriteIFR_T1
    \/ \E free \in BOOLEAN : WriteACR(free)

AccessTimer2 ==
    \/ \E v \in Loads : WriteT2_H(v)
    \/ ReadT2_L \/ ReadT2_H \/ WriteIFR_T2

Step ==
    \/ Loop \/ Reset
    \/ T1Task \in uses /\ AccessTimer1
    \/ T2Task \in uses /\ AccessTimer2
    \/ Timer1Task \/ Timer2Task
    \/ ExtraTimeBegin \/ ExtraTimeEnd
    \/ Zap

Next == Step /\ UNCHANGED uses

Spec == Init /\ [][Next]_vars

---------------------------------------------------------------------------
TypeOK ==
    /\ t1 \in [count : 0..(Wrap - 1), latch : Loads \cup {0}, active : BOOLEAN,
               ready : BOOLEAN, running : BOOLEAN, last : Int, irq : BOOLEAN,
               free : BOOLEAN]
    /\ t2 \in [count : 0..(Wrap - 1), active : BOOLEAN, short : BOOLEAN,
               running : BOOLEAN, last : Int, irq : BOOLEAN]

(* A timer that can interrupt always has its task waiting, for exactly the *)
(* expiry that its count and the time of its last look imply, whatever     *)
(* sequence of loads, reads, mode changes, flag clears, resets and extra   *)
(* time went before: otherwise the interrupt would not come until the      *)
(* guest happened to touch the timer.                                      *)
DeadlineMatchesCount ==
    /\ t1.running /\ Counting1(t1) =>
          T1Task \in active /\ when[T1Task] = t1.last + UntilExpiry(t1.count)
    /\ (t2.running \/ t2.short) /\ t2.active =>
          T2Task \in active /\ when[T2Task] = t2.last + UntilExpiry(t2.count)

(* The counts that loads of 1 to 2^16 - 1 leave in a counter.              *)
Loaded(t) == t.count \in 1..(Wrap - Steps)

(* When the task that waits for the expiry runs and the timer is still     *)
(* counting, the interrupt is set, not put off: the task comes neither a   *)
(* step too soon for doTimerNCheck to see the count run out, nor for a     *)
(* count that was changed meanwhile.  (For loads other than 0.)            *)
TaskInterrupts ==
    [][ /\ (Timer1Task /\ t1.running /\ Counting1(t1) /\ Loaded(t1)) => t1'.irq
        /\ (Timer2Task /\ (t2.running \/ t2.short) /\ t2.active /\ Loaded(t2)) => t2'.irq
      ]_vars

(* The same for every load: "subtract elapsed cycles, fire interrupt if    *)
(* countdown expires", the comment of doTimer1Check.                       *)
CountdownInterrupts ==
    [][ (Timer1Task /\ t1.running /\ Counting1(t1)) => t1'.irq ]_vars

(* "VIA timers are frozen for the duration" (main.cpp): timer 1 sets no    *)
(* interrupt in extra time and does not age by it.                         *)
Timer1Frozen ==
    [][ /\ (extra /\ ~t1.irq) => ~(t1'.irq /\ extra')
        /\ (extra /\ ~extra' /\ ~t1.irq) => ~t1'.irq ]_vars

(* A countdown that has not expired does not interrupt: timer 1 sets its   *)
(* flag only once the CPU has run for its count since the last look.       *)
Timer1NotEarly ==
    [][ (~t1.irq /\ t1'.irq) =>
            Sched!CpuClock - t1.last >=
               (IF t1.count = 0 THEN Wrap ELSE t1.count) * StepCycles ]_vars
===========================================================================
