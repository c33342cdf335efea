--------------------------- MODULE ICTScheduler ---------------------------
(***************************************************************************)
(* The cycle scheduler of the emulated machine and the CPU loop that it    *)
(* slices: core/ict_scheduler.cpp, m68k_go_nCycles_1 in core/main.cpp, and *)
(* the cycle accounting of cpu/m68k.cpp.                                   *)
(*                                                                         *)
(* Time is the scaled cycle count.  nextCount is the time at which the     *)
(* current slice of CPU execution ends, so the guest's own "now" is        *)
(* nextCount minus the cycles the CPU has left.  A device arms a task by   *)
(* calling add from a register access in the middle of an instruction,     *)
(* from another task's handler, or from the once-a-tick notifications that *)
(* run between slices.                                                     *)
(***************************************************************************)
EXTENDS Integers, FiniteSets

CONSTANTS Tasks,      \* task ids, tried in ascending order
          Delays,     \* cyclesFromNow values that add is called with
          Budgets,    \* cycles per tick and per sub-tick
          Costs,      \* cycles an instruction is charged at its decode
          Extras,     \* cycles it charges while executing (shifts, MOVEM ...)
          Entries,    \* cycles of the exceptions taken on entering the loop
          Overshoot,  \* the most one pass through the CPU loop can overrun
          MaxTime     \* bound: no run is started beyond this count

(* "n must be > 0", the comment in add; an instruction always costs, and   *)
(* the loop is entered without an exception as well.                       *)
ASSUME SchedulerAssumption ==
    /\ Tasks \subseteq Nat
    /\ Delays \subseteq Nat \ {0}
    /\ Budgets \subseteq Nat \ {0}
    /\ Costs \subseteq Nat \ {0}
    /\ Extras \subseteq Nat
    /\ Entries \subseteq Nat /\ 0 \in Entries
    /\ Overshoot \in Nat
    /\ \A e \in Entries, c \in Costs, x \in Extras : e + c + x <= Overshoot
    /\ \A x \in Extras : x <= Overshoot
    /\ MaxTime \in Nat

VARIABLES
    active,       \* armed tasks
    when,         \* deadline of each task
    nextCount,    \* time at which the current slice ends
    todo,         \* doCurrentTasks: what is left of the snapshot of active
    stop,         \* m68k_go_nCycles_1: StopiCount
    maxCycles,    \* V_MaxCyclesToGo
    moreCycles,   \* V_regs.MoreCyclesToGo
    residual,     \* V_regs.ResidualCycles, the overshoot of the last slice
    pc            \* where the emulation thread is

ictVars == <<active, when, nextCount>>
cpuVars == <<maxCycles, moreCycles, residual>>
vars == <<active, when, nextCount, todo, stop, maxCycles, moreCycles, residual, pc>>

(* "outside"  between two runs: the notifications of a tick              *)
(* "dispatch" in doCurrentTasks                                          *)
(* "cpu"      at the head of the while loop of m68k_go_nCycles           *)
(* "exec"     an instruction was charged and is about to take effect     *)
(* "decode"   it took effect, the next one is about to be decoded        *)
Places == {"outside", "dispatch", "cpu", "exec", "decode"}
InSlice == pc \in {"cpu", "exec", "decode"}

---------------------------------------------------------------------------
(* Scheduler operations.                                                   *)

getCyclesRemaining == moreCycles + maxCycles

getCurrent == nextCount - getCyclesRemaining

setCyclesRemaining(n) ==
    IF maxCycles >= n
    THEN moreCycles' = 0 /\ maxCycles' = n
    ELSE moreCycles' = n - maxCycles /\ maxCycles' = maxCycles

(* (Mutant) the slice is not cut when the deadline falls inside it.        *)
addUncut(t, n) ==
    /\ when' = [when EXCEPT ![t] = getCurrent + n]
    /\ active' = active \cup {t}
    /\ UNCHANGED <<nextCount, maxCycles, moreCycles>>

(* Arm task t to run n cycles from now; a slice that would run past the    *)
(* deadline is cut short.                                                  *)
add(t, n) ==
    LET w == getCurrent + n
    IN  /\ when' = [when EXCEPT ![t] = w]
        /\ active' = active \cup {t}
        /\ IF getCyclesRemaining > n
           THEN setCyclesRemaining(n) /\ nextCount' = w
           ELSE UNCHANGED <<nextCount, maxCycles, moreCycles>>

(* The same from a place where no cycles remain: several tasks at once,    *)
(* delay[t] for each t of its domain.                                      *)
addIdle(base, delay) ==
    /\ when' = [t \in Tasks |-> IF t \in DOMAIN delay
                                THEN nextCount + delay[t] ELSE when[t]]
    /\ active' = base \cup DOMAIN delay

(* The results of doGetNext(maxn): the time to the nearest deadline, at    *)
(* most maxn.  The difference is unsigned, so that a deadline that was     *)
(* missed looks very far away.                                             *)
doGetNext(maxn) ==
    LET ds == {maxn} \cup
              {when[t] - nextCount : t \in {u \in active : when[u] >= nextCount}}
    IN  {v \in ds : \A d \in ds : v <= d}

(* (Mutant) a task is due only once its deadline has passed.               *)
IsDueLate(t) == t \in todo /\ when[t] < nextCount

IsDue(t) == t \in todo /\ when[t] = nextCount

---------------------------------------------------------------------------
Init ==
    /\ active = {} /\ when = [t \in Tasks |-> 0] /\ nextCount = 0
    /\ todo = {} /\ stop = 0
    /\ maxCycles = 0 /\ moreCycles = 0 /\ residual = 0
    /\ pc = "outside"

(* A once-a-tick notification arms a task.                                 *)
OutsideAdd(delay) ==
    /\ pc = "outside"
    /\ addIdle(active, delay)
    /\ UNCHANGED <<nextCount, todo, stop, maxCycles, moreCycles, residual, pc>>

(* EmulatedHardwareZap: the scheduler is emptied and the CPU reset.        *)
Zap ==
    /\ pc = "outside"
    /\ active' = {}
    /\ maxCycles' = 0 /\ moreCycles' = 0 /\ residual' = 0
    /\ UNCHANGED <<when, nextCount, todo, stop, pc>>

(* m68k_go_nCycles_1 is called for a tick or a sub-tick.                   *)
StartRun(n) ==
    /\ pc = "outside" /\ nextCount + n <= MaxTime
    /\ stop' = nextCount + n
    /\ todo' = active
    /\ pc' = "dispatch"
    /\ UNCHANGED <<ictVars, cpuVars>>

(* doCurrentTasks reaches task t: it is disarmed, then its handler runs    *)
(* and may arm tasks, itself included.                                     *)
Dispatch(t, delay) ==
    /\ pc = "dispatch" /\ IsDue(t)
    /\ \A u \in todo : IsDue(u) => t <= u
    /\ todo' = {u \in todo : u > t}
    /\ addIdle(active \ {t}, delay)
    /\ UNCHANGED <<nextCount, stop, maxCycles, moreCycles, residual, pc>>

(* doCurrentTasks returns; doGetNext sizes the slice; go_nCycles begins.   *)
BeginSlice ==
    /\ pc = "dispatch" /\ \A u \in todo : ~IsDue(u)
    /\ \E v \in doGetNext(stop - nextCount) :
          /\ nextCount' = nextCount + v
          /\ maxCycles' = maxCycles + v + residual
    /\ todo' = {}
    /\ pc' = "cpu"
    /\ UNCHANGED <<active, when, stop, moreCycles, residual>>

(* m68k_go_MaxCycles is entered after e cycles of trace and interrupt      *)
(* exceptions; its first instruction runs whatever it costs.  When the     *)
(* trace bit is set do_trace puts the rest of the slice aside first.       *)
EnterMaxCycles(e, c, traced) ==
    /\ pc = "cpu" /\ maxCycles > 0
    /\ pc' = "exec"
    /\ IF traced /\ maxCycles > e
       THEN moreCycles' = moreCycles + maxCycles - e /\ maxCycles' = -c
       ELSE moreCycles' = moreCycles /\ maxCycles' = maxCycles - e - c
    /\ UNCHANGED <<ictVars, todo, stop, residual>>

(* A memory access of the instruction makes a device arm task t; one       *)
(* instruction can make several accesses.                                  *)
ExecuteAdd(t, n) ==
    /\ pc = "exec"
    /\ add(t, n)
    /\ UNCHANGED <<todo, stop, residual, pc>>

(* NeedToGetOut: the loop must be left after this instruction, because an  *)
(* interrupt became pending, the mask changed or trace was set.            *)
NeedToGetOut ==
    /\ pc = "exec" /\ maxCycles > 0
    /\ moreCycles' = moreCycles + maxCycles
    /\ maxCycles' = 0
    /\ UNCHANGED <<ictVars, todo, stop, residual, pc>>

(* The instruction is complete; it charged e more cycles on its way.       *)
EndExecute(e) ==
    /\ pc = "exec" /\ pc' = "decode"
    /\ maxCycles' = maxCycles - e
    /\ UNCHANGED <<ictVars, todo, stop, moreCycles, residual>>

(* The next instruction costs c and still fits: it is begun.               *)
DecodeNext(c) ==
    /\ pc = "decode" /\ maxCycles - c > 0
    /\ maxCycles' = maxCycles - c
    /\ pc' = "exec"
    /\ UNCHANGED <<ictVars, todo, stop, moreCycles, residual>>

(* It does not fit: UndecodeNextInstruction, and m68k_go_nCycles takes the *)
(* cycles that NeedToGetOut had set aside back.                            *)
LeaveMaxCycles(c) ==
    /\ pc = "decode" /\ maxCycles - c <= 0
    /\ maxCycles' = maxCycles + moreCycles
    /\ moreCycles' = 0
    /\ pc' = "cpu"
    /\ UNCHANGED <<ictVars, todo, stop, residual>>

(* (Mutant) the overshoot of the slice is forgotten.                       *)
EndSliceNoResidual ==
    /\ pc = "cpu" /\ maxCycles <= 0
    /\ residual' = 0 /\ maxCycles' = 0
    /\ IF stop = nextCount
       THEN pc' = "outside" /\ todo' = {}
       ELSE pc' = "dispatch" /\ todo' = active
    /\ UNCHANGED <<ictVars, stop, moreCycles>>

(* go_nCycles returns, its overshoot kept for the next slice, and the loop *)
(* of m68k_go_nCycles_1 goes round or ends.                                *)
EndSlice ==
    /\ pc = "cpu" /\ maxCycles <= 0
    /\ residual' = maxCycles
    /\ maxCycles' = 0
    /\ IF stop = nextCount
       THEN pc' = "outside" /\ todo' = {}
       ELSE pc' = "dispatch" /\ todo' = active
    /\ UNCHANGED <<ictVars, stop, moreCycles>>

(* What a handler or a notification may arm: one task, or nothing.         *)
NoDelay == [t \in {} |-> 0]
Arming == {NoDelay} \cup UNION {[{t} -> Delays] : t \in Tasks}

Running ==
    \/ \E t \in Tasks, delay \in Arming : Dispatch(t, delay)
    \/ BeginSlice
    \/ \E e \in Entries, c \in Costs, traced \in BOOLEAN : EnterMaxCycles(e, c, traced)
    \/ \E t \in Tasks, n \in Delays : ExecuteAdd(t, n)
    \/ NeedToGetOut
    \/ \E e \in Extras : EndExecute(e)
    \/ \E c \in Costs : DecodeNext(c)
    \/ \E c \in Costs : LeaveMaxCycles(c)
    \/ EndSlice

Next ==
    \/ \E t \in Tasks, n \in Delays : OutsideAdd([u \in {t} |-> n])
    \/ Zap
    \/ \E n \in Budgets : StartRun(n)
    \/ Running

Spec == Init /\ [][Next]_vars

(* One thread runs the loop and nothing in it waits; an instruction makes  *)
(* only so many accesses.                                                  *)
FairSpec ==
    /\ Spec
    /\ WF_vars(Running)
    /\ WF_vars(\E e \in Extras : EndExecute(e))

---------------------------------------------------------------------------
(* Properties.                                                             *)

TypeOK ==
    /\ active \subseteq Tasks /\ when \in [Tasks -> Int] /\ nextCount \in Int
    /\ todo \subseteq Tasks /\ stop \in Int
    /\ maxCycles \in Int /\ moreCycles \in Nat /\ residual \in Int
    /\ pc \in Places

(* No deadline is ever missed: doCurrentTasks compares a deadline with     *)
(* nextCount for equality, so a task whose deadline nextCount had passed   *)
(* would stay armed and never run.  Cutting a slice short, the overshoot   *)
(* of an instruction and re-arming in a handler all must keep every        *)
(* deadline at or after nextCount.                                         *)
NoMissedDeadline == \A t \in active : when[t] >= nextCount

(* The comment in doGetNext, "at this point d must be > 0": the slice it   *)
(* sizes is not empty, though handlers have just armed tasks, and so       *)
(* m68k_go_nCycles_1 cannot spin without running the CPU.                  *)
SliceNotEmpty ==
    (pc = "dispatch" /\ \A u \in todo : ~IsDue(u)) =>
        /\ \A t \in active : when[t] > nextCount
        /\ stop > nextCount

(* The unsigned StopiCount - nextCount of m68k_go_nCycles_1 never wraps.   *)
NeverPastStop == pc # "outside" => nextCount <= stop

(* Every tick and sub-tick that is started comes to its end, whatever the  *)
(* instructions and the handlers arm meanwhile.                            *)
RunEnds == (pc # "outside") ~> (pc = "outside")

(* The time up to which the CPU has been charged, overshoot included.      *)
CpuClock == IF InSlice THEN getCurrent ELSE nextCount - residual

(* The scheduler implements the task clock of TaskClock.                   *)
Clock == INSTANCE TaskClock WITH
    clock <- CpuClock,
    due <- [t \in active |-> when[t]],
    busy <- pc = "exec"

(* What a task is promised: it runs before any instruction begins at or    *)
(* after its deadline, earliest deadline first, re-armed from the deadline *)
(* and not from the late clock; cutting slices never loses a cycle.        *)
ImplementsTaskClock == Clock!Spec
===========================================================================
