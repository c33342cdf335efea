---------------------------- MODULE Interrupts ----------------------------
(***************************************************************************)
(* Interrupt and trace exceptions: from the request lines of the devices   *)
(* (core/wire_bus.cpp) through the priority encoder of core/machine.cpp to *)
(* the 68000 of cpu/m68k.cpp, which looks for a pending exception only at  *)
(* the head of its slice loop.  The loop itself is ICTScheduler's, which   *)
(* this module extends; here each of its steps also says what it does to   *)
(* the interrupt state.                                                    *)
(***************************************************************************)
EXTENDS ICTScheduler

CONSTANTS MacII,           \* the 3-bit scheme of the Mac II, or the compact one
          Highs,           \* high bytes of the status register the guest sets
          TraceCost,       \* cycles of a trace exception
          InterruptCost    \* cycles of an interrupt exception

VARIABLES
    lines,         \* request lines, and the interrupt button
    curIPL,        \* s_curIPL
    intmask,       \* V_regs.intmask
    t1,            \* V_regs.t1, the trace bit
    pending,       \* V_regs.ExternalInterruptPending
    tracePending   \* V_regs.TracePending

intVars == <<lines, curIPL, intmask, t1, pending, tracePending>>
machineVars == <<vars, intVars>>

ASSUME InterruptAssumption ==
    /\ MacII \in BOOLEAN /\ Highs \subseteq 0..255
    /\ TraceCost \in Nat /\ InterruptCost \in Nat
    /\ {0, TraceCost, InterruptCost, TraceCost + InterruptCost} \subseteq Entries

Lines == {"button", "SCC", "VIA2", "VIA1"}
Bit(b) == IF b THEN 1 ELSE 0

---------------------------------------------------------------------------
(* The level that VIAorSCCinterruptChngNtfy computes from the lines.       *)
NewIPL(ls) ==
    IF MacII
    THEN CASE ls["button"] -> 7
           [] ~ls["button"] /\ ls["SCC"] -> 4
           [] ~ls["button"] /\ ~ls["SCC"] /\ ls["VIA2"] -> 2
           [] OTHER -> Bit(ls["VIA1"])
    ELSE Bit(ls["VIA1"] /\ ~ls["SCC"]) + 2 * Bit(ls["SCC"]) + 4 * Bit(ls["button"])

(* (Mutant) the level has to exceed the mask by two.                       *)
UnmaskedOffByOne(level, mask) == level > mask + 1 \/ level = 7

(* Whether a request of this level gets through the mask.                  *)
Unmasked(level, mask) == level > mask \/ level = 7

(* The high byte of the status register: T1 is bit 7, the mask bits 0-2.   *)
MaskOf(high) == high % 8
TraceOf(high) == high >= 128

(* (Mutant) what is left of the slice is lost.                             *)
needToGetOutLossy ==
    IF maxCycles <= 0
    THEN UNCHANGED <<maxCycles, moreCycles>>
    ELSE maxCycles' = 0 /\ moreCycles' = moreCycles

(* SetExternalInterruptPending and do_trace end with NeedToGetOut: what is *)
(* left of the slice is put aside so that this instruction is the last.    *)
needToGetOut ==
    IF maxCycles <= 0
    THEN UNCHANGED <<maxCycles, moreCycles>>
    ELSE moreCycles' = moreCycles + maxCycles /\ maxCycles' = 0

(* (Mutant) the slice goes on.                                             *)
setExternalInterruptPendingOnly(p) ==
    /\ pending' = (pending \/ p)
    /\ UNCHANGED <<maxCycles, moreCycles>>

setExternalInterruptPending(p) ==
    /\ pending' = (pending \/ p)
    /\ IF p THEN needToGetOut ELSE UNCHANGED <<maxCycles, moreCycles>>

(* A line of WireBus changes, or SetInterruptButton; on a change of level  *)
(* the CPU is told (m68k_IPLchangeNtfy).                                   *)
setLine(l, v) ==
    /\ lines[l] # v
    /\ lines' = [lines EXCEPT ![l] = v]
    /\ curIPL' = NewIPL(lines')
    /\ setExternalInterruptPending(curIPL' # curIPL /\ Unmasked(curIPL', intmask))

---------------------------------------------------------------------------
MachineInit ==
    /\ Init
    /\ lines = [l \in Lines |-> FALSE] /\ curIPL = 0
    /\ intmask = 7 /\ t1 = FALSE /\ pending = FALSE /\ tracePending = FALSE

(* A device changes its line from a tick notification, a task's handler or *)
(* a register access of the instruction being executed.                    *)
LineChange(l, v) ==
    /\ pc \in {"outside", "dispatch", "exec"}
    /\ setLine(l, v)
    /\ UNCHANGED <<active, when, nextCount, todo, stop, residual, pc,
                   intmask, t1, tracePending>>

(* m68k_setSR, from RTE, MOVE to SR and the like.                          *)
SetSR(high) ==
    LET mask == MaskOf(high)
    IN  /\ pc = "exec"
        /\ intmask' = mask /\ t1' = TraceOf(high)
        /\ pending' = (pending \/ mask # intmask)
        /\ IF mask # intmask \/ TraceOf(high)
           THEN needToGetOut
           ELSE UNCHANGED <<maxCycles, moreCycles>>
        /\ UNCHANGED <<active, when, nextCount, todo, stop, residual, pc,
                       lines, curIPL, tracePending>>

(* ExceptionTo, for an exception that the instruction itself causes.       *)
Trap ==
    /\ pc = "exec"
    /\ t1' = FALSE /\ tracePending' = FALSE
    /\ UNCHANGED <<vars, lines, curIPL, intmask, pending>>

(* The head of the loop in m68k_go_nCycles: the trace exception that is    *)
(* owed, then the interrupt if one is pending and still unmasked, then     *)
(* do_trace for the instruction to come.  Either exception clears the      *)
(* trace bit and TracePending.                                             *)
EnterCPU(c) ==
    LET taken == pending /\ Unmasked(curIPL, intmask)
    IN  /\ EnterMaxCycles((IF tracePending THEN TraceCost ELSE 0) +
                                (IF taken THEN InterruptCost ELSE 0), c,
                                t1 /\ ~tracePending /\ ~taken)
        /\ pending' = FALSE
        /\ intmask' = IF taken THEN curIPL ELSE intmask
        /\ t1' = (t1 /\ ~tracePending /\ ~taken)
        /\ tracePending' = t1'
        /\ UNCHANGED <<lines, curIPL>>

(* EmulatedHardwareZap: the VIAs and the SCC drop their lines, then the    *)
(* CPU is reset; the interrupt button is not touched.                      *)
MachineZap ==
    /\ Zap
    /\ lines' = [l \in Lines |-> l = "button" /\ lines[l]]
    /\ curIPL' = NewIPL(lines')
    /\ intmask' = 7 /\ t1' = FALSE /\ pending' = FALSE /\ tracePending' = FALSE

(* Steps of the loop that have nothing to do with interrupts.              *)
Loop ==
    /\ \/ \E t \in Tasks, n \in Delays : OutsideAdd([u \in {t} |-> n])
       \/ \E n \in Budgets : StartRun(n)
       \/ \E t \in Tasks, delay \in Arming : Dispatch(t, delay)
       \/ BeginSlice
       \/ \E t \in Tasks, n \in Delays : ExecuteAdd(t, n)
       \/ \E e \in Extras : EndExecute(e)
       \/ \E c \in Costs : DecodeNext(c) \/ LeaveMaxCycles(c)
       \/ EndSlice
    /\ UNCHANGED intVars

MachineNext ==
    \/ Loop
    \/ MachineZap \/ Trap
    \/ \E l \in Lines, v \in BOOLEAN : LineChange(l, v)
    \/ \E high \in Highs : SetSR(high)
    \/ \E c \in Costs : EnterCPU(c)

MachineSpec == MachineInit /\ [][MachineNext]_machineVars

---------------------------------------------------------------------------
MachineTypeOK ==
    /\ lines \in [Lines -> BOOLEAN] /\ curIPL \in 0..7 /\ intmask \in 0..7
    /\ t1 \in BOOLEAN /\ pending \in BOOLEAN /\ tracePending \in BOOLEAN
    /\ maxCycles \in Int /\ moreCycles \in Int

(* No interrupt is lost: pending is consumed in one place and set in two,  *)
(* yet whenever the level is above the mask the CPU is going to look, be   *)
(* the line raised by a handler between slices, by the instruction itself, *)
(* or uncovered by a lowered mask.                                         *)
NoLostInterrupt == curIPL > intmask => pending

(* No instruction begins while an interrupt above the mask is waiting, or  *)
(* while the trace exception of the instruction before is owed: the slice  *)
(* loop must be left in time, also when the device access that raised the  *)
(* line has just re-sized the slice by arming a task.                      *)
ExceptionsBeforeInstruction ==
    [][(pc # "exec" /\ pc' = "exec") =>
          /\ curIPL' <= intmask'
          /\ pc = "decode" => ~tracePending]_machineVars

(* Once an exception is owed, the instruction being executed is the last   *)
(* of its pass: no cycles are left to decode another one with.             *)
LastOfPass == (pc \in {"exec", "decode"} /\ (tracePending \/ pending)) => maxCycles <= 0

(* The loop with its interrupts is still ICTScheduler's loop, so what is   *)
(* shown of the scheduler holds of the machine with interrupts.            *)
ImplementsScheduler == Spec
===========================================================================
