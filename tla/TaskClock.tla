----------------------------- MODULE TaskClock -----------------------------
(***************************************************************************)
(* What the scheduler of core/ict_scheduler.h promises to the devices,     *)
(* with no slices: a clock that the instructions of the guest advance, and *)
(* tasks with deadlines on it.                                             *)
(***************************************************************************)
EXTENDS Integers

CONSTANTS Tasks, Delays, Costs, Extras, Entries,
          Overshoot   \* how far an instruction may carry the clock past a deadline

VARIABLES
    clock,   \* cycles the CPU has been charged
    due,     \* deadline of each armed task; its domain is the armed tasks
    busy     \* an instruction is being executed

vars == <<clock, due, busy>>

Armed == DOMAIN due

(* The armed tasks of "base" keep their deadlines, those of "delay" get    *)
(* one counted from "from".                                                *)
Arm(base, from, delay) ==
    due' = [t \in base \cup DOMAIN delay |->
               IF t \in DOMAIN delay THEN from + delay[t] ELSE due[t]]

NoDelay == [t \in {} |-> 0]
Arming == {NoDelay} \cup UNION {[{t} -> Delays] : t \in Tasks}

Init == clock = 0 /\ due = NoDelay /\ busy = FALSE

(* An instruction begins only while every deadline is still ahead.         *)
BeginInstruction ==
    /\ ~busy /\ \A t \in Armed : due[t] > clock
    /\ busy' = TRUE
    /\ \E e \in Entries \cup {0}, c \in Costs : clock' = clock + e + c
    /\ UNCHANGED due

(* It arms a task, exactly n cycles from the time the CPU has reached.     *)
ArmBusy(t, n) ==
    /\ busy
    /\ Arm(Armed, clock, [u \in {t} |-> n])
    /\ UNCHANGED <<clock, busy>>

EndInstruction ==
    /\ busy /\ busy' = FALSE
    /\ \E x \in Extras : clock' = clock + x
    /\ UNCHANGED due

(* Between instructions a task is armed relative to the scheduled end of   *)
(* the last slice, which the clock may have overshot.                      *)
ArmIdle(t, n) ==
    /\ ~busy
    /\ \E late \in 0..Overshoot : Arm(Armed, clock - late, [u \in {t} |-> n])
    /\ UNCHANGED <<clock, busy>>

(* The earliest task whose deadline has come runs, ties in task order; its *)
(* handler arms tasks relative to that deadline.                           *)
Fire(t, delay) ==
    /\ ~busy /\ t \in Armed /\ due[t] <= clock
    /\ \A u \in Armed : due[t] < due[u] \/ (due[t] = due[u] /\ t <= u)
    /\ Arm(Armed \ {t}, due[t], delay)
    /\ UNCHANGED <<clock, busy>>

(* Power-on reset forgets the tasks and the overshoot.                     *)
Reset ==
    /\ ~busy /\ due' = NoDelay
    /\ \E late \in 0..Overshoot : clock' = clock - late
    /\ UNCHANGED busy

Next ==
    \/ BeginInstruction \/ EndInstruction \/ Reset
    \/ \E t \in Tasks, n \in Delays : ArmBusy(t, n) \/ ArmIdle(t, n)
    \/ \E t \in Tasks, delay \in Arming : Fire(t, delay)

Spec == Init /\ [][Next]_vars
===========================================================================
