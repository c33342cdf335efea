--------------------------- MODULE MCInterrupts ---------------------------
(* A Mac II, one task, and a guest that masks, unmasks and traces.         *)
EXTENDS Interrupts

MCTasks == {0}
MCDelays == {1}
MCBudgets == {3}
MCCosts == {1, 2}
MCExtras == {0}
MCEntries == {0, 1, 2, 3}
MCHighs == {32, 33, 34, 160}   \* S with masks 0, 1 and 2; T1 and S
===========================================================================
