-------------------------- MODULE MCICTScheduler --------------------------
(* The scheduler with two tasks and one-cycle granularity.                 *)
EXTENDS ICTScheduler

MCTasks == {0, 1}
MCDelays == {1, 3}
MCBudgets == {4, 2}
MCCosts == {1, 2}
MCExtras == {0, 1}
MCEntries == {0, 2}
===========================================================================
