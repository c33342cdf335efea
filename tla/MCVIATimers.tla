---------------------------- MODULE MCVIATimers ----------------------------
(* Counters of four VIA cycles; a guest programs one timer or the other.   *)
EXTENDS VIATimers

MCBudgets == {4}
MCCosts == {3}
MCExtras == {0}
MCEntries == {0}
MCLoads == {1, 3}
MCLoadsWithZero == {0, 3}
MCPrograms == {{T1Task}, {T2Task}}
MCTimer1 == {{T1Task}}
===========================================================================
