SPECIFICATION FairSpec
CONSTANTS
    Tasks <- MCTasks
    Delays <- MCDelays
    Budgets <- MCBudgets
    Costs <- MCCosts
    Extras <- MCExtras
    Entries <- MCEntries
    Overshoot = 5
    MaxTime = 6
INVARIANT NoMissedDeadline
PROPERTIES RunEnds ImplementsTaskClock
