SPECIFICATION MachineSpec
CONSTANTS
    Tasks <- MCTasks
    Delays <- MCDelays
    Budgets <- MCBudgets
    Costs <- MCCosts
    Extras <- MCExtras
    Entries <- MCEntries
    Highs <- MCHighs
    TraceCost = 1
    InterruptCost = 2
    Overshoot = 5
    MaxTime = 6
    MacII = TRUE
INVARIANT NoLostInterrupt
PROPERTIES ExceptionsBeforeInstruction ImplementsScheduler
