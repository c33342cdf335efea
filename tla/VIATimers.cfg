SPECIFICATION Spec
CONSTANTS
    Budgets <- MCBudgets
    Costs <- MCCosts
    Extras <- MCExtras
    Entries <- MCEntries
    Loads <- MCLoads
    Overshoot = 3
    MaxTime = 12
    Steps = 2
    StepCycles = 1
    Wrap = 8
    TimeWrap = 1000
    ShortLoad = 2
    Programs <- MCPrograms
INVARIANTS TypeOK DeadlineMatchesCount
PROPERTIES TaskInterrupts Timer1Frozen
