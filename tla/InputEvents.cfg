SPECIFICATION FairSpec
CONSTANTS
    HostKeys = {shift}
    KeptKeys = {}
    ScriptKeys = {k, shift}
    Places = {p, q}
    Origin = p
    TickUnits = 1
    Gap = 1
    Hold = 1
    Lead = 1
    ClickDown = 1
    ClickUp = 2
    LockTicks = 2
    MaxTotal = 5
    MaxEvents <- MixedEvents
INVARIANT NoStuckKey
PROPERTIES EventsInOrder EventsArrive
