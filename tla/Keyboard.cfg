SPECIFICATION FairSpec
CONSTANTS
    ShortKeys = {s}
    LongKeys = {l}
    MaxWait = 3
    Patience = 6
    MaxKeys = 3
INVARIANTS TypeOK TaskMatchesState KeysInOrder NeverSilent
PROPERTIES AnswersAwaited KeysArrive
