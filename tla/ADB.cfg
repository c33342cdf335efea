SPECIFICATION Spec
CONSTANTS
    Moves <- MCMoves
    KeyCodes = {10}
    Commands <- MCCommands
    ListenBytes = {254}
    ShiftModes = {0, 3, 7}
    MaxSzDatBuf = 2
    MaxEvents = 2
INVARIANTS TypeOK InputKept PressInPlace AnswerWhole
PROPERTY Announced
