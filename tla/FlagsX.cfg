SPECIFICATION Spec
CONSTANTS
    Bits = 4
    Short = 2
    Values = {0, 1, 8, 14}
    Counts = {0, 1, 2, 5}
    MaxLength = 3
PROPERTY XKept
