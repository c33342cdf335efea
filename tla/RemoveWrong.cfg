SPECIFICATION Spec
CONSTANTS
    ForkTypes = {"rsrc"}
    Permissions = {"write"}
    Names = {"a", "b"}
    MacName <- MCMacName
    Given <- MCGiven
    Hidden <- MCHidden
    InitialDisk <- MCFlat
    MaxDepth = 2
    MaxChanges = 3
    MaxHandles = 1
PROPERTY
    RemovesWhatItNames
