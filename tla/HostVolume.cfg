SPECIFICATION Spec
CONSTANTS
    ForkTypes = {"data", "rsrc"}
    Permissions = {"write"}
    Names = {"a", "b", ".b", "bcd"}
    MacName <- MCMacName
    Given <- MCGiven
    Hidden <- MCHidden
    InitialDisk <- MCFlat
    MaxDepth = 2
    MaxChanges = 2
    MaxHandles = 2
INVARIANTS TypeOK IdentityKept HandleReaches 
PROPERTY ScanShowsDisk
