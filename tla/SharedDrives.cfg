SPECIFICATION Spec
CONSTANTS
    kMaxDrives = 2
    kMaxFCBs = 1
    MaxMounts = 3
    MaxWD = 3
    MaxOpens = 1
    MaxUpsets = 1
INVARIANTS TypeOK SidesAgree FilesKept
PROPERTY Delivered
CHECK_DEADLOCK FALSE
