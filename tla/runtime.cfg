\* A desktop, its sidecars, an import and a deletion under faults.
SPECIFICATION DesktopSpec
CONSTANTS
    Sidecar = {s1, s2, s3}
    None = none
    Stray = stray
    Threshold = 3
    MaxFaults = 3
    File = {f1}
    Deletion = {d1}
    Copy = {1, 2}
INVARIANTS
    DesktopTypeOK
    Owned
    ActsOnce
    NothingLeftBehind
PROPERTIES
    Settles
