SPECIFICATION Spec
CONSTANTS
    None = None
    c1 = c1
    c2 = c2
    c3 = c3
    Calls = {c1, c2, c3}
    Ops <- MCOps
    Items = {1, 2, 3}
    MaxPages = 3
    MaxFaults = 1
    MaxChanges = 1
INVARIANTS WalksAreTrue StaysOnItsServer DescriptionIsShared
PROPERTIES EveryCallEnds
