SPECIFICATION Spec
CONSTANTS
    Owners = {"ann", "bob"}
    Blind = {"bob"}
    Requests <- MCRequests
    Starts <- MCStarts
    Attempts = 3
    MaxFaults = 2
    None = "nothing"
    Apps <- MCApps
    Mode <- MCMode
    Public = {"wallet", "board"}
    SpaceEnsured = {"board"}
    Casts <- MCCasts
    MaxOthers = 2
INVARIANT CreatorStands
PROPERTIES Provisioned NothingOverwritten OnlyTheStated Heals
