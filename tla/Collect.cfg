SPECIFICATION Spec

CONSTANTS
    File = {"nmcli", "home", "hotel"}
    Groups <- AllGroups
    ByAge = {"home", "hotel"}
    Lease <- Leases
    NoLease = NoLease
    MaxChanges = 2

INVARIANTS
    Fresh
    OneMoment
    PushedSeen
