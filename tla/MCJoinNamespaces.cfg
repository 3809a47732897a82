CONSTANTS
    Kinds <- MCKinds
    Objs <- MCObjs
    KindOf <- MCKindOf
    Owner <- MCOwner
    HostUser = "userH"
    Start <- MCStart
    Resolve <- MCResolve
    NoFile = "nofile"
    Lists <- MCLists
SPECIFICATION Spec
INVARIANT TypeOK JoinMatchesReference
