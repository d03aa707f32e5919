CONSTANTS
    D = D
    F = F
    G = G
    Objects = {D, F, G}
    Directories = {D}
    Size <- MCSize
    LastCluster = 10
    Setups <- MCSetups
    InitialPlaces <- MCPlaces
SPECIFICATION Spec
INVARIANTS TypeOK NoInternalFailure CompletedIsSatisfied
PROPERTY OnlyFreeDestinations
