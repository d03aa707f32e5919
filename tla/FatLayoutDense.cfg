CONSTANTS
    F = F
    G = G
    H = H
    I = I
    Objects = {F, G, H, I}
    Directories = {}
    Size <- MCSize
    LastCluster = 25
    Setups <- MCSetups
    InitialPlaces <- MCPlaces
SPECIFICATION FairUninterrupted
INVARIANTS NoInternalFailure
PROPERTIES OnlyFreeDestinations Terminates
