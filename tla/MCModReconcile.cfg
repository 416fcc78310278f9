SPECIFICATION ModsSpec
CONSTANTS
    a = a
    b = b
    c = c
    d = d
    loader = loader
    Packages <- MCPackages
    Provided = {loader}
    Versions <- MCVersions
    Deps <- MCDeps
    Upcoming <- MCUpcoming
    Lists <- MCLists
    MaxPackages = 3
    MaxDepth = 2
    MaxTroubles = 1
INVARIANTS RunningIsResolved OfflineComesBack
PROPERTIES SweepSparesInstalled
