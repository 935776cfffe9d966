SPECIFICATION Spec
CONSTANTS
    NumServices = 3
    Enabled     = {1, 3}
    AirFields   = {temperature}
    SkyFields   = {}
    GustFields  = {gustspeed}
    Threads     = {t1, t2}
    Hung        = {}
    Spurious    = TRUE
    MaxSeq      = 4
SYMMETRY ThreadSymmetry
INVARIANTS
    TypeOK
    Exclusive
    NoLostSignal
    CopyFresh
    CopiesOrdered
PROPERTY ImplementsBroadcast
