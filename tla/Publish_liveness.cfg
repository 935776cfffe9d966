SPECIFICATION FairSpec
CONSTANTS
    NumServices = 2
    Enabled     = {1, 2}
    AirFields   = {temperature}
    SkyFields   = {uv}
    GustFields  = {}
    Threads     = {t1}
    Hung        = {2}
    Spurious    = TRUE
    MaxSeq      = 4
PROPERTIES
    EverySignalServed
    MainReturnsToRead
