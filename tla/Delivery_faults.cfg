SPECIFICATION FairSpec
CONSTANTS
    h1 = h1
    h2 = h2
    Configs <- Files
    Hosts = {h1, h2}
    Local = local
    Hung = {h2}
    Threads = {t1, t2}
    MaxRecords = 2
    MaxOpen = 2
    Topics = 2
CHECK_DEADLOCK FALSE
INVARIANTS
    TypeOK
    DescriptorsExact
    Released
    NoMisuse
    OwnHost
    TopicsWhole
PROPERTIES
    EveryUpdateEnds
