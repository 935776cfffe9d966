SPECIFICATION Spec
CONSTANTS
    Services  = {"pws", "cwop"}
    Period   <- Periods
    Threads   = {t1, t2}
    MaxRecord = 4
    MaxMinute = 4
    MaxSkew   = 1
SYMMETRY ThreadSymmetry
INVARIANTS
    TypeOK
    AveragesExact
    RateKept
    CopiesReleased
