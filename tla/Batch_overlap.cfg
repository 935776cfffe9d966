SPECIFICATION Spec
CONSTANTS
    Services  = {"pws"}
    Period   <- Periods
    Threads   = {t1, t2}
    MaxRecord = 4
    MaxMinute = 3
    MaxSkew   = 1
SYMMETRY ThreadSymmetry
INVARIANT AveragesSent
