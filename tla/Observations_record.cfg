SPECIFICATION Spec
CONSTANTS
    Temps        = {5, 6, 7}
    Speeds       = {1, 2, 3}
    GustInterval = 3
    DaysPerMonth = 3
    MaxDay       = 4
INVARIANTS
    TypeOK
    ResetNotPublished
    HighLowOfToday
    DerivedRecent
    GustRecent
    HighestUsed
