SPECIFICATION Spec
CONSTANTS
    MinsPerHour   = 2
    HoursPerDay   = 2
    DaysPerMonth  = 2
    MonthsPerYear = 2
    Amounts       = {0, 1}
    Empty         = Empty
    Start         = 14
    Horizon       = 18
INVARIANT YearExact
