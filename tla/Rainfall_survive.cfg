SPECIFICATION Spec
CONSTANTS
    MinsPerHour   = 3
    HoursPerDay   = 2
    DaysPerMonth  = 2
    MonthsPerYear = 2
    Amounts       = {0, 1}
    Empty         = Empty
    Start         = 6
    Horizon       = 14
INVARIANT SaveSurvives
