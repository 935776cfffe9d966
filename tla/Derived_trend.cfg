SPECIFICATION Spec
CONSTANTS
    Window     = 3
    Pressures  = {1, 3}
    Directions <- Bounds
    MaxNow     = 6
    MaxReports = 5
INVARIANTS
    TypeOK
    TrendSpansWindow
    BusiestWindow
    TrendRecovers
