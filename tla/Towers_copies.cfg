SPECIFICATION Spec
CONSTANTS
    Sensors  = {s1, s2}
    NoSensor = none
    Temps    = {5, 6}
    Cells    = {1, 2, 3, 4}
    Kinds    = {"metric", "cwop"}
    Threads  = {t1, t2}
    MaxReadings = 2
SYMMETRY Symmetry
CHECK_DEADLOCK FALSE
INVARIANTS
    TypeOK
    OneOwner
    NoMisuse
    MessageUnits
    UnreadOnlyNewest
    CopyBelowHigh
PROPERTY
    ImplementsRegister
