SPECIFICATION AccountsSpec
CONSTANTS
    m1 = m1
    m2 = m2
    Macs = {m1, m2}
    Names = {m1, m2}
    ChosenNames = {}
    Lengths = {1}
    RefMod = 2
    MaxUsage = 2
    DayLength = 1
    DaysInMonth = 2
    RolloverDays = {1, 2}
    MaxTime = 3
    MaxCharged = 2
    BadTimes = {2}
    NoEnd = NoEnd
SYMMETRY MacSymmetry
INVARIANTS
    ReferencesCounted
    UsageConserved
PROPERTIES
    LossBounded
CHECK_DEADLOCK FALSE
