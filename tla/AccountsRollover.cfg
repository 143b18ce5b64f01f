SPECIFICATION AccountsSpec
CONSTANTS
    m1 = m1
    m2 = m2
    Macs = {m1, m2}
    Names = {m1, m2}
    ChosenNames = {}
    Lengths = {1}
    RefMod = 2
    MaxUsage = 2
    DayLength = 3
    DaysInMonth = 2
    RolloverDays = {1, 2}
    MaxTime = 8
    MaxCharged = 2
    BadTimes = {}
    NoEnd = NoEnd
SYMMETRY MacSymmetry
INVARIANTS
    RollsOncePerPeriod
CHECK_DEADLOCK FALSE
