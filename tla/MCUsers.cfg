SPECIFICATION UsersSpec
CONSTANTS
    m1 = m1
    m2 = m2
    m3 = m3
    alice = alice
    Macs = {m1, m2, m3}
    Names = {m1, m2, m3, alice}
    ChosenNames = {m1, m2, m3, alice}
    Lengths = {1, 2}
    RefMod = 3
    MaxUsage = 2
SYMMETRY MacSymmetry
INVARIANTS
    UsersTypeOK
    MappingsValid
    ReferencesCounted
    UsageConserved
    PagesAddUp
PROPERTIES
    ImplementsLedger
