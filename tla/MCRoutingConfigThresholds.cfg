SPECIFICATION ConfigSpec
CONSTANTS
    Nil = Nil
    Global = Global
    c1 = c1
    c2 = c2
    m1 = m1
    m2 = m2
    field = field
    Chains <- MCChains
    Fields = {field}
    Methods = {m1, m2}
    Sections <- MCThresholdSections
    DefaultField <- MCDefaultField
    DefaultErrorRate = 25
    DefaultMaxLatency = 99
    MaxRate = 100
CHECK_DEADLOCK FALSE
INVARIANTS
    ThresholdsAsSpecified
