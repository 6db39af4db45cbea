SPECIFICATION FairSpec
CONSTANTS
    plain = plain
    direct = direct
    edited = edited
    broken = broken
    Invalid = Invalid
    k1 = k1
    k2 = k2
    None = None
    Confs = {plain, direct, edited, broken}
    Calls = {k1, k2}
    Normal <- MCNormal
INVARIANTS
    SettingsAgree
    AutostartKnown
    WritesPossible
PROPERTIES
    SettingsEnd
