CONSTANTS
    a = a
    b = b
    bad = bad
    one = one
    low = low
    wide = wide
    six = six
    any = any
    Exe = {a, b, bad}
    ValidExe = {a, b}
    Spec4 <- MCSpec4
    Spec6 <- MCSpec6
    AnyIp = any
    V4Max = 4
    V6Max = 1
    PortMax = 3
    ChunkSize = 1
    Offers <- MCOffers
    MaxRules = 2
SPECIFICATION Spec
INVARIANTS
    TypeOK
    NoLeak
    NoOverblock
