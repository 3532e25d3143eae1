SPECIFICATION Spec
CONSTANTS
    m1 = m1
    m2 = m2
    m3 = m3
    s1 = s1
    svc = svc
    other = other
    Epts <- PairEpts
    Home <- PairHome
    Name <- PairName
    NoName = NoName
    NoEpt = NoEpt
    Srcs <- PairSrcs
    Reserved = 1
    BmpSize = 2
    ChanMax = 3
    DestroyLost = FALSE
    UnbindDestroys = TRUE
SYMMETRY Unnamed
INVARIANTS TypeOK BitmapExact UnboundAfterDestroy ServicesMeet
