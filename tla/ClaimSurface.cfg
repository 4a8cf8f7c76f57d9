CONSTANTS
    s1 = s1
    s2 = s2
    root = root
    a = a
    k = k
    l = l
    i0 = i0
    i00 = i00
    Ids = {root, a}
    RootID = root
    Empty = Empty
    None = None
    SurfaceIDs = {s1, s2}
    defaultSurfaceID = s1
    Catalog = Catalog
    PathKeys = {k, Empty}
    Atoi <- MCAtoi
    Relative = Relative
    Wire <- SlashWire
    Specs <- NoSpecs
    MaxMessages = 5
SPECIFICATION MCSpec
INVARIANT SlashReplacesModel
CHECK_DEADLOCK FALSE
