SPECIFICATION Spec
CONSTANTS
    x = x
    y = y
    z = z
    f1 = f1
    f2 = f2
    s1 = s1
    Hashes = {x}
    Fetchers = {f1, f2}
    Seeders = {s1}
    maxRetainedTorrents = 1
SYMMETRY Symmetry
INVARIANTS
    NeverDroppedUnderReader
