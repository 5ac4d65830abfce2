CONSTANTS
    r1 = r1  k1 = k1  k2 = k2  c1 = c1  c2 = c2  a = a  o = o
    Runs = {r1}
    Claims = {k1}
    Peeking = {r1}
    Closers = {c1, c2}
    Resource <- OneResource
    Owner <- OneOwner
    Workers = {1}
    BufferSize = 2
    HistoryCap = 2
    MaxDrops = 2
SPECIFICATION Spec
INVARIANTS NeverPanics
