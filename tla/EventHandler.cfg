SPECIFICATION HandlerSpec
CONSTANTS
    Ports = {p1, p2, p3, p4, p5, p6}
    Times = {0, 1, 2}
    MinimumSize = 2
    Port = Port
    NoPort = NoPort
    Events = {in, out}
    TokenCount = 4
    OwedBound = 6
SYMMETRY Symmetry
INVARIANT MapIsInverse
INVARIANT CapacityFits
PROPERTY EachPortItsOwn
PROPERTY RefinesTimeouts
INVARIANT TokensConserved
INVARIANT MaskIsUnion
PROPERTY RefinesDescriptor
