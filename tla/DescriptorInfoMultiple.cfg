SPECIFICATION FairSpec
CONSTANTS
    Ports = {p1, p2, p3}
    NoPort = NoPort
    TokenCount = 2
    OwedBound = 3
INVARIANT ActiveReadersAreReady
INVARIANT TokensConserved
INVARIANT ReturnFindsEntry
INVARIANT MaskIsUnion
PROPERTY RefinesDescriptor
PROPERTY NeverPassed
PROPERTY EveryReaderIsServed
