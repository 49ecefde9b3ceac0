SPECIFICATION LibrarySpec
CONSTANTS
    Width = 4
    Precision = 2
    NaN = NaN
    MessageBits = {0, 1, 2, 3, 4, 7, 8, 9, 10, 11, 12, 16, 17}
    WordBytes = 8
    TypedDataTypes = {kUint8, kInt8}
    kUint8 = kUint8
    DataOffset = 5
    ObjectSize = 7
    LengthSize = 1
    AddressSize = 3
    MaxSize = 12
    Arguments = {x1, x2}
    MaxCount = 3
    NoArgument = NoArgument
    Numbers = {0, 1, 2}
    NotANumber = NotANumber
    nullptr = nullptr
    Arrays = {a1, a2}
    Blocks = {b1, b2, b3}
    Values = {v1, v2}
    Garbage = Garbage
    Null = Null
    MaxCells = 4
    Strings = {s1, s2, s3}
    NULL = NULL
    Groups = {g1, g2, g3}
    Buffers = {k1, k2}
    Starters = {t1, t2}
    NoBuffer = NoBuffer
    Resolvers = {t3, t4, t5}
    Names = {n1, n2, n3, n4}
    NoName = NoName
    Users = {u1, u2, u3}
    References = {r1, r2}
    Creator = u1
    MaxAccesses = 1
    Nobody = Nobody
SYMMETRY Symmetry
CHECK_DEADLOCK FALSE
INVARIANT BoundsAreExact
INVARIANT WrapsOnce
INVARIANT WordsAreExact
INVARIANT DoublesAreExact
INVARIANT ConfigurationIsConsistent
INVARIANT DataIsReadAsWritten
INVARIANT ArgumentsAreThoseAdded
INVARIANT FailuresAreReported
INVARIANT OneOwnerEach
INVARIANT ActsOnSequence
INVARIANT KernelOutlivesUsers
INVARIANT RaceLosesFew
INVARIANT DeleterKnowsAll
INVARIANT HoldersKnowObject
PROPERTY OnlyTheseLose
