SPECIFICATION EitherSpec
CONSTANTS
    HeaderLen = 1
    PacketSize = 2
    BufSize = 4
    Lengths = {1, 2, 4, 5, 8}
    JunkLengths = {0, 1, 3}
    MaxSent = 3
    MaxBytes = 13
    FakeHeaderLen = 2
    FakeBufSize = 4
    FakeLengths = {2, 4, 5}
    FakeJunkLengths = {1, 2, 4}
    FakeStrayLimit = 1
    FakeTidMod = 3
    FakeMaxQueued = 2
    FakeMaxCalls = 3
INVARIANTS
    QueueOfContainers
    NeverBackwards
PROPERTIES
    FakeAnswers
    ShortHeaderCauses
    CallsEnd
\* A test may stop calling.
CHECK_DEADLOCK FALSE
