SPECIFICATION HostSpec
CHECK_DEADLOCK FALSE
CONSTANTS
    Nobody = Nobody
    Closed = Closed
    Garbage = Garbage
    Pid = {p1, p2, p3}
    Slot = {s1}
    Inode = {i1, i2}
    Event = {e1, e2}
    MaxEvents = 3
    Tears = {"cut", "bare"}
    Errors = TRUE
    Solo = {r1, r2}
    Intake = {t1}
    Holder = h
    Borrower = {b1, b2}
    Decision = {d1, d2}
    Wording = {handed}
    Handed = handed
    Reply = {yes}
    NoReply = NoReply
    Convention = {}
    IntakeKey = {k1, k2}
    CreatesIt = k0
    NoKey = NoKey
    MaxRounds = 2
    MaxRejections = 2
    MaxRevision = 3
    Route = {a}
    Formula = {f, q}
    Quoted = {q}
    Correction = {harmless, bold}
    Harmless = {harmless}
    MaxRepairRounds = 2
    CallsLeft = 3
    MaxVersion = 2
    MaxSlips = 2
    Decisions = {n1}
    MaxMoves = 3
    MaxPresses = 2
    MaxLosses = 1
    User = {u1, u2}
    Admin = {u1, u2}
    Attempt = {1}
    Request = {q1, q2}
    IdleFor = 1
    AbsoluteFor = 2
    MaxTime = 2
    MaxChanges = 3
SYMMETRY Interchangeable
INVARIANTS
    ChildrenCovered
    TypesetSound
PROPERTIES
    LockImplementsOwner
    OwnersHonest
    LeaseImplementsOwner
    LogIsDurable
    SiteSound
    IntakeSound
    PageSound
    IntakeIsOnce
