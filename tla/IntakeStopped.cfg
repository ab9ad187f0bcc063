\* A capped session with nothing pending: the page offers to start it, and the service refuses.
SPECIFICATION IntakeSpec
CHECK_DEADLOCK FALSE
CONSTANTS
    Decision = {d1}
    Wording = {handed}
    Handed = handed
    Reply = {yes}
    NoReply = NoReply
    Convention = {}
    IntakeKey = {k1, k2}
    CreatesIt = k0
    NoKey = NoKey
    MaxRounds = 2
    MaxRejections = 2
    MaxRevision = 3
INVARIANT
    StoppedCanStart
