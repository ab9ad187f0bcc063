SPECIFICATION AllSpec
CONSTANTS
    Run = {r1, r2}
    QueueSize = 2
    Unpublished = 2
    MaxEvent = 5
    CreateKey = {k1, k2}
    CommandKey = {c1}
    Payload = {p1, p2}
    Intake <- IntakeCreates
    NoRun = none
    NoAnswer = pending
    MaxLines = 4
    Export = {e1, e2}
    Snapshot = {s1}
    Instant = {t1}
    MaxFormulas = 3
    Faults = {"tectonic_timeout", "tectonic_compile_failed"}
    MaxDirectory = 2
INVARIANTS
    RunsSound
PROPERTIES
    CommandEnds
    PageFollows
    LedgerSound
    ReportSound
