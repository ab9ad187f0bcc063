\* One branch, a checker, every provider failure, two crashes.
SPECIFICATION OrchSpec
CHECK_DEADLOCK FALSE
CONSTANTS
    Branch = {11}
    Step = {21, 22, 23, 24, 25}
    Call = {31, 32, 33, 34, 35}
    Check = {41, 42, 43, 44}
    Candidate = {51}
    Judgement = {}
    Action = {71}
    Source = {}
    Content = {91, 92}
    None = None
    Task = Task
    V11 = TRUE
    MaxActive = 0
    MaxCalls = 5
    MaxRaw = 1
    Kinds = {"pause_branch", "resume_branch", "abort_model_call", "set_direction", "revise_step"}
    Moves = {"human_pause", "human_resume", "writer_complete", "runtime_failure", "writer_blocked", "instrument_failure"}
    Ends = {"finished", "failed", "aborted"}
    CheckerOn = TRUE
    Retries = 1
    MaxRepairs = 1
    Decisions = {"continue", "complete", "blocked"}
    Opinions = {"ok", "objection"}
    Failures = {"retryable", "fatal", "context"}
    Partials = {91}
    MaxCrashes = 2
    Commands = {"pause", "resume", "interrupt"}
    MaxCommands = 0
INVARIANTS
    CallsCounted
    RecoverySound
    AttemptsAgree
