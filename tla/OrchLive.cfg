\* Liveness with a checker: every driver comes to rest, every pause takes hold.
SPECIFICATION FairSpec
CHECK_DEADLOCK FALSE
CONSTANTS
    Branch = {11, 12, 13}
    Step = {21, 22, 23, 24}
    Call = {31, 32, 33, 34, 35}
    Check = {41, 42, 43, 44}
    Candidate = {51, 52, 53}
    Judgement = {}
    Action = {71, 72, 73, 74, 75, 76}
    Source = {}
    Content = {91}
    None = None
    Task = Task
    V11 = TRUE
    MaxActive = 2
    MaxCalls = 5
    MaxRaw = 1
    Kinds = {"pause_branch", "resume_branch", "abort_model_call", "set_direction", "revise_step"}
    Moves = {"human_pause", "human_resume", "writer_complete", "runtime_failure", "writer_blocked", "instrument_failure"}
    Ends = {"finished", "failed", "aborted"}
    CheckerOn = TRUE
    Retries = 0
    MaxRepairs = 1
    Decisions = {"fork", "revise", "complete"}
    Opinions = {"ok", "objection"}
    Failures = {"retryable"}
    Partials = {}
    MaxCrashes = 1
    Commands = {"pause", "resume"}
    MaxCommands = 2
PROPERTIES
    ForksSound
    DriverRests
    PauseTakesHold
