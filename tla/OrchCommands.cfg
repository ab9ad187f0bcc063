\* Pauses, resumes and interrupts of a run with alternatives and revisions, and a crash.
SPECIFICATION OrchSpec
CHECK_DEADLOCK FALSE
CONSTANTS
    Branch = {11, 12, 13}
    Step = {21, 22, 23, 24, 25, 26}
    Call = {31, 32, 33, 34}
    Check = {41, 42, 43, 44}
    Candidate = {51, 52, 53}
    Judgement = {}
    Action = {71, 72, 73, 74, 75, 76, 77, 78, 79, 80, 81, 82, 83, 84}
    Source = {}
    Content = {91}
    None = None
    Task = Task
    V11 = TRUE
    MaxActive = 0
    MaxCalls = 4
    MaxRaw = 1
    Kinds = {"pause_branch", "resume_branch", "abort_model_call", "set_direction", "revise_step"}
    Moves = {"human_pause", "human_resume", "writer_complete", "runtime_failure", "writer_blocked", "instrument_failure"}
    Ends = {"finished", "failed", "aborted"}
    CheckerOn = FALSE
    Retries = 0
    MaxRepairs = 1
    Decisions = {"fork", "revise", "complete"}
    Opinions = {"ok"}
    Failures = {"fatal"}
    Partials = {91}
    MaxCrashes = 1
    Commands = {"pause", "resume", "interrupt", "expand", "revise"}
    MaxCommands = 2
INVARIANTS
    Accepted
    RestsInRestPhase
    BranchesSound
PROPERTIES
    NoCallUnbidden
