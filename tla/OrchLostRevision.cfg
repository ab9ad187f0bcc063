\* A crash after the last call allowed finished with a revision.
SPECIFICATION OrchSpec
CHECK_DEADLOCK FALSE
CONSTANTS
    Branch = {11, 12}
    Step = {21, 22, 23}
    Call = {31, 32, 33}
    Check = {41, 42}
    Candidate = {51}
    Judgement = {}
    Action = {71, 72}
    Source = {}
    Content = {91}
    None = None
    Task = Task
    V11 = TRUE
    MaxActive = 0
    MaxCalls = 2
    MaxRaw = 1
    Kinds = {"pause_branch", "resume_branch", "abort_model_call", "set_direction", "revise_step"}
    Moves = {"human_pause", "human_resume", "writer_complete", "runtime_failure", "writer_blocked", "instrument_failure"}
    Ends = {"finished", "failed", "aborted"}
    CheckerOn = FALSE
    Retries = 0
    MaxRepairs = 1
    Decisions = {"continue", "revise"}
    Opinions = {"ok"}
    Failures = {"fatal"}
    Partials = {}
    MaxCrashes = 1
    Commands = {"pause", "resume", "interrupt"}
    MaxCommands = 0
INVARIANTS
    RevisionRecovered
