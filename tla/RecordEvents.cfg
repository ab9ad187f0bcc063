\* Checks around a candidate, retried calls, a judgement, a selection; every kind of event.
SPECIFICATION Spec
CONSTRAINTS
    Canonical
    Families
CHECK_DEADLOCK FALSE
CONSTANTS
    Branch = {11}
    Step = {21}
    Call = {31, 32, 33}
    Check = {41, 42}
    Candidate = {51}
    Judgement = {61}
    Action = {71}
    Source = {81}
    Content = {91, 92}
    None = None
    Task = Task
    V11 = TRUE
    MaxActive = 0
    MaxCalls = 0
    MaxRaw = 1
    Kinds = {"pause_branch", "resume_branch", "kill_branch", "set_direction", "set_hypothesis", "revise_step", "abort_model_call", "select_candidate"}
    Moves = {"human_pause", "human_resume", "human_kill", "writer_complete", "runtime_failure", "writer_blocked", "hard_defect", "instrument_failure", "manual_reopen"}
    Ends = {"finished", "failed", "aborted"}
INVARIANTS
    TypeOK
    CandidatesSound
PROPERTIES
    SettledStays
    CandidateFinal
