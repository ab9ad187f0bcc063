\* Three routes, forks of forks, replaced steps and a verdict that is forked away from.
SPECIFICATION Spec
CONSTRAINT Canonical
CHECK_DEADLOCK FALSE
CONSTANTS
    Branch = {11, 12, 13}
    Step = {21, 22, 23}
    Call = {31, 32}
    Check = {41}
    Candidate = {}
    Judgement = {}
    Action = {71}
    Source = {}
    Content = {91}
    None = None
    Task = Task
    V11 = TRUE
    MaxActive = 0
    MaxCalls = 0
    MaxRaw = 0
    Kinds = {"set_direction", "revise_step"}
    Moves = {}
    Ends = {"finished"}
INVARIANTS
    RouteTree
    InheritanceSound
