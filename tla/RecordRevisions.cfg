\* Model revisions under a cap of one active branch.
SPECIFICATION Spec
CONSTRAINT Canonical
CHECK_DEADLOCK FALSE
CONSTANTS
    Branch = {11, 12}
    Step = {21, 22, 23}
    Call = {31, 32, 33}
    Check = {}
    Candidate = {}
    Judgement = {}
    Action = {}
    Source = {}
    Content = {91}
    None = None
    Task = Task
    V11 = TRUE
    MaxActive = 1
    MaxCalls = 0
    MaxRaw = 1
    Kinds = {}
    Moves = {}
    Ends = {"finished"}
INVARIANTS
    RevisionsSound
PROPERTIES
    RoutesOnlyGrow
