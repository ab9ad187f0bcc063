CONSTANTS
  MaxThreads = 2
  MaxTurns = 2
  MaxRequests = 3
  WithTools = TRUE
  Session = {s1, s2}
  MaxCalls = 3
  QueueSize = 2
  Threads = 1
  MaxRestarts = 1
  MaxEarly = 2
  Nil = Nil
  FormatRetries = 1
  MaxRewrites = 2
  MaxOutputs = 4
  MaxSlot = 2
  MaxNormalizer = 2
  MaxGateCrashes = 1
  Login = {l1, l2}
  Source = source
  Old = old
  MaxFaults = 2
  Branch = {1, 2}
  Step = {1, 2}
  WriterThread = {1, 2, 3}
  Nobody = nobody
  Unclaimed = unclaimed
  Shared = TRUE
  Preserve = TRUE
  ReviewRetries = 1
  MaxReviewCalls = 3
  MaxText = 3
  MaxQuote = 3
  QuotedKinds = {"ancestor_quote", "task_constraint_quote", "literature_quote"}
  CheckerVerdicts = {"ok", "hard_defect"}
  MaxReviewCrashes = 1
SPECIFICATION ProviderSpec
SYMMETRY Symmetry
CHECK_DEADLOCK FALSE
INVARIANTS
    ClientJust
    BrokerSound
    OutcomesTrue
    GateSound
    SessionsSound
    AccountSound
    ReviewsSound
