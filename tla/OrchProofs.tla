----------------------------- MODULE OrchProofs -----------------------------
(* Theorems about Orchestrator: what the driver appends is a legal record, *)
(* and the attempts its control store counts are those of the record.      *)
EXTENDS Orchestrator, RecordProofs, FiniteSetTheorems

(***************************************************************************)
(* The events the driver appends, as steps of the record.                  *)
(***************************************************************************)

(* _next_id gives an identifier that was not used before.                  *)
LEMMA FreshMember ==
  ASSUME NEW ids, ids \subseteq Nat, NEW table, Left(ids, table)
  PROVE  /\ Fresh(ids, table) \in ids /\ Fresh(ids, table) \notin DOMAIN table
         /\ \A y \in ids \ DOMAIN table : Fresh(ids, table) <= y
<1>1. \E x \in ids \ DOMAIN table : \A y \in ids \ DOMAIN table : x <= y
  BY LeastMember DEF Left
<1> QED
  BY <1>1 DEF Fresh, Least

LEMMA LeastIn ==
  ASSUME NEW T, T \subseteq Nat, T # {}
  PROVE  Least(T) \in T /\ \A y \in T : Least(T) <= y
BY LeastMember DEF Least

LEMMA IdsAreNat ==
  /\ Branch \subseteq Nat /\ Step \subseteq Nat /\ Call \subseteq Nat
  /\ Check \subseteq Nat /\ Candidate \subseteq Nat /\ Action \subseteq Nat
BY OrchestratorAssumption

LEMMA MoveLegal ==
  ASSUME TypeOK, NEW b, NEW to \in Statuses, NEW reason \in Moves, NEW a, NEW k, NEW c,
         BranchStatusChanged(b, to, reason, a, k, c)
  PROVE  Next
<1>1. b \in Branch
  BY DEF BranchStatusChanged, TypeOK, Table
<1>2. StatusReasonOk(b, to, reason, a, k, c)
  BY DEF BranchStatusChanged
<1>3. a \in DOMAIN actions \cup {None}
  BY <1>2 DEF StatusReasonOk, HumanMoveOk, CitesAction
<1>4. c \in DOMAIN calls \cup {None}
  BY <1>2 DEF StatusReasonOk
<1>5. k \in DOMAIN checks \cup {None}
  BY <1>2 DEF StatusReasonOk, RuntimeFailureOk
<1> QED
  BY <1>1, <1>3, <1>4, <1>5, Zenon DEF Next, BranchEvent

LEMMA RootLegal ==
  ASSUME NEW b \in Branch, RootBranchCreated(b, "active")
  PROVE  Next
BY Zenon DEF Next, BranchEvent

LEMMA ChildLegal ==
  ASSUME RouteInv, NEW b \in Branch, NEW p, NEW anchor, NEW mode \in {"after", "replace"},
         NEW reason \in ChildReasons, NEW a,
         ChildBranchCreated(b, p, anchor, mode, reason, a, "active")
  PROVE  Next
<1>1. p \in DOMAIN branches /\ anchor \in Elems(branches[p].route)
  BY DEF ChildBranchCreated
<1>2. anchor \in DOMAIN steps
  BY <1>1 DEF RouteInv, Elems
<1>3. a \in DOMAIN actions \cup {None}
  BY DEF ChildBranchCreated, ChildReasonOk, ChildReasons, HumanReasons, CitesAction
<1>4. "active" \in {"active", "paused"}
  OBVIOUS
<1> QED
  BY <1>1, <1>2, <1>3, <1>4, Zenon DEF Next, BranchEvent

LEMMA HumanStepLegal ==
  ASSUME TypeOK, NEW s \in Step, NEW b, NEW replaces, NEW a, HumanStepSealed(s, b, replaces, a)
  PROVE  Next
<1>1. a \in DOMAIN actions /\ replaces \in DOMAIN steps \cup {None}
  BY DEF HumanStepSealed, CitesAction, Seal, ReplacesOk
<1>2. b \in Branch
  BY DEF HumanStepSealed, Seal, ActiveBranches, TypeOK, Table
<1> QED
  BY <1>1, <1>2, Zenon DEF Next, StepEvent

LEMMA StartLegal ==
  ASSUME NEW c \in Call, NEW role, NEW target, ModelCallStarted(c, role, target)
  PROVE  Next
<1>1. TargetOk(role, target)
  BY DEF ModelCallStarted
<1>2. role \in Roles /\ target \in Targets
  BY <1>1 DEF TargetOk, Roles, Targets
<1> QED
  BY <1>2, Zenon DEF Next, CallEvent

LEMMA ChunkLegal ==
  ASSUME TypeOK, NEW c, NEW ctl \in Control, ModelCallChunk(c, ctl)
  PROVE  Next
<1>1. c \in Call
  BY DEF ModelCallChunk, InFlight, TypeOK, Table
<1> QED
  BY <1>1, Zenon DEF Next, CallEvent

LEMMA EndLegal ==
  ASSUME TypeOK, NEW c, NEW out,
         \/ ModelCallFinished(c, out) \/ ModelCallFailed(c, out)
         \/ \E a : ModelCallAborted(c, out, a)
  PROVE  Next
<1>1. c \in Call /\ out \in Content \cup {None}
  BY DEF ModelCallFinished, ModelCallFailed, ModelCallAborted, Terminate, InFlight, Bodies,
         TypeOK, Table
<1>2. \A a : ModelCallAborted(c, out, a) => a \in DOMAIN actions
  BY DEF ModelCallAborted, CitesAction
<1>3. "finished" \in Ends /\ "failed" \in Ends /\ "aborted" \in Ends
  BY OrchestratorAssumption
<1>4. CallEvent
  BY <1>1, <1>2, <1>3, Zenon DEF CallEvent
<1> QED
  BY <1>4 DEF Next

LEMMA RequestLegal ==
  ASSUME NEW k \in Check, NEW s, CheckRequested(k, s, TRUE)
  PROVE  Next
<1>1. s \in DOMAIN steps /\ TRUE \in BOOLEAN
  BY DEF CheckRequested
<1> QED
  BY <1>1, Zenon DEF Next, CheckEvent

LEMMA CheckLegal ==
  ASSUME TypeOK, NEW k, NEW c, NEW verdict \in CheckVerdicts, NEW evidence \in SUBSET {Task},
         CheckCompleted(k, c, verdict, evidence)
  PROVE  Next
<1>1. k \in Check /\ c \in DOMAIN calls
  BY DEF CheckCompleted, OpenCheck, TypeOK, Table
<1>2. evidence \in SUBSET (DOMAIN steps \cup DOMAIN branches \cup sources \cup {Task})
  OBVIOUS
<1>3. CheckEvent
  BY <1>1, <1>2, Zenon DEF CheckEvent
<1> QED
  BY <1>3 DEF Next

LEMMA RetryLegal ==
  ASSUME TypeOK, NEW k, NEW a, CheckRetryAuthorized(k, a)
  PROVE  Next
<1>1. k \in Check /\ a \in DOMAIN actions
  BY DEF CheckRetryAuthorized, TypeOK, Table
<1> QED
  BY <1>1, Zenon DEF Next, CheckEvent

LEMMA CandidateLegal ==
  ASSUME NEW d \in Candidate, NEW b, CandidateDeclared(d, b)
  PROVE  Next
<1>1. b \in DOMAIN branches
  BY DEF CandidateDeclared
<1> QED
  BY <1>1, Zenon DEF Next, CandidateEvent

LEMMA ActionLegal ==
  ASSUME NEW a \in Action, NEW act \in PossibleActions, act.kind \in Kinds, HumanAction(a, act)
  PROVE  Next
BY Zenon DEF Next, HumanActionRecorded

LEMMA OnBranchLegal ==
  ASSUME NEW a \in Action, NEW kind, NEW x,
         \/ kind \in {"pause_branch", "resume_branch", "set_direction"} /\ x \in DOMAIN branches
         \/ kind = "abort_model_call" /\ x \in DOMAIN calls,
         HumanAction(a, OnBranch(kind, x))
  PROVE  Next
<1>1. kind \in Kinds
  BY OrchestratorAssumption
<1>2. OnBranch(kind, x) \in PossibleActions
  BY DEF OnBranch, PossibleActions, ActionsOn, BranchActions
<1>3. OnBranch(kind, x).kind = kind
  BY DEF OnBranch
<1> QED
  BY <1>1, <1>2, <1>3, ActionLegal

(***************************************************************************)
(* The inductive invariant.                                                *)
(***************************************************************************)

(* A writer call extends a branch that exists.                             *)
CallerInv ==
  \A c \in DOMAIN calls : calls[c].role = "writer" => calls[c].target[1] \in DOMAIN branches

(* Identifiers are used in increasing order.                               *)
OrderInv == \A c \in DOMAIN calls, x \in Call \ DOMAIN calls : c < x

(* What a completed turn answers can be recorded, and a finished call has  *)
(* its answer, also when the process that asked for it is gone.            *)
AnswerOk(c) ==
  turn[c].status = "completed" =>
    /\ calls[c].role = "writer" => turn[c].ctl \in Control
    /\ calls[c].role = "checker" => turn[c].kind \in CheckVerdicts
TurnInv ==
  /\ \A c \in DOMAIN turn :
       /\ c \in DOMAIN calls /\ AnswerOk(c)
       /\ DOMAIN turn[c] = {"status", "ctl", "out", "kind"}
  /\ \A c \in DOMAIN calls :
       calls[c].state = "finished" => c \in DOMAIN turn /\ turn[c].status = "completed"

(* The store has a row for every call, but for the one that was started    *)
(* last and is about to be marked, or that a crash left without its row.   *)
MarkInv ==
  /\ \A c \in DOMAIN marks :
       /\ c \in DOMAIN calls /\ DOMAIN marks[c] = {"state", "handle", "branch", "attempt"}
       /\ marks[c].handle => c \in DOMAIN turn
  /\ driver.at \notin {"mark", "down"} => DOMAIN marks = DOMAIN calls
  /\ driver.at = "mark" =>
       /\ DOMAIN marks = DOMAIN calls \ {driver.on}
       /\ \A x \in DOMAIN calls : x <= driver.on
  /\ AttemptsAgree

(* Where the driver stands, it has what it stands on, and it returns to    *)
(* where it came from.                                                     *)
Fields == {"at", "on", "branch", "todo", "back"}
OnInv ==
  /\ driver.at \in {"mark", "starting"} =>
       driver.on \in DOMAIN calls /\ calls[driver.on].state = "started"
  /\ driver.at = "running" => driver.on \in DOMAIN turn
  /\ driver.at = "write" => driver.on \in DOMAIN turn /\ turn[driver.on].status = "completed"
  /\ driver.at \in {"pause", "resume"} => driver.todo \subseteq DOMAIN branches
  /\ driver.at = "interrupt" => driver.on \in DOMAIN calls
Returns == {"loop", "sweep", "swept", "idle", "recover"}
DriverInv == DOMAIN driver = Fields /\ driver.back \in Returns /\ OnInv

OrchInv == RouteInv /\ CallerInv /\ OrderInv /\ TurnInv /\ MarkInv /\ DriverInv

(***************************************************************************)
(* Every step of the system is an event of a legal record, or none.        *)
(***************************************************************************)

(* The event a finished writer call becomes.                               *)
LEMMA ConsumeLegal ==
  ASSUME OrchInv, NEW c, NEW b, Consume(c, b)
  PROVE  Next
<1> DEFINE s == Fresh(Step, steps)
           x == Fresh(Branch, branches)
           old == calls[c].raw[1].revise
<1>0. TypeOK /\ RouteInv
  BY DEF OrchInv, RouteInv
<1>1. CASE WriterRouteCompletion(b, c)
  <2>1. b \in DOMAIN branches /\ c \in Call
    BY <1>0, <1>1 DEF WriterRouteCompletion, ActiveBranches, TypeOK, Table
  <2> QED
    BY <1>1, <2>1, Zenon DEF Next, CallEvent
<1>2. CASE HasControl(c, "revise") /\ ModelRevisionDeferred(c, old)
  <2>1. c \in Call /\ calls[c].raw \in Seq(Control)
    BY <1>0, <1>2 DEF ModelRevisionDeferred, TypeOK, Table, CallRec
  <2>2. calls[c].raw[1] \in Control /\ calls[c].raw[1].decision = "revise"
    BY <1>2, <2>1, ElementOfSeq DEF HasControl
  <2>3. old \in Step
    BY <2>2 DEF Control
  <2> QED
    BY <1>2, <2>1, <2>3, Zenon DEF Next, CallEvent
<1>3. CASE /\ Left(Branch, branches) /\ Left(Step, steps)
           /\ ModelRevisionApplied(b, x, old, s, c)
  <2>1. b \in DOMAIN branches /\ old \in Elems(branches[b].route) /\ c \in DOMAIN calls
    BY <1>3 DEF ModelRevisionApplied, ActiveBranches
  <2>2. old \in DOMAIN steps
    BY <1>0, <2>1 DEF RouteInv, Elems
  <2>3. s \in Step /\ x \in Branch
    BY <1>3, FreshMember, IdsAreNat
  <2> QED
    BY <1>3, <2>1, <2>2, <2>3, Zenon DEF Next, StepEvent
<1>4. CASE Left(Step, steps) /\ ModelStepSealed(s, b, None, c)
  <2>1. b \in Branch /\ c \in DOMAIN calls /\ None \in DOMAIN steps \cup {None}
    BY <1>0, <1>4 DEF ModelStepSealed, TypeOK, Table
  <2>2. s \in Step
    BY <1>4, FreshMember, IdsAreNat
  <2> QED
    BY <1>4, <2>1, <2>2, Zenon DEF Next, StepEvent
<1> QED
  BY <1>1, <1>2, <1>3, <1>4 DEF Consume

LEMMA CallStepLegal == OrchInv /\ CallStep => Next \/ UNCHANGED vars
<1> SUFFICES ASSUME OrchInv, CallStep PROVE Next \/ UNCHANGED vars
  OBVIOUS
<1>0. TypeOK
  BY DEF OrchInv, RouteInv
<1>1. CASE MarkCall \/ Attach \/ StartRefused \/ Collect \/ CloseMark \/ BookmarkStep \/ LeaveForRetry
  BY <1>1 DEF MarkCall, Attach, StartRefused, Collect, CloseMark, BookmarkStep, LeaveForRetry
<1>2. CASE WriteChunk
  <2>1. turn[driver.on].ctl \in Control
    BY <1>2 DEF WriteChunk, OrchInv, DriverInv, OnInv, TurnInv, AnswerOk
  <2> QED
    BY <1>0, <1>2, <2>1, ChunkLegal DEF WriteChunk
<1>3. CASE FinishCall \/ FailCall
  BY <1>0, <1>3, EndLegal DEF FinishCall, FailCall
<1>4. CASE FinishWriter
  BY <1>4, ConsumeLegal DEF FinishWriter
<1>5. CASE FinishCheck
  <2>1. turn[driver.on].kind \in CheckVerdicts
    BY <1>5 DEF FinishCheck, OrchInv, DriverInv, OnInv, TurnInv, AnswerOk
  <2> QED
    BY <1>0, <1>5, <2>1, CheckLegal DEF FinishCheck
<1>6. CASE CloseFailedCheck
  BY <1>0, <1>6, CheckLegal DEF CloseFailedCheck, CheckVerdicts
<1>7. CASE PauseFailedBranch
  BY <1>0, <1>7, MoveLegal, OrchestratorAssumption DEF PauseFailedBranch, Statuses
<1> QED
  BY <1>1, <1>2, <1>3, <1>4, <1>5, <1>6, <1>7 DEF CallStep

LEMMA RepairStepLegal == OrchInv /\ RepairStep => Next \/ UNCHANGED vars
<1> SUFFICES ASSUME OrchInv, RepairStep PROVE Next \/ UNCHANGED vars
  OBVIOUS
<1>0. TypeOK
  BY DEF OrchInv, RouteInv
<1>1. CASE RepairOrphan
  BY <1>0, <1>1, MoveLegal, OrchestratorAssumption DEF RepairOrphan, Statuses
<1>2. CASE RepairFinishedWriter
  BY <1>2, ConsumeLegal DEF RepairFinishedWriter
<1>3. CASE RepairStranded
  BY <1>0, <1>3, MoveLegal, OrchestratorAssumption DEF RepairStranded, Statuses
<1>4. CASE RepairCheck
  <2> DEFINE k == Least(Unclosed)
             c == LatestOn("checker", <<k>>)
             verdict == IF calls[c].state = "finished" THEN turn[c].kind ELSE "instrument_failure"
  <2>1. CheckCompleted(k, c, verdict, IF verdict = "hard_defect" THEN {Task} ELSE {})
    BY <1>4 DEF RepairCheck
  <2>2. c \in DOMAIN calls /\ calls[c].role = "checker"
    BY <2>1 DEF CheckCompleted
  <2>3. verdict \in CheckVerdicts
    BY <2>2 DEF OrchInv, TurnInv, AnswerOk, CheckVerdicts
  <2> HIDE DEF verdict, k, c
  <2> QED
    BY <1>0, <2>1, <2>3, CheckLegal
<1>5. CASE RepairCandidate
  BY <1>5, FreshMember, IdsAreNat, CandidateLegal DEF RepairCandidate
<1>6. CASE RepairReplacement
  BY <1>0, <1>6, FreshMember, IdsAreNat, HumanStepLegal DEF RepairReplacement
<1> QED
  BY <1>1, <1>2, <1>3, <1>4, <1>5, <1>6 DEF RepairStep

LEMMA StartCallLegal ==
  ASSUME NEW role, NEW target, NEW b, StartCall(role, target, b)
  PROVE  Next
BY FreshMember, IdsAreNat, StartLegal DEF StartCall

LEMMA ScheduleStepLegal == OrchInv /\ ScheduleStep => Next \/ UNCHANGED vars
<1> SUFFICES ASSUME OrchInv, ScheduleStep PROVE Next \/ UNCHANGED vars
  OBVIOUS
<1>0. TypeOK /\ RouteInv
  BY DEF OrchInv, RouteInv
<1>1. CASE Stop \/ BeginSweep \/ AgainAfterSweep \/ SuppressFork
  BY <1>1 DEF Stop, BeginSweep, AgainAfterSweep, SuppressFork
<1>2. ASSUME NEW b \in ActiveBranches,
             \/ ParkBlocked(b) \/ RequestCheck(b) \/ CallOpenCheck(b) \/ CallWriter(b)
             \/ BeginFork(b) \/ CompleteBranch(b) \/ PassOver(b)
      PROVE  Next \/ UNCHANGED vars
  <2>1. CASE ParkBlocked(b)
    BY <1>0, <2>1, MoveLegal, OrchestratorAssumption DEF ParkBlocked, Statuses
  <2>2. CASE RequestCheck(b)
    BY <2>2, FreshMember, IdsAreNat, RequestLegal DEF RequestCheck
  <2>3. CASE CallOpenCheck(b) \/ CallWriter(b)
    BY <2>3, StartCallLegal DEF CallOpenCheck, CallWriter
  <2>4. CASE CompleteBranch(b)
    BY <1>0, <2>4, MoveLegal, OrchestratorAssumption DEF CompleteBranch, Statuses
  <2>5. CASE BeginFork(b) \/ PassOver(b)
    BY <2>5 DEF BeginFork, PassOver
  <2> QED
    BY <1>2, <2>1, <2>2, <2>3, <2>4, <2>5
<1>3. CASE CallNewCheck \/ WriteAfterFork
  BY <1>3, StartCallLegal DEF CallNewCheck, WriteAfterFork
<1>4. CASE CreateAlternative
  <2>1. PICK b \in Branch :
           ChildBranchCreated(b, driver.branch, Tip(driver.branch), "after", "model_alternative", None, "active")
    BY <1>4, FreshMember, IdsAreNat DEF CreateAlternative
  <2>2. "model_alternative" \in ChildReasons /\ "after" \in {"after", "replace"}
    BY DEF ChildReasons
  <2> QED
    BY <1>0, <2>1, <2>2, ChildLegal
<1>5. CASE DeclareCandidate
  BY <1>5, FreshMember, IdsAreNat, CandidateLegal DEF DeclareCandidate
<1> QED
  BY <1>1, <1>2, <1>3, <1>4, <1>5 DEF ScheduleStep

LEMMA CommandStepLegal ==
  OrchInv /\ (PauseStep \/ ResumeStep \/ AbortStep) => Next \/ UNCHANGED vars
<1> SUFFICES ASSUME OrchInv, PauseStep \/ ResumeStep \/ AbortStep PROVE Next \/ UNCHANGED vars
  OBVIOUS
<1>0. TypeOK
  BY DEF OrchInv, RouteInv
<1>1. ASSUME NEW at \in {"pause", "resume"}, NEW kind \in {"pause_branch", "resume_branch"},
             RecordAction(at, kind)
      PROVE  Next
  <2>1. driver.todo \subseteq DOMAIN branches /\ DOMAIN branches \subseteq Nat /\ driver.todo # {}
    BY <1>0, <1>1, IdsAreNat DEF RecordAction, OrchInv, DriverInv, OnInv, TypeOK, Table
  <2>2. Least(driver.todo) \in DOMAIN branches
    BY <2>1, LeastIn
  <2> QED
    BY <1>1, <2>2, FreshMember, IdsAreNat, OnBranchLegal DEF RecordAction
<1>2. CASE PauseAction \/ ResumeAction
  BY <1>1, <1>2 DEF PauseAction, ResumeAction
<1>3. CASE PauseBranch \/ ResumeBranch
  BY <1>0, <1>3, MoveLegal, OrchestratorAssumption DEF PauseBranch, ResumeBranch, Statuses
<1>4. CASE ReleaseCheck
  BY <1>0, <1>4, RetryLegal DEF ReleaseCheck
<1>5. CASE InterruptAction
  <2>1. driver.on \in DOMAIN calls
    BY <1>5 DEF InterruptAction, OrchInv, DriverInv, OnInv
  <2> QED
    BY <1>5, <2>1, FreshMember, IdsAreNat, OnBranchLegal DEF InterruptAction
<1>6. CASE AbortCall
  <2>1. PICK a : ModelCallAborted(driver.on, turn[driver.on].out, a)
    BY <1>6 DEF AbortCall
  <2> QED
    BY <1>0, <2>1, EndLegal
<1>7. CASE ParkAborted
  BY <1>0, <1>7, MoveLegal, OrchestratorAssumption DEF ParkAborted, Statuses
<1>8. CASE \/ BeginPause \/ EndPause \/ NextResumed \/ EndResume
           \/ InterruptTurn \/ InterruptFails \/ KeepAborted \/ EndAbort
  BY <1>8 DEF BeginPause, EndPause, NextResumed, EndResume, InterruptTurn, InterruptFails,
              KeepAborted, EndAbort
<1> QED
  BY <1>2, <1>3, <1>4, <1>5, <1>6, <1>7, <1>8 DEF PauseStep, ResumeStep, AbortStep

LEMMA EditStepLegal == OrchInv /\ EditStep => Next
<1> SUFFICES ASSUME OrchInv, EditStep PROVE Next
  OBVIOUS
<1>0. TypeOK /\ RouteInv
  BY DEF OrchInv, RouteInv
<1>1. CASE ExpandAction
  BY <1>1, FreshMember, IdsAreNat, OnBranchLegal DEF ExpandAction, Editing
<1>2. CASE ReviseAction
  <2>1. PICK text \in Content :
          HumanAction(Fresh(Action, actions),
                      [kind |-> "revise_step", target |-> driver.on, content |-> text])
    BY <1>2 DEF ReviseAction
  <2>2. driver.on \in DOMAIN steps /\ Fresh(Action, actions) \in Action
    BY <1>0, <1>2, FreshMember, IdsAreNat DEF ReviseAction, Editing, RouteInv, Elems
  <2>3. [kind |-> "revise_step", target |-> driver.on, content |-> text] \in PossibleActions
    BY <2>2 DEF PossibleActions, ActionsOn
  <2>4. [kind |-> "revise_step", target |-> driver.on, content |-> text].kind \in Kinds
    BY OrchestratorAssumption
  <2> QED
    BY <2>1, <2>2, <2>3, <2>4, ActionLegal
<1>3. CASE ExpandBranch \/ ReplaceBranch
  <2>1. PICK b \in Branch : \E a :
          \/ ChildBranchCreated(b, driver.branch, driver.on, "after", "human_direction", a, "active")
          \/ ChildBranchCreated(b, driver.branch, driver.on, "replace", "human_revision", a, "active")
    BY <1>3, FreshMember, IdsAreNat DEF ExpandBranch, ReplaceBranch
  <2>2. {"human_direction", "human_revision"} \subseteq ChildReasons
    BY DEF ChildReasons, HumanReasons
  <2> QED
    BY <1>0, <2>1, <2>2, ChildLegal
<1>4. CASE SealReplacement
  BY <1>0, <1>4, FreshMember, IdsAreNat, HumanStepLegal DEF SealReplacement
<1> QED
  BY <1>1, <1>2, <1>3, <1>4 DEF EditStep

LEMMA StepLegal == OrchInv /\ [OrchNext]_orchVars => [Next]_vars
<1> SUFFICES ASSUME OrchInv, [OrchNext]_orchVars PROVE Next \/ UNCHANGED vars
  OBVIOUS
<1>1. CASE CreateRun
  BY <1>1 DEF CreateRun, Next
<1>2. CASE CreateRoot
  BY <1>2, FreshMember, IdsAreNat, RootLegal DEF CreateRoot
<1>3. CASE CallStep \/ RepairStep \/ ScheduleStep \/ PauseStep \/ ResumeStep \/ EditStep \/ AbortStep
  BY <1>3, CallStepLegal, RepairStepLegal, ScheduleStepLegal, CommandStepLegal, EditStepLegal
<1>4. CASE RecoverStep
  BY <1>4 DEF RecoverStep, RecoverAbort, RecoverCall, EndRecover
<1>5. CASE EndDriver \/ DriverFails
  BY <1>5 DEF EndDriver, DriverFails
<1>6. CASE ProviderStep
  BY <1>6 DEF ProviderStep, TurnEnds
<1>7. CASE PauseRun \/ ResumeRun \/ InterruptRun \/ Crash \/ Restart
  BY <1>7 DEF PauseRun, ResumeRun, InterruptRun, Crash, Restart
<1>8. CASE UNCHANGED orchVars
  BY <1>8 DEF orchVars
<1>9. ASSUME NEW edit, EditRun(edit) PROVE UNCHANGED vars
  BY <1>9 DEF EditRun
<1> QED
  BY <1>1, <1>2, <1>3, <1>4, <1>5, <1>6, <1>7, <1>8, <1>9 DEF OrchNext, DriverStep

(***************************************************************************)
(* The invariant holds: what a step does to calls, turns and marks.        *)
(***************************************************************************)

CallsExtend ==
  /\ DOMAIN branches \subseteq DOMAIN branches'
  /\ \A c \in DOMAIN calls :
       /\ c \in DOMAIN calls'
       /\ calls'[c].role = calls[c].role /\ calls'[c].target = calls[c].target

CallsSame ==
  /\ CallsExtend
  /\ DOMAIN calls' = DOMAIN calls
  /\ \A c \in DOMAIN calls : calls'[c].state = calls[c].state

Rank(c) == {x \in Siblings(c) : x <= c}

LEMMA BranchesGrow ==
  ASSUME RouteInv, [Next]_vars
  PROVE  DOMAIN branches \subseteq DOMAIN branches'
BY RouteChange DEF RoutesSame, RouteMove

LEMMA RankSame ==
  ASSUME CallsExtend, NEW c \in DOMAIN calls, \A x \in DOMAIN calls' \ DOMAIN calls : ~(x <= c)
  PROVE  Rank(c)' = Rank(c)
BY DEF Rank, Siblings, CallsOn, CallsExtend

LEMMA CallerSame ==
  ASSUME CallerInv, CallsExtend, DOMAIN calls' = DOMAIN calls
  PROVE  CallerInv'
BY DEF CallerInv, CallsExtend

LEMMA AttemptsSame ==
  ASSUME MarkInv, CallsExtend, DOMAIN calls' = DOMAIN calls,
         DOMAIN marks' = DOMAIN marks,
         \A c \in DOMAIN marks : marks'[c].attempt = marks[c].attempt
  PROVE  AttemptsAgree'
<1> SUFFICES ASSUME NEW c \in DOMAIN marks
             PROVE  marks'[c].attempt = Cardinality(Rank(c)')
  BY DEF AttemptsAgree, Rank
<1>1. c \in DOMAIN calls
  BY DEF MarkInv
<1>2. Rank(c)' = Rank(c)
  BY <1>1, RankSame
<1>3. marks[c].attempt = Cardinality(Rank(c))
  BY DEF MarkInv, AttemptsAgree, Rank
<1> QED
  BY <1>2, <1>3

LEMMA TurnsSame ==
  ASSUME TurnInv, CallsExtend, turn' = turn,
         \A c \in DOMAIN calls' :
           calls'[c].state = "finished" =>
             \/ c \in DOMAIN calls /\ calls[c].state = "finished"
             \/ c \in DOMAIN turn /\ turn[c].status = "completed"
  PROVE  TurnInv'
BY DEF TurnInv, CallsExtend, AnswerOk

(* Most steps leave calls, turns and marks alone, and the driver stays     *)
(* where it is or comes to a place that promises nothing new.              *)
Landed ==
  /\ DOMAIN driver' = Fields /\ driver'.back \in Returns
  /\ driver'.at \notin {"mark", "starting", "down"}
  /\ driver'.at = "running" => driver'.on \in DOMAIN turn
  /\ driver'.at = "write" => driver'.on \in DOMAIN turn /\ turn[driver'.on].status = "completed"
  /\ driver'.at \in {"pause", "resume"} => driver'.todo \subseteq DOMAIN branches
  /\ driver'.at = "interrupt" => driver'.on \in DOMAIN calls
Calm ==
  /\ CallsSame /\ turn' = turn /\ marks' = marks
  /\ driver' = driver \/ (driver.at \notin {"mark", "down"} /\ Landed)

Kept == CallerInv' /\ OrderInv' /\ TurnInv' /\ MarkInv' /\ DriverInv'

LEMMA CalmKeeps ==
  ASSUME OrchInv, Calm
  PROVE  Kept
<1>0. CallsExtend /\ DOMAIN calls' = DOMAIN calls /\ turn' = turn /\ marks' = marks
  BY DEF Calm, CallsSame
<1>1. CallerInv'
  BY <1>0, CallerSame DEF OrchInv
<1>2. OrderInv'
  BY <1>0 DEF OrchInv, OrderInv
<1>3. TurnInv'
  BY <1>0, TurnsSame DEF OrchInv, Calm, CallsSame
<1>4. AttemptsAgree'
  BY <1>0, AttemptsSame DEF OrchInv
<1>5. DriverInv'
  <2>1. CASE driver' = driver
    BY <1>0, <2>1 DEF OrchInv, DriverInv, OnInv, Calm, CallsSame, CallsExtend
  <2>2. CASE Landed
    BY <1>0, <2>2 DEF Landed, DriverInv, OnInv, CallsExtend
  <2> QED
    BY <2>1, <2>2 DEF Calm
<1>6. MarkInv'
  <2>1. CASE driver' = driver
    BY <1>0, <1>4, <2>1 DEF OrchInv, MarkInv
  <2>2. CASE driver.at \notin {"mark", "down"} /\ Landed
    BY <1>0, <1>4, <2>2 DEF OrchInv, MarkInv, Landed
  <2> QED
    BY <2>1, <2>2 DEF Calm
<1> QED
  BY <1>1, <1>2, <1>3, <1>5, <1>6 DEF Kept

LEMMA StartKeeps ==
  ASSUME OrchInv, NEW role, NEW target, NEW b, StartCall(role, target, b),
         driver.at \notin {"mark", "down"}
  PROVE  Kept
<1> DEFINE n == Fresh(Call, calls)
<1>0. TypeOK /\ DOMAIN calls \subseteq Call /\ Call \subseteq Nat
  BY IdsAreNat DEF OrchInv, RouteInv, TypeOK, Table
<1>1. n \in Call /\ n \notin DOMAIN calls /\ \A y \in Call \ DOMAIN calls : n <= y
  BY FreshMember, IdsAreNat DEF StartCall
<1>2. /\ ModelCallStarted(n, role, target) /\ driver' = At("mark", n, b)
      /\ turn' = turn /\ marks' = marks
  BY DEF StartCall, store
<1> HIDE DEF n
<1>3. /\ DOMAIN calls' = DOMAIN calls \cup {n} /\ branches' = branches
      /\ \A c \in DOMAIN calls : calls'[c] = calls[c]
      /\ calls'[n].role = role /\ calls'[n].target = target /\ calls'[n].state = "started"
  BY <1>1, <1>2 DEF ModelCallStarted, Put
<1>4. CallsExtend
  BY <1>3 DEF CallsExtend
<1>5. n \in Nat /\ \A c \in DOMAIN calls : c \in Nat /\ c < n
  BY <1>0, <1>1 DEF OrchInv, OrderInv
<1>5b. \A c \in DOMAIN calls : c <= n /\ ~(n <= c)
  BY <1>5
<1>5c. n <= n /\ DOMAIN calls' \ DOMAIN calls = {n}
  BY <1>1, <1>3, <1>5
<1>6. CallerInv'
  <2>1. role = "writer" => target[1] \in DOMAIN branches
    BY <1>2 DEF ModelCallStarted, TargetOk, ActiveBranches
  <2> QED
    BY <1>3, <2>1 DEF OrchInv, CallerInv
<1>7. OrderInv'
  <2>1. \A x \in Call \ DOMAIN calls' : n < x
    BY <1>0, <1>1, <1>3
  <2> QED
    BY <1>3, <2>1 DEF OrchInv, OrderInv
<1>8. TurnInv'
  BY <1>2, <1>3, <1>4, TurnsSame DEF OrchInv
<1>9. DriverInv'
  BY <1>2, <1>3 DEF DriverInv, OnInv, At, Fields, Returns
<1>10. AttemptsAgree'
  <2> SUFFICES ASSUME NEW c \in DOMAIN marks
               PROVE  marks'[c].attempt = Cardinality(Rank(c)')
    BY <1>2 DEF AttemptsAgree, Rank
  <2>1. c \in DOMAIN calls /\ marks[c].attempt = Cardinality(Rank(c))
    BY DEF OrchInv, MarkInv, AttemptsAgree, Rank
  <2>2. \A x \in DOMAIN calls' \ DOMAIN calls : ~(x <= c)
    BY <1>5b, <1>5c, <2>1
  <2>3. Rank(c)' = Rank(c)
    BY <1>4, <2>1, <2>2, RankSame
  <2> QED
    BY <1>2, <2>1, <2>3
<1>11. MarkInv'
  <2>1. driver'.at = "mark" /\ driver'.on = n
    BY <1>2 DEF At
  <2>2. DOMAIN marks = DOMAIN calls
    BY DEF OrchInv, MarkInv
  <2>3. \A x \in DOMAIN calls' : x <= n
    BY <1>3, <1>5b, <1>5c
  <2> QED
    BY <1>1, <1>2, <1>3, <1>10, <2>1, <2>2, <2>3 DEF OrchInv, MarkInv
<1> QED
  BY <1>6, <1>7, <1>8, <1>9, <1>11 DEF Kept

(* The row of a new call counts its siblings in the store, which are all   *)
(* those of the record but itself.                                         *)
LEMMA MarkKeeps == ASSUME OrchInv, MarkCall PROVE Kept
<1> DEFINE n == driver.on
<1>0. /\ TypeOK /\ DOMAIN calls \subseteq Call /\ Call \subseteq Nat /\ IsFiniteSet(DOMAIN calls)
  BY IdsAreNat, FiniteAssumption, FS_Subset DEF OrchInv, RouteInv, TypeOK, Table
<1>1. /\ n \in DOMAIN calls /\ DOMAIN marks = DOMAIN calls \ {n}
      /\ \A x \in DOMAIN calls : x <= n
      /\ calls[n].state = "started"
  BY DEF MarkCall, OrchInv, MarkInv, DriverInv, OnInv
<1>2. /\ calls' = calls /\ branches' = branches /\ turn' = turn
      /\ driver' = [driver EXCEPT !.at = "starting"] /\ DOMAIN driver = Fields
      /\ DOMAIN marks' = DOMAIN calls
      /\ \A c \in DOMAIN marks : marks'[c] = marks[c]
      /\ DOMAIN marks'[n] = {"state", "handle", "branch", "attempt"}
      /\ marks'[n].handle = FALSE /\ marks'[n].attempt = NextAttempt(n)
  BY <1>1 DEF MarkCall, Put, vars, OrchInv, DriverInv
<1>3. CallsExtend /\ DOMAIN calls' = DOMAIN calls
  BY <1>2 DEF CallsExtend
<1>4. CallerInv' /\ OrderInv'
  BY <1>2, <1>3, CallerSame DEF OrchInv, OrderInv
<1>5. TurnInv'
  BY <1>2, <1>3, TurnsSame DEF OrchInv
<1>6. driver'.at = "starting" /\ driver'.on = n /\ DOMAIN driver' = Fields /\ driver'.back \in Returns
  BY <1>2 DEF Fields, OrchInv, DriverInv
<1>7. DriverInv'
  BY <1>1, <1>2, <1>6 DEF DriverInv, OnInv
<1>8. AttemptsAgree'
  <2>1. ASSUME NEW c \in DOMAIN calls PROVE Rank(c)' = Rank(c)
    BY <1>3, RankSame
  <2>2. ASSUME NEW c \in DOMAIN marks PROVE marks'[c].attempt = Cardinality(Rank(c)')
    BY <1>1, <1>2, <2>1, <2>2 DEF OrchInv, MarkInv, AttemptsAgree, Rank
  <2>3. NextAttempt(n) = Cardinality(Rank(n))
    <3>1. {x \in DOMAIN marks : x \in Siblings(n)} = Rank(n) \ {n}
      BY <1>1 DEF Rank, Siblings, CallsOn
    <3>2. n \in Rank(n) /\ IsFiniteSet(Rank(n))
      BY <1>0, <1>1, FS_Subset DEF Rank, Siblings, CallsOn
    <3>3. /\ Cardinality(Rank(n) \ {n}) = Cardinality(Rank(n)) - 1
          /\ Cardinality(Rank(n)) \in Nat
      BY <3>2, FS_RemoveElement, FS_CardinalityType
    <3>4. NextAttempt(n) = Cardinality(Rank(n) \ {n}) + 1
      BY <3>1 DEF NextAttempt
    <3> QED
      BY <3>3, <3>4
  <2>4. marks'[n].attempt = Cardinality(Rank(n)')
    BY <1>1, <1>2, <2>1, <2>3
  <2>5. \A c \in DOMAIN marks' : marks'[c].attempt = Cardinality(Rank(c)')
    BY <1>1, <1>2, <2>2, <2>4
  <2> QED
    BY <2>5 DEF AttemptsAgree, Rank
<1>9. MarkInv'
  BY <1>1, <1>2, <1>6, <1>8 DEF OrchInv, MarkInv
<1> QED
  BY <1>4, <1>5, <1>7, <1>9 DEF Kept

LEMMA EndedKeeps ==
  ASSUME OrchInv, NEW c, NEW state \in {"finished", "failed", "aborted"}, NEW out,
         Terminate(c, state, out),
         state = "finished" => c \in DOMAIN turn /\ turn[c].status = "completed",
         driver.at \notin {"mark", "starting"},
         turn' = turn, marks' = marks, driver' = driver
  PROVE  Kept
<1>1. /\ DOMAIN calls' = DOMAIN calls /\ branches' = branches
      /\ CallsExtend
      /\ \A x \in DOMAIN calls : x # c => calls'[x] = calls[x]
      /\ c \in DOMAIN calls /\ calls'[c].state = state
  BY DEF Terminate, InFlight, CallsExtend, OrchInv, RouteInv, TypeOK, Table, CallRec
<1>2. CallerInv' /\ OrderInv'
  BY <1>1, CallerSame DEF OrchInv, OrderInv
<1>3. TurnInv'
  BY <1>1, TurnsSame DEF OrchInv
<1>4. MarkInv'
  BY <1>1, AttemptsSame DEF OrchInv, MarkInv
<1>5. DriverInv'
  BY <1>1 DEF OrchInv, DriverInv, OnInv
<1> QED
  BY <1>2, <1>3, <1>4, <1>5 DEF Kept

LEMMA AttachKeeps == ASSUME OrchInv, Attach \/ StartRefused PROVE Kept
<1> DEFINE n == driver.on
<1>1. n \in DOMAIN calls /\ calls[n].state = "started" /\ n \in DOMAIN marks
      /\ driver.at = "starting" /\ DOMAIN driver = Fields /\ driver.back \in Returns
  BY DEF Attach, StartRefused, OrchInv, DriverInv, OnInv, MarkInv
<1>2. calls' = calls /\ branches' = branches
  BY DEF Attach, StartRefused, vars
<1>3. CallsExtend /\ DOMAIN calls' = DOMAIN calls
  BY <1>2 DEF CallsExtend
<1>4. /\ driver'.at \in {"running", "fail"} /\ driver'.on = n
      /\ DOMAIN driver' = Fields /\ driver'.back \in Returns
  BY <1>1 DEF Attach, StartRefused, Fields
<1>5. PICK r : /\ turn' = Put(turn, n, r)
               /\ DOMAIN r = {"status", "ctl", "out", "kind"} /\ r.status \in {"running", "failed"}
  <2>1. CASE Attach
    BY <2>1 DEF Attach, NoTurn
  <2>2. CASE StartRefused
    <3>1. PICK kind : turn' = Put(turn, n, [NoTurn EXCEPT !.status = "failed", !.kind = kind])
      BY <2>2 DEF StartRefused
    <3> DEFINE x == [NoTurn EXCEPT !.status = "failed", !.kind = kind]
    <3>2. DOMAIN x = {"status", "ctl", "out", "kind"} /\ x.status = "failed"
      BY DEF NoTurn
    <3> HIDE DEF x
    <3> QED
      BY <3>1, <3>2 DEF x
  <2> QED
    BY <2>1, <2>2
<1>6. /\ DOMAIN turn' = DOMAIN turn \cup {n}
      /\ \A c \in DOMAIN turn : c # n => turn'[c] = turn[c]
      /\ turn'[n] = r
  BY <1>5 DEF Put
<1>7. /\ DOMAIN marks' = DOMAIN marks
      /\ \A c \in DOMAIN marks : /\ DOMAIN marks'[c] = DOMAIN marks[c]
                                 /\ marks'[c].attempt = marks[c].attempt
                                 /\ c # n => marks'[c].handle = marks[c].handle
  <2>1. CASE StartRefused
    BY <2>1 DEF StartRefused, store
  <2>2. CASE Attach
    <3> DEFINE row1 == [marks[n] EXCEPT !.state = "running"]
               row2 == [row1 EXCEPT !.handle = TRUE]
    <3>1. DOMAIN marks[n] = {"state", "handle", "branch", "attempt"}
      BY <1>1 DEF OrchInv, MarkInv
    <3>2. DOMAIN row1 = DOMAIN marks[n] /\ row1.attempt = marks[n].attempt
      BY <3>1
    <3>3. DOMAIN row2 = DOMAIN marks[n] /\ row2.attempt = marks[n].attempt
      BY <3>1, <3>2
    <3>4. marks' = [marks EXCEPT ![n] = row2]
      BY <1>1, <2>2 DEF Attach
    <3> HIDE DEF row1, row2
    <3> QED
      BY <3>3, <3>4
  <2> QED
    BY <2>1, <2>2
<1>8. CallerInv' /\ OrderInv'
  BY <1>2, <1>3, CallerSame DEF OrchInv, OrderInv
<1>9. TurnInv'
  BY <1>1, <1>2, <1>5, <1>6 DEF OrchInv, TurnInv, AnswerOk
<1>10. MarkInv'
  <2>1. AttemptsAgree'
    BY <1>3, <1>7, AttemptsSame DEF OrchInv
  <2> QED
    BY <1>1, <1>2, <1>4, <1>6, <1>7, <2>1 DEF OrchInv, MarkInv
<1>11. DriverInv'
  BY <1>4, <1>6 DEF DriverInv, OnInv
<1> QED
  BY <1>8, <1>9, <1>10, <1>11 DEF Kept

LEMMA CloseKeeps == ASSUME OrchInv, CloseMark PROVE Kept
<1>1. /\ calls' = calls /\ branches' = branches /\ turn' = turn /\ driver' = driver
      /\ DOMAIN marks' = DOMAIN marks
      /\ \A c \in DOMAIN marks : /\ DOMAIN marks'[c] = DOMAIN marks[c]
                                 /\ marks'[c].attempt = marks[c].attempt
                                 /\ marks'[c].handle = marks[c].handle
  BY DEF CloseMark, vars, OrchInv, MarkInv
<1>2. CallsExtend /\ DOMAIN calls' = DOMAIN calls
  BY <1>1 DEF CallsExtend
<1>3. CallerInv' /\ OrderInv' /\ TurnInv'
  BY <1>1, <1>2, CallerSame, TurnsSame DEF OrchInv, OrderInv
<1>4. MarkInv'
  BY <1>1, <1>2, AttemptsSame DEF OrchInv, MarkInv
<1>5. DriverInv'
  BY <1>1 DEF OrchInv, DriverInv, OnInv
<1> QED
  BY <1>3, <1>4, <1>5 DEF Kept

(* A turn that is not completed ends or is interrupted.                    *)
LEMMA TurnKeeps ==
  ASSUME OrchInv, calls' = calls, branches' = branches, marks' = marks,
         driver' = driver \/ (driver.at \notin {"mark", "down"} /\ DOMAIN driver' = Fields
                              /\ driver'.back \in Returns /\ driver'.at \in {"aborting", "idle"}),
         NEW c, NEW r, turn' = [turn EXCEPT ![c] = r],
         c \in DOMAIN turn => turn[c].status # "completed",
         DOMAIN r = {"status", "ctl", "out", "kind"},
         c \in DOMAIN turn /\ r.status = "completed" =>
           /\ calls[c].role = "writer" => r.ctl \in Control
           /\ calls[c].role = "checker" => r.kind \in CheckVerdicts
  PROVE  Kept
<1>1. CallsExtend /\ DOMAIN calls' = DOMAIN calls
  BY DEF CallsExtend
<1>2. CallerInv' /\ OrderInv'
  BY <1>1, CallerSame DEF OrchInv, OrderInv
<1>3. /\ DOMAIN turn' = DOMAIN turn
      /\ \A x \in DOMAIN turn : x # c => turn'[x] = turn[x]
      /\ c \in DOMAIN turn => turn'[c] = r
  OBVIOUS
<1>4. TurnInv'
  BY <1>3 DEF OrchInv, TurnInv, AnswerOk
<1>5. MarkInv'
  <2>1. AttemptsAgree'
    BY <1>1, AttemptsSame DEF OrchInv
  <2> QED
    BY <1>3, <2>1 DEF OrchInv, MarkInv
<1>6. DriverInv'
  BY <1>3 DEF OrchInv, DriverInv, OnInv
<1> QED
  BY <1>2, <1>4, <1>5, <1>6 DEF Kept

LEMMA AnswerKeeps == ASSUME OrchInv, NEW c \in DOMAIN turn, TurnEnds(c) PROVE Kept
<1>0. TypeOK /\ calls' = calls /\ branches' = branches /\ marks' = marks /\ driver' = driver
  BY DEF TurnEnds, vars, store, OrchInv, RouteInv
<1>1. c \in DOMAIN calls /\ turn[c].status # "completed"
  BY DEF TurnEnds, InFlight
<1>2. CASE /\ calls[c].role = "writer"
           /\ \E ctl \in Controls(calls[c].target[1]), out \in Content :
                turn' = [turn EXCEPT ![c] =
                           [status |-> "completed", ctl |-> ctl, out |-> out, kind |-> None]]
  <2> DEFINE b == calls[c].target[1]
  <2>1. PICK ctl \in Controls(b), out \in Content :
          turn' = [turn EXCEPT ![c] =
                     [status |-> "completed", ctl |-> ctl, out |-> out, kind |-> None]]
    BY <1>2
  <2>2. branches[b].route \in Seq(Step)
    BY <1>0, <1>1, <1>2 DEF OrchInv, CallerInv, TypeOK, Table, BranchRec
  <2>3. Elems(branches[b].route) \subseteq Step
    BY <2>2, ElementOfSeq, LenProperties DEF Elems
  <2>4. ctl \in Control
    BY <2>3, OrchestratorAssumption DEF Controls, Control
  <2> QED
    BY <1>0, <1>1, <1>2, <2>1, <2>4, TurnKeeps
<1>3. CASE /\ calls[c].role = "checker"
           /\ \E verdict \in Opinions :
                turn' = [turn EXCEPT ![c] = [NoTurn EXCEPT !.status = "completed", !.kind = verdict]]
  <2>1. PICK verdict \in CheckVerdicts :
          turn' = [turn EXCEPT ![c] = [NoTurn EXCEPT !.status = "completed", !.kind = verdict]]
    BY <1>3, OrchestratorAssumption
  <2> DEFINE r == [NoTurn EXCEPT !.status = "completed", !.kind = verdict]
  <2>2. DOMAIN r = {"status", "ctl", "out", "kind"} /\ r.kind = verdict
    BY DEF NoTurn
  <2> HIDE DEF r
  <2> QED
    BY <1>0, <1>1, <1>3, <2>1, <2>2, TurnKeeps DEF r
<1>4. CASE \E kind, out :
             turn' = [turn EXCEPT ![c] = [NoTurn EXCEPT !.status = "failed", !.out = out, !.kind = kind]]
  <2>1. PICK kind, out :
          turn' = [turn EXCEPT ![c] = [NoTurn EXCEPT !.status = "failed", !.out = out, !.kind = kind]]
    BY <1>4
  <2> DEFINE r == [NoTurn EXCEPT !.status = "failed", !.out = out, !.kind = kind]
  <2>2. DOMAIN r = {"status", "ctl", "out", "kind"} /\ r.status = "failed"
    BY DEF NoTurn
  <2> HIDE DEF r
  <2> QED
    BY <1>0, <1>1, <2>1, <2>2, TurnKeeps DEF r
<1> QED
  BY <1>2, <1>3, <1>4 DEF TurnEnds

LEMMA InterruptKeeps == ASSUME OrchInv, InterruptTurn \/ InterruptFails PROVE Kept
<1>1. /\ calls' = calls /\ branches' = branches /\ marks' = marks
      /\ driver.at = "abort" /\ DOMAIN driver = Fields /\ driver.back \in Returns
  BY DEF InterruptTurn, InterruptFails, vars, store, OrchInv, DriverInv
<1>2. DOMAIN driver' = Fields /\ driver'.back \in Returns /\ driver'.at \in {"aborting", "idle"}
  BY <1>1 DEF InterruptTurn, InterruptFails, Fields, Idle, At, Returns
<1>3. CASE turn' = turn
  <2>1. Calm
    BY <1>1, <1>2, <1>3 DEF Calm, CallsSame, CallsExtend, Landed
  <2> QED
    BY <2>1, CalmKeeps
<1>4. CASE turn[driver.on].status = "running" /\ Interrupted(driver.on)
  <2>1. PICK out : turn' = [turn EXCEPT ![driver.on] = [NoTurn EXCEPT !.status = "interrupted", !.out = out]]
    BY <1>4 DEF Interrupted
  <2> DEFINE r == [NoTurn EXCEPT !.status = "interrupted", !.out = out]
  <2>2. DOMAIN r = {"status", "ctl", "out", "kind"} /\ r.status = "interrupted"
    BY DEF NoTurn
  <2> HIDE DEF r
  <2> QED
    BY <1>1, <1>2, <1>4, <2>1, <2>2, TurnKeeps DEF r
<1> QED
  BY <1>3, <1>4 DEF InterruptTurn, InterruptFails

(* What the store forgot in a crash is counted again from the record.      *)
LEMMA MergeKeeps ==
  ASSUME OrchInv, calls' = calls, branches' = branches, turn' = turn, marks' = Merged, Landed
  PROVE  Kept
<1>1. CallsExtend /\ DOMAIN calls' = DOMAIN calls
  BY DEF CallsExtend
<1>2. CallerInv' /\ OrderInv' /\ TurnInv'
  BY <1>1, CallerSame, TurnsSame DEF OrchInv, OrderInv
<1>3. \A c \in DOMAIN marks : c \in DOMAIN calls
  BY DEF OrchInv, MarkInv
<1>4. /\ DOMAIN marks' = DOMAIN calls
      /\ \A c \in DOMAIN marks :
           /\ DOMAIN marks'[c] = DOMAIN marks[c]
           /\ marks'[c].attempt = marks[c].attempt /\ marks'[c].handle = marks[c].handle
      /\ \A c \in DOMAIN calls \ DOMAIN marks :
           /\ DOMAIN marks'[c] = {"state", "handle", "branch", "attempt"}
           /\ marks'[c].attempt = Cardinality(Rank(c)) /\ marks'[c].handle = FALSE
  BY <1>3 DEF Merged, Rank, OrchInv, MarkInv
<1>5. AttemptsAgree'
  <2>1. \A c \in DOMAIN marks : marks[c].attempt = Cardinality(Rank(c))
    BY DEF OrchInv, MarkInv, AttemptsAgree, Rank
  <2>2. \A c \in DOMAIN marks' : marks'[c].attempt = Cardinality(Rank(c))
    BY <1>4, <2>1
  <2>3. \A c \in DOMAIN calls : Rank(c)' = Rank(c)
    BY <1>1, RankSame
  <2>4. \A c \in DOMAIN marks' : marks'[c].attempt = Cardinality(Rank(c)')
    BY <1>4, <2>2, <2>3
  <2> QED
    BY <2>4 DEF AttemptsAgree, Rank
<1>6. MarkInv'
  BY <1>4, <1>5 DEF OrchInv, MarkInv, Landed
<1>7. DriverInv'
  BY DEF Landed, DriverInv, OnInv
<1> QED
  BY <1>2, <1>6, <1>7 DEF Kept

LEMMA CrashKeeps == ASSUME OrchInv, Crash PROVE Kept
<1>1. calls' = calls /\ branches' = branches /\ turn' = turn /\ marks' = marks /\ driver' = Down
  BY DEF Crash, vars, store
<1>2. CallsExtend /\ DOMAIN calls' = DOMAIN calls
  BY <1>1 DEF CallsExtend
<1>3. CallerInv' /\ OrderInv' /\ TurnInv'
  BY <1>1, <1>2, CallerSame, TurnsSame DEF OrchInv, OrderInv
<1>4. AttemptsAgree'
  BY <1>1, <1>2, AttemptsSame DEF OrchInv
<1>5. driver'.at = "down" /\ DOMAIN driver' = Fields /\ driver'.back \in Returns
  BY <1>1 DEF Down, At, Fields, Returns
<1>6. MarkInv' /\ DriverInv'
  BY <1>1, <1>4, <1>5 DEF OrchInv, MarkInv, DriverInv, OnInv
<1> QED
  BY <1>3, <1>6 DEF Kept

(***************************************************************************)
(* The other steps are calm.                                               *)
(***************************************************************************)

LEMMA CallsFrame ==
  ASSUME calls' = calls, DOMAIN branches \subseteq DOMAIN branches'
  PROVE  CallsSame
BY DEF CallsSame, CallsExtend

LEMMA ConsumeFrame ==
  ASSUME TypeOK, NEW c, NEW b, Consume(c, b), DOMAIN branches \subseteq DOMAIN branches'
  PROVE  CallsSame
<1>1. CASE calls' = calls
  BY <1>1, CallsFrame
<1>2. ASSUME NEW d, c \in DOMAIN calls, calls' = [calls EXCEPT ![c].disposition = d]
      PROVE  CallsSame
  BY <1>2 DEF CallsSame, CallsExtend, TypeOK, Table, CallRec
<1> QED
  BY <1>1, <1>2 DEF Consume, WriterRouteCompletion, ModelRevisionDeferred, ModelRevisionApplied,
                    ModelStepSealed, Seal

LEMMA LandAt ==
  ASSUME NEW at, NEW on, NEW b, driver' = At(at, on, b),
         at \notin {"mark", "starting", "down", "running", "write", "pause", "resume", "interrupt"}
  PROVE  Landed
BY DEF Landed, At, Fields, Returns

LEMMA CallStepKeeps ==
  ASSUME OrchInv, CallStep, DOMAIN branches \subseteq DOMAIN branches'
  PROVE  Kept
<1>0. TypeOK /\ DOMAIN driver = Fields /\ driver.back \in Returns
  BY DEF OrchInv, RouteInv, DriverInv
<1>1. CASE MarkCall
  BY <1>1, MarkKeeps
<1>2. CASE Attach \/ StartRefused
  BY <1>2, AttachKeeps
<1>3. CASE CloseMark
  BY <1>3, CloseKeeps
<1>4. CASE FinishCall
  <2>1. /\ Terminate(driver.on, "finished", turn[driver.on].out)
        /\ driver.at = "write" /\ turn' = turn /\ marks' = marks /\ driver' = driver
    BY <1>4 DEF FinishCall, ModelCallFinished, store
  <2>2. driver.on \in DOMAIN turn /\ turn[driver.on].status = "completed"
    BY <2>1 DEF OrchInv, DriverInv, OnInv
  <2> QED
    BY <2>1, <2>2, EndedKeeps
<1>5. CASE FailCall
  <2>1. /\ Terminate(driver.on, "failed", turn[driver.on].out)
        /\ driver.at = "fail" /\ turn' = turn /\ marks' = marks /\ driver' = driver
    BY <1>5 DEF FailCall, ModelCallFailed, store
  <2> QED
    BY <2>1, EndedKeeps
<1>6. CASE Collect
  <2>1. Landed
    BY <1>0, <1>6 DEF Collect, Landed, Fields, OrchInv, DriverInv, OnInv
  <2> QED
    BY <1>6, <2>1, CallsFrame, CalmKeeps DEF Collect, Calm, vars, store
<1>7. CASE WriteChunk
  <2>1. CallsSame
    BY <1>0, <1>7 DEF WriteChunk, ModelCallChunk, InFlight, CallsSame, CallsExtend, TypeOK, Table, CallRec
  <2> QED
    BY <1>7, <2>1, CalmKeeps DEF WriteChunk, Calm, store
<1>8. CASE FinishWriter
  <2>1. CallsSame
    BY <1>0, <1>8, ConsumeFrame DEF FinishWriter
  <2>2. Landed
    BY <1>8, LandAt DEF FinishWriter, Loop
  <2> QED
    BY <1>8, <2>1, <2>2, CalmKeeps DEF FinishWriter, Calm, store
<1>9. CASE BookmarkStep \/ LeaveForRetry
  <2>1. Landed
    BY <1>9, LandAt DEF BookmarkStep, LeaveForRetry, Loop
  <2> QED
    BY <1>9, <2>1, CallsFrame, CalmKeeps DEF BookmarkStep, LeaveForRetry, Calm, vars, store
<1>10. CASE FinishCheck
  <2>1. Landed
    BY <1>10, LandAt DEF FinishCheck, Loop
  <2> QED
    BY <1>10, <2>1, CallsFrame, CalmKeeps DEF FinishCheck, CheckCompleted, Calm, store
<1>11. CASE CloseFailedCheck
  BY <1>11, CallsFrame, CalmKeeps DEF CloseFailedCheck, CheckCompleted, Calm, store
<1>12. CASE PauseFailedBranch
  <2>1. Landed
    BY <1>12, LandAt DEF PauseFailedBranch, Loop
  <2> QED
    BY <1>12, <2>1, CallsFrame, CalmKeeps DEF PauseFailedBranch, BranchStatusChanged, Calm, store
<1> QED
  BY <1>1, <1>2, <1>3, <1>4, <1>5, <1>6, <1>7, <1>8, <1>9, <1>10, <1>11, <1>12 DEF CallStep

LEMMA RepairStepKeeps ==
  ASSUME OrchInv, RepairStep, DOMAIN branches \subseteq DOMAIN branches'
  PROVE  Kept
<1>0. TypeOK
  BY DEF OrchInv, RouteInv
<1>1. CASE RepairOrphan
  BY <1>1, CallsFrame, CalmKeeps DEF RepairOrphan, BranchStatusChanged, Calm
<1>2. CASE RepairFinishedWriter
  <2>1. CallsSame
    BY <1>0, <1>2, ConsumeFrame DEF RepairFinishedWriter
  <2> QED
    BY <1>2, <2>1, CalmKeeps DEF RepairFinishedWriter, Calm, store
<1>3. CASE RepairStranded
  BY <1>3, CallsFrame, CalmKeeps DEF RepairStranded, BranchStatusChanged, Calm, store
<1>4. CASE RepairCheck
  BY <1>4, CallsFrame, CalmKeeps DEF RepairCheck, CheckCompleted, Calm, store
<1>5. CASE RepairCandidate
  BY <1>5, CallsFrame, CalmKeeps DEF RepairCandidate, CandidateDeclared, Calm, store
<1>6. CASE RepairReplacement
  BY <1>6, CallsFrame, CalmKeeps DEF RepairReplacement, HumanStepSealed, Seal, Calm, store
<1> QED
  BY <1>1, <1>2, <1>3, <1>4, <1>5, <1>6 DEF RepairStep

(* A branch is advanced from the loop or from a sweep.                     *)
LEMMA AdvancingAt ==
  ASSUME NEW b, Advancing(b) \/ Sweeping
  PROVE  driver.at \in {"loop", "sweep", "swept"}
BY DEF Advancing, Sweeping, Repaired, AllClosed, NoneStranded, AllSealed, AllReplaced, NoOrphans, Repairing,
       Aligned, Ready

LEMMA MovedAt ==
  ASSUME NEW b
  PROVE  /\ DOMAIN Moved(b) = Fields /\ Moved(b).at \in {"loop", "swept"}
         /\ Moved(b).back \in Returns
BY DEF Moved, Swept, Loop, At, Fields, Returns

LEMMA BranchStepKeeps ==
  ASSUME OrchInv, NEW b, DOMAIN branches \subseteq DOMAIN branches',
         \/ ParkBlocked(b) \/ RequestCheck(b) \/ CallOpenCheck(b) \/ CallWriter(b)
         \/ BeginFork(b) \/ CompleteBranch(b) \/ PassOver(b)
  PROVE  Kept
<1>0. /\ DOMAIN driver = Fields /\ driver.at \in {"loop", "sweep", "swept"}
  BY AdvancingAt DEF OrchInv, DriverInv, ParkBlocked, RequestCheck, CallOpenCheck, CallWriter,
                     BeginFork, CompleteBranch, PassOver
<1>1. CASE ParkBlocked(b)
  <2>1. Landed
    BY <1>1, MovedAt DEF ParkBlocked, Landed
  <2> QED
    BY <1>0, <1>1, <2>1, CallsFrame, CalmKeeps DEF ParkBlocked, BranchStatusChanged, Calm, store
<1>2. CASE RequestCheck(b)
  <2>1. Landed
    BY <1>2, LandAt DEF RequestCheck
  <2> QED
    BY <1>0, <1>2, <2>1, CallsFrame, CalmKeeps DEF RequestCheck, CheckRequested, Calm, store
<1>3. CASE CallOpenCheck(b) \/ CallWriter(b)
  BY <1>0, <1>3, StartKeeps DEF CallOpenCheck, CallWriter
<1>4. CASE BeginFork(b)
  <2>1. Landed
    BY <1>0, <1>4 DEF BeginFork, Landed, Fields, Returns
  <2> QED
    BY <1>0, <1>4, <2>1, CallsFrame, CalmKeeps DEF BeginFork, Calm, vars, store
<1>5. CASE CompleteBranch(b)
  <2>1. driver' = [Moved(b) EXCEPT !.at = "declare", !.branch = b, !.back = Moved(b).at]
    BY <1>5 DEF CompleteBranch
  <2>2. DOMAIN Moved(b) = Fields /\ Moved(b).at \in {"loop", "swept"}
    BY MovedAt
  <2>3. Landed
    BY <2>1, <2>2 DEF Landed, Fields, Returns
  <2> QED
    BY <1>0, <1>5, <2>3, CallsFrame, CalmKeeps DEF CompleteBranch, BranchStatusChanged, Calm, store
<1>6. CASE PassOver(b)
  <2>1. Landed
    BY <1>0, <1>6 DEF PassOver, Swept, At, Landed, Fields, Returns
  <2> QED
    BY <1>0, <1>6, <2>1, CallsFrame, CalmKeeps DEF PassOver, Calm, vars, store
<1> QED
  BY <1>1, <1>2, <1>3, <1>4, <1>5, <1>6

LEMMA ScheduleStepKeeps ==
  ASSUME OrchInv, ScheduleStep, DOMAIN branches \subseteq DOMAIN branches'
  PROVE  Kept
<1>0. DOMAIN driver = Fields /\ driver.back \in Returns
  BY DEF OrchInv, DriverInv
<1>1. CASE Stop
  <2>1. driver.at \in {"loop", "sweep"}
    BY <1>1 DEF Stop, Repaired, AllClosed, NoneStranded, AllSealed, AllReplaced, NoOrphans, Repairing, Aligned, Ready
  <2>2. Landed
    BY <1>1, LandAt DEF Stop, Settle
  <2> QED
    BY <1>1, <2>1, <2>2, CallsFrame, CalmKeeps DEF Stop, Calm, vars, store
<1>2. CASE BeginSweep
  <2>1. driver.at = "loop"
    BY <1>2 DEF BeginSweep, Repaired, AllClosed, NoneStranded, AllSealed, AllReplaced, NoOrphans, Repairing, Aligned, Ready
  <2>2. Landed
    BY <1>2 DEF BeginSweep, At, Landed, Fields, Returns
  <2> QED
    BY <1>2, <2>1, <2>2, CallsFrame, CalmKeeps DEF BeginSweep, Calm, vars, store
<1>3. CASE AgainAfterSweep
  <2>1. Landed
    BY <1>3, LandAt DEF AgainAfterSweep, Loop
  <2> QED
    BY <1>3, <2>1, CallsFrame, CalmKeeps DEF AgainAfterSweep, Calm, vars, store
<1>4. ASSUME NEW b \in ActiveBranches,
             \/ ParkBlocked(b) \/ RequestCheck(b) \/ CallOpenCheck(b) \/ CallWriter(b)
             \/ BeginFork(b) \/ CompleteBranch(b) \/ PassOver(b)
      PROVE  Kept
  BY <1>4, BranchStepKeeps
<1>5. CASE CallNewCheck \/ WriteAfterFork
  BY <1>5, StartKeeps DEF CallNewCheck, WriteAfterFork
<1>6. CASE CreateAlternative \/ SuppressFork
  <2>1. PICK back \in Returns : driver' = AfterFork(back)
    BY <1>0, <1>6 DEF CreateAlternative, SuppressFork, Returns
  <2>2. Landed
    BY <2>1 DEF AfterFork, At, Landed, Fields, Returns
  <2> QED
    BY <1>6, <2>2, CallsFrame, CalmKeeps
       DEF CreateAlternative, SuppressFork, ChildBranchCreated, Calm, vars, store
<1>7. CASE DeclareCandidate
  <2>1. Landed
    BY <1>0, <1>7 DEF DeclareCandidate, Landed, Fields, Returns
  <2> QED
    BY <1>7, <2>1, CallsFrame, CalmKeeps DEF DeclareCandidate, CandidateDeclared, Calm, store
<1> QED
  BY <1>1, <1>2, <1>3, <1>4, <1>5, <1>6, <1>7 DEF ScheduleStep

LEMMA CommandStepKeeps ==
  ASSUME OrchInv, PauseStep \/ ResumeStep \/ AbortStep, DOMAIN branches \subseteq DOMAIN branches'
  PROVE  Kept
<1>0. DOMAIN driver = Fields /\ driver.back \in Returns
      /\ (driver.at \in {"pause", "resume"} => driver.todo \subseteq DOMAIN branches)
  BY DEF OrchInv, DriverInv, OnInv
<1>1. CASE BeginPause
  <2>1. driver.at = "loop"
    BY <1>1 DEF BeginPause, Repaired, AllClosed, NoneStranded, AllSealed, AllReplaced, NoOrphans, Repairing, Aligned, Ready
  <2>2. Landed
    BY <1>1 DEF BeginPause, At, Landed, Fields, Returns, ActiveBranches
  <2> QED
    BY <1>1, <2>1, <2>2, CallsFrame, CalmKeeps DEF BeginPause, Calm, vars, store
<1>2. ASSUME NEW at \in {"pause", "resume"}, NEW kind, RecordAction(at, kind)
      PROVE  Kept
  <2>1. Landed
    BY <1>0, <1>2 DEF RecordAction, Landed, Fields
  <2> QED
    BY <1>2, <2>1, CallsFrame, CalmKeeps DEF RecordAction, HumanAction, Calm, store
<1>3. CASE PauseBranch \/ ResumeBranch
  <2>1. Landed
    BY <1>0, <1>3 DEF PauseBranch, ResumeBranch, Landed, Fields
  <2> QED
    BY <1>3, <2>1, CallsFrame, CalmKeeps
       DEF PauseBranch, ResumeBranch, BranchStatusChanged, Calm, store
<1>4. CASE EndPause \/ EndResume
  <2>1. Landed
    BY <1>4, LandAt DEF EndPause, EndResume, Settle, Loop
  <2> QED
    BY <1>4, <2>1, CallsFrame, CalmKeeps DEF EndPause, EndResume, Calm, vars, store
<1>5. CASE ReleaseCheck
  BY <1>5, CallsFrame, CalmKeeps DEF ReleaseCheck, CheckRetryAuthorized, Calm, store
<1>6. CASE NextResumed
  <2>1. Landed
    BY <1>0, <1>6 DEF NextResumed, Releasing, Landed, Fields
  <2> QED
    BY <1>6, <2>1, CallsFrame, CalmKeeps DEF NextResumed, Releasing, Calm, vars, store
<1>7. CASE InterruptAction
  <2>1. Landed
    BY <1>7 DEF InterruptAction, Abort, Landed, Fields, Returns
  <2> QED
    BY <1>7, <2>1, CallsFrame, CalmKeeps DEF InterruptAction, HumanAction, Calm, store
<1>8. CASE InterruptTurn \/ InterruptFails
  BY <1>8, InterruptKeeps
<1>9. CASE AbortCall
  <2>1. /\ Terminate(driver.on, "aborted", turn[driver.on].out)
        /\ driver.at = "aborting" /\ turn' = turn /\ marks' = marks /\ driver' = driver
    BY <1>9 DEF AbortCall, ModelCallAborted, store
  <2> QED
    BY <2>1, EndedKeeps
<1>10. CASE ParkAborted \/ KeepAborted
  <2>1. Landed
    BY <1>0, <1>10 DEF ParkAborted, KeepAborted, Landed, Fields
  <2> QED
    BY <1>10, <2>1, CallsFrame, CalmKeeps
       DEF ParkAborted, KeepAborted, BranchStatusChanged, Calm, vars, store
<1>11. CASE EndAbort
  <2>1. Landed
    BY <1>0, <1>11, LandAt DEF EndAbort, Returns
  <2> QED
    BY <1>11, <2>1, CallsFrame, CalmKeeps DEF EndAbort, Calm, vars, store
<1> QED
  BY <1>1, <1>2, <1>3, <1>4, <1>5, <1>6, <1>7, <1>8, <1>9, <1>10, <1>11
     DEF PauseStep, ResumeStep, AbortStep, PauseAction, ResumeAction

LEMMA EditStepKeeps ==
  ASSUME OrchInv, EditStep, DOMAIN branches \subseteq DOMAIN branches'
  PROVE  Kept
<1>0. DOMAIN driver = Fields /\ driver.back \in Returns
  BY DEF OrchInv, DriverInv
<1>1. driver.at \in {"expand", "expanding", "revise", "replacing", "replaced"}
  BY DEF EditStep, ExpandAction, ExpandBranch, ReviseAction, ReplaceBranch, SealReplacement, Editing
<1>2. calls' = calls /\ turn' = turn /\ marks' = marks
  BY DEF EditStep, ExpandAction, ExpandBranch, ReviseAction, ReplaceBranch, SealReplacement,
         HumanAction, ChildBranchCreated, HumanStepSealed, Seal, store
<1>3. CASE ExpandBranch \/ SealReplacement
  <2>1. Landed
    BY <1>3, LandAt DEF ExpandBranch, SealReplacement, Loop
  <2> QED
    BY <1>1, <1>2, <2>1, CallsFrame, CalmKeeps DEF Calm
<1>4. CASE ExpandAction \/ ReviseAction \/ ReplaceBranch
  <2>1. Landed
    BY <1>0, <1>4 DEF ExpandAction, ReviseAction, ReplaceBranch, Landed, Fields
  <2> QED
    BY <1>1, <1>2, <2>1, CallsFrame, CalmKeeps DEF Calm
<1> QED
  BY <1>3, <1>4 DEF EditStep

LEMMA OtherStepKeeps ==
  ASSUME OrchInv, DOMAIN branches \subseteq DOMAIN branches',
         \/ CreateRun \/ CreateRoot \/ RecoverStep \/ EndDriver \/ DriverFails \/ ProviderStep
         \/ PauseRun \/ ResumeRun \/ InterruptRun \/ (\E edit \in {"expand", "revise"} : EditRun(edit))
         \/ Crash \/ Restart \/ UNCHANGED orchVars
  PROVE  Kept
<1>0. TypeOK /\ DOMAIN driver = Fields /\ driver.back \in Returns
  BY DEF OrchInv, RouteInv, DriverInv
<1>1. CASE CreateRun \/ CreateRoot
  <2>1. Landed
    BY <1>1, LandAt DEF CreateRun, CreateRoot, Loop
  <2> QED
    BY <1>1, <2>1, CallsFrame, CalmKeeps
       DEF CreateRun, RunCreated, CreateRoot, RootBranchCreated, Calm, store
<1>2. CASE RecoverAbort
  <2>1. Landed
    BY <1>2 DEF RecoverAbort, Abort, Landed, Fields, Returns
  <2> QED
    BY <1>2, <2>1, CallsFrame, CalmKeeps DEF RecoverAbort, Calm, vars, store
<1>3. ASSUME NEW c \in InFlight, RecoverCall(c) PROVE Kept
  <2>1. c \in DOMAIN turn
    BY <1>3 DEF RecoverCall, HasHandle, OrchInv, MarkInv
  <2>2. Landed
    BY <1>3, <2>1 DEF RecoverCall, At, Landed, Fields, Returns
  <2> QED
    BY <1>3, <2>2, CallsFrame, CalmKeeps DEF RecoverCall, Calm, vars, store
<1>4. CASE EndRecover \/ EndDriver
  <2>1. Landed
    BY <1>4, LandAt DEF EndRecover, EndDriver, Loop, Idle
  <2> QED
    BY <1>4, <2>1, CallsFrame, CalmKeeps DEF EndRecover, EndDriver, Calm, vars, store
<1>5. CASE DriverFails
  <2>1. Landed
    BY <1>5, LandAt DEF DriverFails, Idle
  <2> QED
    BY <1>5, <2>1, MergeKeeps DEF DriverFails, vars
<1>6. CASE ProviderStep
  BY <1>6, AnswerKeeps DEF ProviderStep
<1>7. CASE PauseRun \/ UNCHANGED orchVars
  BY <1>7, CallsFrame, CalmKeeps DEF PauseRun, orchVars, Calm, vars, store
<1>8. CASE ResumeRun
  <2>1. Landed
    BY <1>8 DEF ResumeRun, At, Landed, Fields, Returns
  <2> QED
    BY <1>8, <2>1, CallsFrame, CalmKeeps DEF ResumeRun, Calm, vars, store
<1>9. CASE InterruptRun
  <2>1. InFlight \subseteq Nat /\ InFlight # {} /\ InFlight \subseteq DOMAIN calls
    BY <1>0, <1>9, IdsAreNat DEF InterruptRun, InFlight, TypeOK, Table
  <2>2. Least(InFlight) \in DOMAIN calls
    BY <2>1, LeastIn
  <2>3. Landed
    BY <1>9, <2>2 DEF InterruptRun, At, Landed, Fields, Returns
  <2> QED
    BY <1>9, <2>3, CallsFrame, CalmKeeps DEF InterruptRun, Calm, vars, store
<1>10. CASE Crash
  BY <1>10, CrashKeeps
<1>11. CASE Restart
  <2>1. Landed
    BY <1>11, LandAt DEF Restart, Idle, Loop
  <2> QED
    BY <1>11, <2>1, MergeKeeps DEF Restart, vars
<1>12. ASSUME NEW edit \in {"expand", "revise"}, EditRun(edit) PROVE Kept
  <2>1. PICK s : driver' = At(edit, s, Least(Showing(s)))
    BY <1>12 DEF EditRun
  <2>2. Landed
    BY <2>1, LandAt
  <2> QED
    BY <1>12, <2>2, CallsFrame, CalmKeeps DEF EditRun, Calm, vars, store
<1> QED
  BY <1>1, <1>2, <1>3, <1>4, <1>5, <1>6, <1>7, <1>8, <1>9, <1>10, <1>11, <1>12 DEF RecoverStep

LEMMA OrchInvStep == OrchInv /\ [OrchNext]_orchVars => OrchInv'
<1> SUFFICES ASSUME OrchInv, [OrchNext]_orchVars PROVE OrchInv'
  OBVIOUS
<1>1. [Next]_vars
  BY StepLegal
<1>2. RouteInv' /\ DOMAIN branches \subseteq DOMAIN branches'
  BY <1>1, RouteInvStep, BranchesGrow DEF OrchInv
<1>3. Kept
  BY <1>2, CallStepKeeps, RepairStepKeeps, ScheduleStepKeeps, CommandStepKeeps, EditStepKeeps, OtherStepKeeps
     DEF OrchNext, DriverStep
<1> QED
  BY <1>2, <1>3 DEF Kept, OrchInv

LEMMA OrchInvInit == OrchInit => OrchInv
<1> SUFFICES ASSUME OrchInit PROVE OrchInv
  OBVIOUS
<1>1. RouteInv /\ DOMAIN calls = {} /\ DOMAIN turn = {} /\ DOMAIN marks = {}
  BY RouteInvInit, EmptyTable DEF OrchInit, Init
<1>2. driver = At("new", None, None)
  BY DEF OrchInit
<1>3. DriverInv
  BY <1>2 DEF DriverInv, OnInv, At, Fields, Returns
<1>4. MarkInv
  BY <1>1, <1>2 DEF MarkInv, AttemptsAgree, At
<1> QED
  BY <1>1, <1>3, <1>4 DEF OrchInv, CallerInv, OrderInv, TurnInv

LEMMA OrchInvariant == OrchSpec => []OrchInv
BY OrchInvInit, OrchInvStep, PTL DEF OrchSpec

(***************************************************************************)
(* Where branches come from.                                               *)
(***************************************************************************)

(* What a step does to the branches: most open none, and an action has its *)
(* effect at most once.                                                    *)
EditKinds == {"set_direction", "revise_step"}
Consumes(a) == a \in DOMAIN actions /\ consumed' = consumed \cup {a}
NoBirth ==
  /\ DOMAIN branches' = DOMAIN branches
  /\ consumed' = consumed \/ \E a : Consumes(a) /\ actions[a].kind \notin EditKinds
Birth(b) ==
  /\ b \notin DOMAIN branches /\ DOMAIN branches' = DOMAIN branches \cup {b}
  /\ branches'[b].inherited <= Len(branches'[b].route)
ModelBirth ==
  \E b : Birth(b) /\ branches'[b].reason \in {"root", "model_revision"} /\ consumed' = consumed

LEMMA ConsumeBirth ==
  ASSUME RouteInv, NEW c, NEW b, Consume(c, b), UNCHANGED consumed
  PROVE  NoBirth \/ ModelBirth
<1> DEFINE s == Fresh(Step, steps)
           x == Fresh(Branch, branches)
           old == calls[c].raw[1].revise
<1>1. CASE WriterRouteCompletion(b, c) \/ ModelRevisionDeferred(c, old) \/ ModelStepSealed(s, b, None, c)
  BY <1>1 DEF WriterRouteCompletion, ModelRevisionDeferred, ModelStepSealed, Seal, NoBirth
<1>2. CASE Left(Step, steps) /\ ModelRevisionApplied(b, x, old, s, c)
  <2> DEFINE parked == [branches EXCEPT ![b].status = "parked", ![b].moved = "model_superseded"]
             pre == Prefix(branches[b].route, "replace", old)
             child == [parent |-> b, mode |-> "replace", anchor |-> old,
                       inherited |-> Len(pre), route |-> Append(pre, s),
                       status |-> "active", reason |-> "model_revision", moved |-> "model_revision"]
  <2>1. /\ b \in DOMAIN branches /\ x \notin DOMAIN branches /\ old \in Elems(branches[b].route)
        /\ branches' = Put(parked, x, child) /\ DOMAIN parked = DOMAIN branches
    BY <1>2 DEF ModelRevisionApplied, ActiveBranches
  <2>2. branches[b].route \in Seq(Step) /\ s \in Step
    BY <2>1, <1>2, FreshMember, IdsAreNat DEF RouteInv, TypeOK, Table, BranchRec
  <2>3. pre \in Seq(Step)
    BY <2>1, <2>2, PrefixProperties
  <2> HIDE DEF pre, s
  <2>4. Len(pre) <= Len(Append(pre, s))
    BY <2>2, <2>3
  <2>5. child.inherited <= Len(child.route) /\ child.reason = "model_revision"
    BY <2>4
  <2> HIDE DEF parked, child, x
  <2>6. Birth(x) /\ branches'[x].reason = "model_revision"
    BY <2>1, <2>5 DEF Put, Birth
  <2> QED
    BY <2>6 DEF ModelBirth
<1> QED
  BY <1>1, <1>2 DEF Consume

LEMMA ChildBirth ==
  ASSUME NEW b, NEW p, NEW anchor, NEW mode, NEW reason, NEW a, NEW status,
         RouteInv, ChildBranchCreated(b, p, anchor, mode, reason, a, status)
  PROVE  /\ Birth(b) /\ branches'[b].reason = reason
         /\ branches'[b].parent = p /\ branches'[b].anchor = anchor
<1> DEFINE pre == Prefix(branches[p].route, mode, anchor)
           child == [parent |-> p, mode |-> mode, anchor |-> anchor, inherited |-> Len(pre),
                     route |-> pre, status |-> status, reason |-> reason, moved |-> reason]
<1>1. b \notin DOMAIN branches /\ branches' = Put(branches, b, child)
      /\ p \in DOMAIN branches /\ anchor \in Elems(branches[p].route)
  BY DEF ChildBranchCreated
<1>2. branches[p].route \in Seq(Step)
  BY <1>1 DEF RouteInv, TypeOK, Table, BranchRec
<1>3. pre \in Seq(Step)
  BY <1>1, <1>2, PrefixProperties
<1> HIDE DEF pre
<1>4. Len(pre) <= Len(pre)
  BY <1>3
<1>5. /\ child.inherited <= Len(child.route) /\ child.reason = reason
      /\ child.parent = p /\ child.anchor = anchor
  BY <1>4
<1> HIDE DEF child
<1> QED
  BY <1>1, <1>5 DEF Put, Birth

LEMMA RootBirth == ASSUME CreateRoot PROVE ModelBirth
<1> DEFINE b == Fresh(Branch, branches)
<1>1. RootBranchCreated(b, "active") /\ consumed' = consumed
  BY DEF CreateRoot, facets
<1> HIDE DEF b
<1>2. /\ b \notin DOMAIN branches /\ DOMAIN branches' = DOMAIN branches \cup {b}
      /\ branches'[b].reason = "root" /\ branches'[b].inherited = 0 /\ branches'[b].route = <<>>
  BY <1>1 DEF RootBranchCreated, Put
<1>3. Birth(b)
  BY <1>2 DEF Birth
<1> QED
  BY <1>1, <1>2, <1>3 DEF ModelBirth

(* A change of status consumes an action of its own kind.                  *)
LEMMA MoveFrame ==
  ASSUME NEW b, NEW to, NEW reason, NEW a, NEW k, NEW c, BranchStatusChanged(b, to, reason, a, k, c)
  PROVE  /\ DOMAIN branches' = DOMAIN branches
         /\ reason = "human_pause" => a \in DOMAIN actions /\ actions[a].kind = "pause_branch"
         /\ reason = "human_resume" => a \in DOMAIN actions /\ actions[a].kind = "resume_branch"
BY DEF BranchStatusChanged, StatusReasonOk, HumanMoveOk, CitesAction

LEMMA Births ==
  ASSUME OrchInv, [OrchNext]_orchVars
  PROVE  NoBirth \/ ModelBirth \/ CreateAlternative \/ ExpandBranch \/ ReplaceBranch
<1>0. RouteInv
  BY DEF OrchInv
<1>a. ASSUME DOMAIN branches' = DOMAIN branches, consumed' = consumed PROVE NoBirth
  BY <1>a DEF NoBirth
<1>b. ASSUME DOMAIN branches' = DOMAIN branches, NEW a \in DOMAIN actions,
             actions[a].kind \in {"pause_branch", "resume_branch", "abort_model_call"},
             consumed' = consumed \cup {a}
      PROVE  NoBirth
  BY <1>b DEF NoBirth, Consumes, EditKinds
<1>1. CASE CreateRoot
  BY <1>1, RootBirth
<1>2. CASE FinishWriter \/ RepairFinishedWriter
  BY <1>0, <1>2, ConsumeBirth DEF FinishWriter, RepairFinishedWriter, facets
<1>3. CASE \/ MarkCall \/ Attach \/ StartRefused \/ Collect \/ WriteChunk \/ FinishCall \/ FailCall \/ CloseMark
           \/ BookmarkStep \/ FinishCheck \/ LeaveForRetry \/ CloseFailedCheck \/ RepairCheck \/ RepairCandidate
  BY <1>3, <1>a DEF MarkCall, Attach, StartRefused, Collect, WriteChunk, FinishCall, FailCall, CloseMark,
     BookmarkStep, FinishCheck, LeaveForRetry, CloseFailedCheck, RepairCheck, RepairCandidate,
     ModelCallChunk, ModelCallFinished, ModelCallFailed, Terminate, CheckCompleted, CandidateDeclared, vars, facets
<1>4. CASE PauseFailedBranch \/ RepairStranded \/ ParkAborted \/ (\E b : ParkBlocked(b) \/ CompleteBranch(b))
  BY <1>4, <1>a, MoveFrame DEF PauseFailedBranch, RepairStranded, ParkAborted, ParkBlocked, CompleteBranch, facets
<1>5. CASE RepairOrphan
  <2>1. PICK b, a : \/ BranchStatusChanged(b, "paused", "human_pause", a, None, None) /\ consumed' = consumed \cup {a}
                    \/ BranchStatusChanged(b, "active", "human_resume", a, None, None) /\ consumed' = consumed \cup {a}
    BY <1>5 DEF RepairOrphan
  <2> QED
    BY <2>1, <1>b, MoveFrame
<1>6. CASE PauseBranch \/ ResumeBranch
  <2>1. PICK b, a : \/ BranchStatusChanged(b, "paused", "human_pause", a, None, None) /\ consumed' = consumed \cup {a}
                    \/ BranchStatusChanged(b, "active", "human_resume", a, None, None) /\ consumed' = consumed \cup {a}
    BY <1>6 DEF PauseBranch, ResumeBranch
  <2> QED
    BY <2>1, <1>b, MoveFrame
<1>7. CASE AbortCall
  <2>1. PICK a : ModelCallAborted(driver.on, turn[driver.on].out, a) /\ consumed' = consumed \cup {a}
    BY <1>7 DEF AbortCall
  <2>2. a \in DOMAIN actions /\ actions[a].kind = "abort_model_call" /\ DOMAIN branches' = DOMAIN branches
    BY <2>1 DEF ModelCallAborted, CitesAction, Terminate
  <2> QED
    BY <2>1, <2>2, <1>b
<1>8. CASE \/ RepairReplacement \/ SealReplacement
  BY <1>8, <1>a DEF RepairReplacement, SealReplacement, HumanStepSealed, Seal, facets
<1>9. CASE \/ Stop \/ BeginSweep \/ AgainAfterSweep \/ CallNewCheck \/ SuppressFork \/ WriteAfterFork \/ DeclareCandidate
           \/ \E b : RequestCheck(b) \/ CallOpenCheck(b) \/ CallWriter(b) \/ BeginFork(b) \/ PassOver(b)
  BY <1>9, <1>a DEF Stop, BeginSweep, AgainAfterSweep, CallNewCheck, SuppressFork, WriteAfterFork, DeclareCandidate,
     RequestCheck, CallOpenCheck, CallWriter, BeginFork, PassOver, StartCall, ModelCallStarted, CheckRequested,
     CandidateDeclared, vars, facets
<1>10. CASE \/ BeginPause \/ PauseAction \/ EndPause \/ ResumeAction \/ ReleaseCheck \/ NextResumed \/ EndResume
            \/ ExpandAction \/ ReviseAction \/ InterruptAction
  BY <1>10, <1>a DEF BeginPause, PauseAction, EndPause, ResumeAction, RecordAction, ReleaseCheck, NextResumed,
     EndResume, ExpandAction, ReviseAction, InterruptAction, HumanAction, CheckRetryAuthorized, vars, facets
<1>11. CASE \/ CreateRun \/ InterruptTurn \/ InterruptFails \/ KeepAborted \/ EndAbort \/ RecoverAbort
            \/ (\E c \in InFlight : RecoverCall(c)) \/ EndRecover \/ EndDriver \/ DriverFails \/ ProviderStep
            \/ PauseRun \/ ResumeRun \/ InterruptRun \/ (\E edit \in {"expand", "revise"} : EditRun(edit))
            \/ Crash \/ Restart \/ UNCHANGED orchVars
  BY <1>11, <1>a DEF CreateRun, RunCreated, InterruptTurn, InterruptFails, KeepAborted, EndAbort, RecoverAbort,
     RecoverCall, EndRecover, EndDriver, DriverFails, ProviderStep, TurnEnds, PauseRun, ResumeRun, InterruptRun,
     EditRun, Crash, Restart, orchVars, vars, facets
<1> QED
  BY <1>1, <1>2, <1>3, <1>4, <1>5, <1>6, <1>7, <1>8, <1>9, <1>10, <1>11, Zenon
     DEF OrchNext, DriverStep, CallStep, RepairStep, ScheduleStep, PauseStep, ResumeStep, EditStep,
         AbortStep, RecoverStep

(***************************************************************************)
(* Where the driver stands still, and how it came there.                   *)
(***************************************************************************)

(* Places where the driver is about to do what it has decided already: it  *)
(* comes there by one action and nothing durable happens while it stays.   *)
Spots == {"check", "fork", "forked", "expanding", "replacing"}
Stays == driver' = driver /\ UNCHANGED <<vars, facets>>

LEMMA MovedSpot ==
  ASSUME NEW b
  PROVE  Moved(b).at \notin Spots /\ [Moved(b) EXCEPT !.at = "declare", !.branch = b, !.back = Moved(b).at].at \notin Spots
BY DEF Moved, Swept, Loop, At, Spots

LEMMA Arrivals ==
  ASSUME OrchInv, [OrchNext]_orchVars, driver'.at \in Spots
  PROVE  \/ Stays \/ CreateAlternative \/ SuppressFork \/ ExpandAction \/ ReviseAction
         \/ \E b \in ActiveBranches : RequestCheck(b) \/ BeginFork(b)
<1>0. DOMAIN driver = Fields /\ driver.back \in Returns
  BY DEF OrchInv, DriverInv
<1>1. ~(CreateRun \/ CreateRoot)
  BY DEF CreateRun, CreateRoot, At, Loop, Spots
<1>2. ~CallStep
  <2>1. ~(MarkCall \/ Attach \/ StartRefused \/ Collect)
    BY <1>0 DEF MarkCall, Attach, StartRefused, Collect, Fields, Spots
  <2>2. ~(WriteChunk \/ FinishCall \/ FailCall \/ CloseFailedCheck \/ CloseMark)
    BY DEF WriteChunk, FinishCall, FailCall, CloseFailedCheck, CloseMark, ToAlign, Spots
  <2>3. ~(FinishWriter \/ BookmarkStep \/ FinishCheck \/ LeaveForRetry \/ PauseFailedBranch)
    BY DEF FinishWriter, BookmarkStep, FinishCheck, LeaveForRetry, PauseFailedBranch, Loop, At, Spots
  <2> QED
    BY <2>1, <2>2, <2>3 DEF CallStep
<1>3. ~RepairStep
  BY DEF RepairStep, RepairOrphan, RepairReplacement, RepairFinishedWriter, RepairStranded, RepairCheck,
         RepairCandidate, AllClosed, NoneStranded, AllSealed, AllReplaced, NoOrphans, Repairing, Aligned, Ready, Spots
<1>4. ASSUME ScheduleStep
      PROVE  CreateAlternative \/ SuppressFork \/ \E b \in ActiveBranches : RequestCheck(b) \/ BeginFork(b)
  <2>1. ~(Stop \/ BeginSweep \/ AgainAfterSweep)
    BY DEF Stop, BeginSweep, AgainAfterSweep, Settle, Loop, At, Spots
  <2>2. ~(CallNewCheck \/ WriteAfterFork \/ \E b : CallOpenCheck(b) \/ CallWriter(b))
    <3>1. ASSUME NEW role, NEW target, NEW b, StartCall(role, target, b) PROVE FALSE
      BY <3>1 DEF StartCall, At, Spots
    <3> QED
      BY <3>1, Zenon DEF CallNewCheck, WriteAfterFork, CallOpenCheck, CallWriter
  <2>3. ~(\E b : ParkBlocked(b) \/ CompleteBranch(b))
    BY MovedSpot DEF ParkBlocked, CompleteBranch
  <2>4. ~(\E b : PassOver(b))
    BY DEF PassOver, Sweeping, Swept, At, Spots
  <2>5. ~DeclareCandidate
    BY <1>0 DEF DeclareCandidate, Fields, Returns, Spots
  <2> QED
    BY <1>4, <2>1, <2>2, <2>3, <2>4, <2>5 DEF ScheduleStep
<1>5. ~(PauseStep \/ ResumeStep)
  <2>1. ~(BeginPause \/ EndPause \/ EndResume \/ ReleaseCheck)
    BY DEF BeginPause, EndPause, EndResume, ReleaseCheck, Releasing, Settle, Loop, At, Spots
  <2>2. ~(PauseAction \/ ResumeAction)
    BY <1>0 DEF PauseAction, ResumeAction, RecordAction, Fields, Spots
  <2>3. ~(PauseBranch \/ ResumeBranch \/ NextResumed)
    BY <1>0 DEF PauseBranch, ResumeBranch, NextResumed, Releasing, Fields, Spots
  <2> QED
    BY <2>1, <2>2, <2>3 DEF PauseStep, ResumeStep
<1>6. ASSUME EditStep PROVE ExpandAction \/ ReviseAction
  <2>1. ~(ExpandBranch \/ SealReplacement)
    BY DEF ExpandBranch, SealReplacement, Loop, At, Spots
  <2>2. ~ReplaceBranch
    <3>1. ASSUME ReplaceBranch PROVE driver'.at = "replaced"
      BY <1>0, <3>1 DEF ReplaceBranch, Fields
    <3> QED
      BY <3>1 DEF Spots
  <2> QED
    BY <1>6, <2>1, <2>2 DEF EditStep
<1>7. ~(AbortStep \/ RecoverStep)
  <2>1. ~(InterruptAction \/ InterruptTurn \/ InterruptFails \/ AbortCall)
    BY <1>0 DEF InterruptAction, InterruptTurn, InterruptFails, AbortCall, Abort, Idle, At, Fields, Spots
  <2>2. ~(ParkAborted \/ KeepAborted \/ EndAbort)
    BY <1>0 DEF ParkAborted, KeepAborted, EndAbort, At, Fields, Returns, Spots
  <2>3. ~(RecoverAbort \/ (\E c \in InFlight : RecoverCall(c)) \/ EndRecover)
    BY DEF RecoverAbort, RecoverCall, EndRecover, Abort, Loop, At, Spots
  <2> QED
    BY <2>1, <2>2, <2>3 DEF AbortStep, RecoverStep
<1>8. ~(EndDriver \/ DriverFails \/ ResumeRun \/ InterruptRun \/ Crash \/ Restart)
  BY DEF EndDriver, DriverFails, ResumeRun, InterruptRun, Crash, Restart, Idle, Loop, Down, At, Spots
<1>9. ~(\E edit \in {"expand", "revise"} : EditRun(edit))
  BY DEF EditRun, At, Spots
<1>10. ASSUME ProviderStep \/ PauseRun \/ UNCHANGED orchVars PROVE Stays
  BY <1>10 DEF ProviderStep, TurnEnds, PauseRun, orchVars, Stays
<1> QED
  BY <1>1, <1>2, <1>3, <1>4, <1>5, <1>6, <1>7, <1>8, <1>9, <1>10 DEF OrchNext, DriverStep

LEMMA ArrivedAt ==
  ASSUME OrchInv
  PROVE  /\ CreateAlternative \/ SuppressFork => driver'.at \notin Spots \ {"forked"}
         /\ ExpandAction => driver'.at = "expanding"
         /\ ReviseAction => driver'.at = "replacing"
         /\ \A b : RequestCheck(b) => driver'.at = "check"
         /\ \A b : BeginFork(b) => driver'.at = "fork"
<1>0. DOMAIN driver = Fields /\ driver.back \in Returns
  BY DEF OrchInv, DriverInv
<1>1. ASSUME CreateAlternative \/ SuppressFork PROVE driver'.at \notin Spots \ {"forked"}
  <2>1. PICK back \in Returns : driver' = AfterFork(back)
    BY <1>0, <1>1 DEF CreateAlternative, SuppressFork, Returns
  <2> QED
    BY <2>1 DEF AfterFork, At, Returns, Spots
<1>2. ASSUME ExpandAction PROVE driver'.at = "expanding"
  BY <1>0, <1>2 DEF ExpandAction, Fields
<1>3. ASSUME ReviseAction PROVE driver'.at = "replacing"
  BY <1>0, <1>3 DEF ReviseAction, Fields
<1>4. ASSUME NEW b, RequestCheck(b) PROVE driver'.at = "check"
  BY <1>4 DEF RequestCheck, At
<1>5. ASSUME NEW b, BeginFork(b) PROVE driver'.at = "fork"
  BY <1>0, <1>5 DEF BeginFork, Fields
<1> QED
  BY <1>1, <1>2, <1>3, <1>4, <1>5

(***************************************************************************)
(* Alternatives and edits open their branch once.                          *)
(***************************************************************************)

ActionsKept ==
  \A a \in DOMAIN actions : a \in DOMAIN actions' /\ actions'[a] = actions[a]

LEMMA ActionsKeptStep == ASSUME [Next]_vars PROVE ActionsKept
<1>1. CASE actions' = actions
  BY <1>1 DEF ActionsKept
<1>2. ASSUME NEW a \in Action, HumanActionRecorded(a) PROVE ActionsKept
  BY <1>2 DEF HumanActionRecorded, HumanAction, Put, ActionsKept
<1>3. CASE BranchEvent \/ StepEvent \/ CheckEvent \/ CandidateEvent
  BY <1>1, <1>3, BranchEventFrame, StepEventFrame, CheckEventFrame, CandidateEventFrame DEF BranchFrame
<1>4. CASE CallEvent
  BY <1>1, <1>4 DEF CallEvent, ModelCallStarted, ModelCallChunk, ModelCallFinished,
     ModelCallFailed, ModelCallAborted, Terminate, WriterOutputNormalized, ModelRevisionDeferred,
     WriterRouteCompletion
<1>5. CASE RunCreated \/ (\E e \in Source : SourceEvidenceRegistered(e)) \/ UNCHANGED vars
  BY <1>1, <1>5 DEF RunCreated, SourceEvidenceRegistered, vars
<1> QED
  BY <1>2, <1>3, <1>4, <1>5, Zenon DEF Next

(* The inductive invariant: what is about to be done has not been done.    *)
EditInv ==
  /\ IsFiniteSet(consumed) /\ consumed \subseteq DOMAIN actions
  /\ driver.at \in {"expanding", "replacing"} => driver.todo \cap consumed = {}
AlternativeInv == driver.at = "fork" => ~AlternativeExists(driver.branch)
HumanBorn == {b \in DOMAIN branches : branches[b].reason \in {"human_direction", "human_revision"}}
BornInv == EditInv /\ AlternativeInv /\ OneAlternative /\ OneBranchPerEdit

(* The steps that open a branch, seen from the branch.                     *)
LEMMA AlternativeBorn ==
  ASSUME RouteInv, CreateAlternative
  PROVE  \E b : /\ Birth(b) /\ branches'[b].reason = "model_alternative" /\ UNCHANGED <<consumed, actions>>
                /\ driver.at = "fork" /\ branches'[b].parent = driver.branch
                /\ branches'[b].anchor = Tip(driver.branch)
<1> DEFINE b == Fresh(Branch, branches)
<1>1. /\ ChildBranchCreated(b, driver.branch, Tip(driver.branch), "after", "model_alternative", None, "active")
      /\ driver.at = "fork" /\ consumed' = consumed
  BY DEF CreateAlternative, facets
<1> HIDE DEF b
<1>2. Birth(b) /\ branches'[b].reason = "model_alternative" /\ branches'[b].parent = driver.branch
      /\ branches'[b].anchor = Tip(driver.branch)
  BY <1>1, ChildBirth
<1>3. actions' = actions
  BY <1>1 DEF ChildBranchCreated
<1> QED
  BY <1>1, <1>2, <1>3

LEMMA EditBorn ==
  ASSUME RouteInv, ExpandBranch \/ ReplaceBranch
  PROVE  \E b, a : /\ Birth(b) /\ branches'[b].reason \in {"human_direction", "human_revision"}
                   /\ driver.at \in {"expanding", "replacing"} /\ a \in driver.todo
                   /\ a \in Edits /\ consumed' = consumed \cup {a} /\ actions' = actions
<1> DEFINE b == Fresh(Branch, branches)
<1>1. \E a \in driver.todo, mode \in {"after", "replace"}, reason \in {"human_direction", "human_revision"} :
        /\ ChildBranchCreated(b, driver.branch, driver.on, mode, reason, a, "active")
        /\ consumed' = consumed \cup {a} /\ driver.at \in {"expanding", "replacing"}
  BY Zenon DEF ExpandBranch, ReplaceBranch
<1> HIDE DEF b
<1>2. PICK a \in driver.todo, mode \in {"after", "replace"}, reason \in {"human_direction", "human_revision"} :
        /\ ChildBranchCreated(b, driver.branch, driver.on, mode, reason, a, "active")
        /\ consumed' = consumed \cup {a} /\ driver.at \in {"expanding", "replacing"}
  BY <1>1
<1>3. Birth(b) /\ branches'[b].reason = reason
  BY <1>2, ChildBirth
<1>4. a \in Edits /\ actions' = actions
  BY <1>2 DEF ChildBranchCreated, ChildReasonOk, CitesAction, Edits
<1> QED
  BY <1>2, <1>3, <1>4

LEMMA EditsStep ==
  ASSUME OrchInv, EditInv, OneBranchPerEdit, [OrchNext]_orchVars, [Next]_vars,
         NoBirth \/ ModelBirth \/ CreateAlternative
  PROVE  IsFiniteSet(consumed') /\ consumed' \subseteq DOMAIN actions' /\ OneBranchPerEdit'
<1>0. ParentsKept /\ ActionsKept
  BY ParentsStep, ActionsKeptStep DEF OrchInv, RouteInv
<1>1. /\ consumed \subseteq consumed' /\ IsFiniteSet(consumed') /\ consumed' \subseteq DOMAIN actions'
      /\ Edits' \cap consumed' = Edits \cap consumed
  <2>1. CASE consumed' = consumed
    BY <2>1, <1>0 DEF EditInv, Edits, ActionsKept
  <2>2. ASSUME NEW a, Consumes(a), actions[a].kind \notin EditKinds
        PROVE  /\ consumed \subseteq consumed' /\ IsFiniteSet(consumed') /\ consumed' \subseteq DOMAIN actions'
               /\ Edits' \cap consumed' = Edits \cap consumed
    <3>1. IsFiniteSet(consumed \cup {a})
      BY FS_AddElement DEF EditInv
    <3> QED
      BY <3>1, <2>2, <1>0 DEF Consumes, EditKinds, EditInv, Edits, ActionsKept
  <2>3. consumed' = consumed \/ \E a : Consumes(a) /\ actions[a].kind \notin EditKinds
    BY AlternativeBorn DEF NoBirth, ModelBirth, OrchInv
  <2> QED
    BY <2>1, <2>2, <2>3
<1>2. HumanBorn' = HumanBorn
  <2>1. CASE NoBirth
    BY <2>1, <1>0 DEF NoBirth, HumanBorn, ParentsKept
  <2>2. ASSUME NEW b, Birth(b), branches'[b].reason \in {"root", "model_revision", "model_alternative"}
        PROVE  HumanBorn' = HumanBorn
    BY <2>2, <1>0 DEF Birth, HumanBorn, ParentsKept
  <2> QED
    BY <2>1, <2>2, AlternativeBorn DEF ModelBirth, OrchInv
<1>3. OneBranchPerEdit'
  BY <1>1, <1>2 DEF OneBranchPerEdit, HumanBorn
<1> QED
  BY <1>1, <1>3

LEMMA EditBirthStep ==
  ASSUME OrchInv, EditInv, OneBranchPerEdit, [Next]_vars, ExpandBranch \/ ReplaceBranch
  PROVE  IsFiniteSet(consumed') /\ consumed' \subseteq DOMAIN actions' /\ OneBranchPerEdit'
<1>0. ParentsKept /\ ActionsKept
  BY ParentsStep, ActionsKeptStep DEF OrchInv, RouteInv
<1>1. PICK b, a : /\ Birth(b) /\ branches'[b].reason \in {"human_direction", "human_revision"}
                  /\ driver.at \in {"expanding", "replacing"} /\ a \in driver.todo
                  /\ a \in Edits /\ consumed' = consumed \cup {a} /\ actions' = actions
  BY EditBorn DEF OrchInv
<1>2. a \notin consumed
  BY <1>1 DEF EditInv
<1>3. HumanBorn' = HumanBorn \cup {b} /\ b \notin HumanBorn
  BY <1>1, <1>0 DEF Birth, HumanBorn, ParentsKept
<1>4. Edits' \cap consumed' = (Edits \cap consumed) \cup {a} /\ a \notin Edits \cap consumed
  BY <1>1, <1>2 DEF Edits
<1>5. IsFiniteSet(Edits \cap consumed) /\ IsFiniteSet(HumanBorn)
  <2>1. HumanBorn \subseteq Branch
    BY DEF HumanBorn, OrchInv, RouteInv, TypeOK, Table
  <2> QED
    BY <2>1, FS_Subset, FiniteAssumption DEF EditInv
<1>6. /\ Cardinality((Edits \cap consumed) \cup {a}) = Cardinality(Edits \cap consumed) + 1
      /\ Cardinality(HumanBorn \cup {b}) = Cardinality(HumanBorn) + 1
  BY <1>3, <1>4, <1>5, FS_AddElement
<1>7. OneBranchPerEdit'
  BY <1>3, <1>4, <1>6 DEF OneBranchPerEdit, HumanBorn
<1>8. IsFiniteSet(consumed') /\ consumed' \subseteq DOMAIN actions'
  BY <1>1, FS_AddElement DEF EditInv, Edits
<1> QED
  BY <1>7, <1>8

LEMMA AlternativesStep ==
  ASSUME OrchInv, AlternativeInv, OneAlternative, [OrchNext]_orchVars, [Next]_vars
  PROVE  OneAlternative'
<1>0. ParentsKept
  BY ParentsStep DEF OrchInv, RouteInv
<1>1. CASE DOMAIN branches' = DOMAIN branches
  BY <1>0, <1>1 DEF OneAlternative, ParentsKept
<1>2. ASSUME NEW b, Birth(b), branches'[b].reason # "model_alternative" PROVE OneAlternative'
  BY <1>0, <1>2 DEF OneAlternative, ParentsKept, Birth
<1>3. CASE CreateAlternative
  <2>1. PICK b : /\ Birth(b) /\ branches'[b].reason = "model_alternative"
                 /\ driver.at = "fork" /\ branches'[b].parent = driver.branch
                 /\ branches'[b].anchor = Tip(driver.branch)
    BY <1>3, AlternativeBorn DEF OrchInv
  <2>2. \A x \in DOMAIN branches :
          ~(branches[x].parent = branches'[b].parent /\ branches[x].anchor = branches'[b].anchor
            /\ branches[x].reason = "model_alternative")
    BY <2>1 DEF AlternativeInv, AlternativeExists
  <2> QED
    BY <1>0, <2>1, <2>2 DEF OneAlternative, ParentsKept, Birth
<1> QED
  BY <1>1, <1>2, <1>3, Births, EditBorn DEF NoBirth, ModelBirth, OrchInv

LEMMA BornInvStep ==
  ASSUME OrchInv, BornInv, [OrchNext]_orchVars
  PROVE  BornInv'
<1>0. [Next]_vars
  BY StepLegal
<1>1. IsFiniteSet(consumed') /\ consumed' \subseteq DOMAIN actions' /\ OneBranchPerEdit'
  BY <1>0, Births, EditsStep, EditBirthStep DEF BornInv
<1>2. OneAlternative'
  BY <1>0, AlternativesStep DEF BornInv
<1>3. AlternativeInv'
  <2> SUFFICES ASSUME driver'.at = "fork" PROVE ~AlternativeExists(driver.branch)'
    BY DEF AlternativeInv
  <2>1. CASE Stays
    BY <2>1 DEF Stays, vars, BornInv, AlternativeInv, AlternativeExists, Tip
  <2>2. ASSUME NEW b, BeginFork(b) PROVE ~AlternativeExists(driver.branch)'
    <3>1. ~AlternativeExists(b) /\ driver'.branch = b /\ UNCHANGED branches
      BY <2>2 DEF BeginFork, MayFork, vars, OrchInv, DriverInv, Fields
    <3> QED
      BY <3>1 DEF AlternativeExists, Tip
  <2>3. ~(CreateAlternative \/ SuppressFork \/ ExpandAction \/ ReviseAction \/ \E b : RequestCheck(b))
    BY ArrivedAt DEF Spots
  <2> QED
    BY <2>1, <2>2, <2>3, Arrivals DEF Spots
<1>4. driver'.at \in {"expanding", "replacing"} => driver'.todo \cap consumed' = {}
  <2> SUFFICES ASSUME driver'.at \in {"expanding", "replacing"} PROVE driver'.todo \cap consumed' = {}
    OBVIOUS
  <2>1. CASE Stays
    BY <2>1 DEF Stays, facets, BornInv, EditInv
  <2>2. CASE ExpandAction \/ ReviseAction
    <3>1. PICK a : a \notin DOMAIN actions /\ driver'.todo = {a} /\ consumed' = consumed
      BY <2>2 DEF ExpandAction, ReviseAction, HumanAction, facets, OrchInv, DriverInv, Fields
    <3> QED
      BY <3>1 DEF BornInv, EditInv
  <2>3. ~(CreateAlternative \/ SuppressFork \/ \E b : RequestCheck(b) \/ BeginFork(b))
    BY ArrivedAt DEF Spots
  <2> QED
    BY <2>1, <2>2, <2>3, Arrivals DEF Spots
<1> QED
  BY <1>1, <1>2, <1>3, <1>4 DEF BornInv, EditInv

(***************************************************************************)
(* How calls are started.                                                  *)
(***************************************************************************)

(* A new call is for a check just requested, for one still open, for the   *)
(* next step of a branch, or for that of a parent after its fork.          *)
Starting(c, role, target, b) ==
  /\ c \in Call \ DOMAIN calls /\ DOMAIN calls' = DOMAIN calls \cup {c}
  /\ calls'[c].role = role /\ calls'[c].target = target /\ calls'[c].state = "started"
  /\ calls'[c].disposition = None
  /\ \A x \in DOMAIN calls : calls'[x] = calls[x]
  /\ TargetOk(role, target) /\ HasCapacity
  /\ UNCHANGED <<branches, checks, steps, actions, facets, pause>>
  /\ driver' = At("mark", c, b)

LEMMA StartIs ==
  ASSUME NEW role, NEW target, NEW b, StartCall(role, target, b)
  PROVE  \E c : Starting(c, role, target, b)
<1> DEFINE c == Fresh(Call, calls)
<1>1. c \in Call /\ c \notin DOMAIN calls
  BY FreshMember, IdsAreNat DEF StartCall
<1>2. /\ ModelCallStarted(c, role, target) /\ driver' = At("mark", c, b)
      /\ UNCHANGED <<facets, pause>> /\ HasCapacity
  BY DEF StartCall, store
<1> HIDE DEF c
<1> QED
  BY <1>1, <1>2 DEF ModelCallStarted, Put, Starting

LEMMA Starts ==
  ASSUME [OrchNext]_orchVars
  PROVE  \/ DOMAIN calls' = DOMAIN calls
         \/ CallNewCheck \/ WriteAfterFork
         \/ \E b \in ActiveBranches : CallOpenCheck(b) \/ CallWriter(b)
<1>1. CASE CreateRun \/ CreateRoot
  BY <1>1 DEF CreateRun, RunCreated, CreateRoot, RootBranchCreated
<1>2. ASSUME NEW c, NEW b, Consume(c, b) PROVE DOMAIN calls' = DOMAIN calls
  BY <1>2 DEF Consume, WriterRouteCompletion, ModelRevisionDeferred, ModelRevisionApplied, ModelStepSealed, Seal
<1>3. CASE CallStep
  <2>1. CASE FinishWriter
    BY <2>1, <1>2 DEF FinishWriter
  <2>2. CASE WriteChunk \/ FinishCall \/ FailCall
    BY <2>2 DEF WriteChunk, FinishCall, FailCall, ModelCallChunk, ModelCallFinished, ModelCallFailed, Terminate
  <2>3. CASE MarkCall \/ Attach \/ StartRefused \/ Collect \/ CloseMark \/ BookmarkStep \/ LeaveForRetry
    BY <2>3 DEF MarkCall, Attach, StartRefused, Collect, CloseMark, BookmarkStep, LeaveForRetry, vars
  <2>4. CASE FinishCheck \/ CloseFailedCheck \/ PauseFailedBranch
    BY <2>4 DEF FinishCheck, CloseFailedCheck, PauseFailedBranch, CheckCompleted, BranchStatusChanged
  <2> QED
    BY <1>3, <2>1, <2>2, <2>3, <2>4 DEF CallStep
<1>4. CASE RepairStep
  <2>1. CASE RepairFinishedWriter
    BY <2>1, <1>2 DEF RepairFinishedWriter
  <2>2. CASE RepairOrphan \/ RepairReplacement \/ RepairStranded \/ RepairCheck \/ RepairCandidate
    BY <2>2 DEF RepairOrphan, RepairReplacement, RepairStranded, RepairCheck, RepairCandidate,
       BranchStatusChanged, HumanStepSealed, Seal, CheckCompleted, CandidateDeclared
  <2> QED
    BY <1>4, <2>1, <2>2 DEF RepairStep
<1>5. ASSUME ScheduleStep
      PROVE  \/ DOMAIN calls' = DOMAIN calls
             \/ CallNewCheck \/ WriteAfterFork
             \/ \E b \in ActiveBranches : CallOpenCheck(b) \/ CallWriter(b)
  <2>1. ASSUME \/ Stop \/ BeginSweep \/ AgainAfterSweep \/ CreateAlternative \/ SuppressFork \/ DeclareCandidate
               \/ \E b : ParkBlocked(b) \/ RequestCheck(b) \/ BeginFork(b) \/ CompleteBranch(b) \/ PassOver(b)
        PROVE  DOMAIN calls' = DOMAIN calls
    BY <2>1 DEF Stop, BeginSweep, AgainAfterSweep, CreateAlternative, SuppressFork, DeclareCandidate,
       ParkBlocked, RequestCheck, BeginFork, CompleteBranch, PassOver, ChildBranchCreated, CandidateDeclared,
       BranchStatusChanged, CheckRequested, vars
  <2> QED
    BY <1>5, <2>1, Zenon DEF ScheduleStep
<1>6. CASE PauseStep \/ ResumeStep \/ EditStep
  BY <1>6 DEF PauseStep, ResumeStep, EditStep, BeginPause, PauseAction, PauseBranch, EndPause, ResumeAction,
     RecordAction, ResumeBranch, ReleaseCheck, NextResumed, EndResume, ExpandAction, ExpandBranch, ReviseAction,
     ReplaceBranch, SealReplacement, HumanAction, BranchStatusChanged, CheckRetryAuthorized, ChildBranchCreated,
     HumanStepSealed, Seal, vars
<1>7. CASE AbortStep \/ RecoverStep
  BY <1>7 DEF AbortStep, RecoverStep, InterruptAction, InterruptTurn, InterruptFails, AbortCall, ParkAborted,
     KeepAborted, EndAbort, RecoverAbort, RecoverCall, EndRecover, HumanAction, ModelCallAborted, Terminate,
     BranchStatusChanged, vars
<1>8. CASE \/ EndDriver \/ DriverFails \/ ProviderStep \/ PauseRun \/ ResumeRun \/ InterruptRun
           \/ (\E edit \in {"expand", "revise"} : EditRun(edit)) \/ Crash \/ Restart \/ UNCHANGED orchVars
  BY <1>8 DEF EndDriver, DriverFails, ProviderStep, TurnEnds, PauseRun, ResumeRun, InterruptRun, EditRun, Crash,
     Restart, orchVars, vars
<1> QED
  BY <1>1, <1>3, <1>4, <1>5, <1>6, <1>7, <1>8, Zenon DEF OrchNext, DriverStep

(* What an advance of branch b was decided on.                             *)
LEMMA AdvanceFrom ==
  ASSUME NEW b, Advancing(b)
  PROVE  \/ Repaired /\ ~pause /\ HasCapacity /\ driver.at = "loop"
         \/ driver.at \in {"sweep", "swept"}
BY DEF Advancing, Sweeping, Repaired, AllClosed, NoneStranded, AllSealed, AllReplaced, NoOrphans, Repairing,
       Aligned, Ready

LEMMA RepairedHas ==
  ASSUME Repaired
  PROVE  /\ Orphans = {} /\ HalfReplaced = {} /\ Unsealed = {} /\ Stranded = {} /\ Unclosed = {}
         /\ Misaligned = {} /\ FailedChecks = {} /\ driver.at = "loop"
BY DEF Repaired, AllClosed, NoneStranded, AllSealed, AllReplaced, NoOrphans, Repairing, Aligned, Ready

(***************************************************************************)
(* A sweep starts no call, and a human's step is never asked of the model. *)
(***************************************************************************)

LEMMA CapacityGone ==
  ASSUME TypeOK, TypeOK', [Next]_vars, ~HasCapacity
  PROVE  ~HasCapacity'
<1>1. DOMAIN calls \subseteq DOMAIN calls'
  BY CallsKeptStep DEF CallsKept
<1>2. IsFiniteSet(DOMAIN calls')
  BY FS_Subset, FiniteAssumption DEF TypeOK, Table
<1>3. /\ Cardinality(DOMAIN calls) \in Nat /\ Cardinality(DOMAIN calls') \in Nat
      /\ Cardinality(DOMAIN calls) <= Cardinality(DOMAIN calls')
  BY <1>1, <1>2, FS_Subset, FS_CardinalityType
<1> QED
  BY <1>3, LimitAssumption DEF HasCapacity

SweepSpots == {"sweep", "swept"}
SweepInv == driver.at \in SweepSpots \/ driver.back \in SweepSpots => ~HasCapacity

(* Only a driver that has no capacity begins to sweep.                     *)
LEMMA SweepArrivals ==
  ASSUME OrchInv, [OrchNext]_orchVars, driver'.at \in SweepSpots \/ driver'.back \in SweepSpots
  PROVE  driver.at \in SweepSpots \/ driver.back \in SweepSpots \/ BeginSweep \/ ~HasCapacity
<1>0. DOMAIN driver = Fields /\ driver.back \in Returns
  BY DEF OrchInv, DriverInv
<1> SUFFICES ASSUME driver.at \notin SweepSpots, driver.back \notin SweepSpots, ~BeginSweep, HasCapacity
             PROVE  FALSE
  OBVIOUS
<1>a. \A at, on, b : at \notin SweepSpots => At(at, on, b).at \notin SweepSpots /\ At(at, on, b).back \notin SweepSpots
  BY DEF At, SweepSpots
<1>b. \A x : Sweeping => FALSE
  BY DEF Sweeping, SweepSpots
<1>1. ~(CreateRun \/ CreateRoot)
  BY <1>a DEF CreateRun, CreateRoot, Loop, SweepSpots
<1>2. ~CallStep
  <2>1. ~(MarkCall \/ Attach \/ StartRefused \/ Collect)
    BY <1>0 DEF MarkCall, Attach, StartRefused, Collect, Fields, SweepSpots
  <2>2. ~(WriteChunk \/ FinishCall \/ FailCall \/ CloseFailedCheck \/ CloseMark)
    BY DEF WriteChunk, FinishCall, FailCall, CloseFailedCheck, CloseMark
  <2>3. ~(FinishWriter \/ BookmarkStep \/ FinishCheck \/ LeaveForRetry \/ PauseFailedBranch)
    BY <1>a DEF FinishWriter, BookmarkStep, FinishCheck, LeaveForRetry, PauseFailedBranch, Loop, SweepSpots
  <2> QED
    BY <2>1, <2>2, <2>3 DEF CallStep
<1>3. ~RepairStep
  BY DEF RepairStep, RepairOrphan, RepairReplacement, RepairFinishedWriter, RepairStranded, RepairCheck, RepairCandidate
<1>4. ~ScheduleStep
  <2>1. ~(Stop \/ AgainAfterSweep)
    BY <1>a DEF Stop, AgainAfterSweep, Settle, Loop, SweepSpots
  <2>2. ~(CallNewCheck \/ WriteAfterFork \/ \E b : CallOpenCheck(b) \/ CallWriter(b))
    <3>1. ASSUME NEW role, NEW target, NEW b, StartCall(role, target, b) PROVE FALSE
      BY <3>1, <1>a DEF StartCall, SweepSpots
    <3> QED
      BY <3>1, Zenon DEF CallNewCheck, WriteAfterFork, CallOpenCheck, CallWriter
  <2>3. ~(\E b : ParkBlocked(b) \/ CompleteBranch(b))
    BY <1>a, <1>b DEF ParkBlocked, CompleteBranch, Moved, Loop, At, SweepSpots
  <2>4. ~(\E b : RequestCheck(b) \/ PassOver(b))
    BY <1>a, <1>b DEF RequestCheck, PassOver, SweepSpots
  <2>5. ~(\E b : BeginFork(b))
    <3>1. ASSUME NEW b, BeginFork(b) PROVE FALSE
      <4>1. driver'.at = "fork" /\ driver'.back = driver.at /\ driver.at = "loop"
        BY <1>0, <3>1, AdvancingAt DEF BeginFork, Fields, SweepSpots
      <4> QED
        BY <4>1 DEF SweepSpots
    <3> QED
      BY <3>1
  <2>6. ~(CreateAlternative \/ SuppressFork)
    BY <1>a DEF CreateAlternative, SuppressFork, AfterFork, SweepSpots
  <2>7. ~DeclareCandidate
    BY <1>0 DEF DeclareCandidate, Fields, SweepSpots
  <2> QED
    BY <2>1, <2>2, <2>3, <2>4, <2>5, <2>6, <2>7 DEF ScheduleStep
<1>5. ~(PauseStep \/ ResumeStep)
  <2>1. ~(BeginPause \/ EndPause \/ EndResume \/ ReleaseCheck)
    BY DEF BeginPause, EndPause, EndResume, ReleaseCheck, Releasing, Settle, Loop, At, SweepSpots
  <2>2. ~(PauseAction \/ ResumeAction)
    BY <1>0 DEF PauseAction, ResumeAction, RecordAction, Fields, SweepSpots
  <2>3. ~(PauseBranch \/ ResumeBranch \/ NextResumed)
    BY <1>0 DEF PauseBranch, ResumeBranch, NextResumed, Releasing, Fields, SweepSpots
  <2> QED
    BY <2>1, <2>2, <2>3 DEF PauseStep, ResumeStep
<1>6. ~EditStep
  <2>1. ~(ExpandBranch \/ SealReplacement)
    BY <1>a DEF ExpandBranch, SealReplacement, Loop, SweepSpots
  <2>2. ASSUME ExpandAction \/ ReviseAction \/ ReplaceBranch PROVE FALSE
    <3>1. driver'.at \in {"expanding", "replacing", "replaced"} /\ driver'.back = driver.back
      BY <1>0, <2>2 DEF ExpandAction, ReviseAction, ReplaceBranch, Fields
    <3> QED
      BY <3>1 DEF SweepSpots
  <2> QED
    BY <2>1, <2>2 DEF EditStep
<1>7. ~(AbortStep \/ RecoverStep)
  <2>1. ~(InterruptAction \/ InterruptTurn \/ InterruptFails \/ AbortCall)
    BY <1>0 DEF InterruptAction, InterruptTurn, InterruptFails, AbortCall, Abort, Idle, At, Fields, SweepSpots
  <2>2. ~(ParkAborted \/ KeepAborted \/ EndAbort)
    BY <1>0 DEF ParkAborted, KeepAborted, EndAbort, At, Fields, SweepSpots
  <2>3. ~(RecoverAbort \/ (\E c \in InFlight : RecoverCall(c)) \/ EndRecover)
    BY DEF RecoverAbort, RecoverCall, EndRecover, Abort, Loop, At, SweepSpots
  <2> QED
    BY <2>1, <2>2, <2>3 DEF AbortStep, RecoverStep
<1>8. ~(EndDriver \/ DriverFails \/ ResumeRun \/ InterruptRun \/ Crash \/ Restart)
  BY DEF EndDriver, DriverFails, ResumeRun, InterruptRun, Crash, Restart, Idle, Loop, Down, At, SweepSpots
<1>9. ~(\E edit \in {"expand", "revise"} : EditRun(edit))
  BY DEF EditRun, At, SweepSpots
<1>10. ~(ProviderStep \/ PauseRun \/ UNCHANGED orchVars)
  BY DEF ProviderStep, TurnEnds, PauseRun, orchVars
<1> QED
  BY <1>1, <1>2, <1>3, <1>4, <1>5, <1>6, <1>7, <1>8, <1>9, <1>10 DEF OrchNext, DriverStep

LEMMA SweepInvStep ==
  ASSUME OrchInv, SweepInv, [OrchNext]_orchVars
  PROVE  SweepInv'
<1>1. BeginSweep => ~HasCapacity
  BY DEF BeginSweep
<1>2. ASSUME driver'.at \in SweepSpots \/ driver'.back \in SweepSpots PROVE ~HasCapacity'
  <2>1. ~HasCapacity
    BY <1>1, <1>2, SweepArrivals DEF SweepInv
  <2>2. TypeOK /\ TypeOK' /\ [Next]_vars
    BY OrchInvStep, StepLegal DEF OrchInv, RouteInv
  <2> QED
    BY <2>1, <2>2, CapacityGone
<1> QED
  BY <1>2 DEF SweepInv

(* What a branch inherited is a prefix of its route.                       *)
InheritInv == \A b \in DOMAIN branches : branches[b].inherited <= Len(branches[b].route)

(* After the repair of half done revisions none is left to be found by the *)
(* parent of a fork, which goes on without looking again.                  *)
ReplacedInv == driver.at \in {"fork", "forked"} /\ HasCapacity => HalfReplaced = {}

BranchInv == BornInv /\ SweepInv /\ InheritInv /\ ReplacedInv /\ HumanStepFirst

LEMMA LengthsAreNat ==
  ASSUME TypeOK
  PROVE  \A b \in DOMAIN branches :
           Len(branches[b].route) \in Nat /\ branches[b].inherited \in Nat /\ NextSlot(b) \in Nat
BY DEF TypeOK, Table, BranchRec, NextSlot

LEMMA InheritInvStep ==
  ASSUME OrchInv, OrchInv', InheritInv, [OrchNext]_orchVars
  PROVE  InheritInv'
<1>1. ParentsKept /\ RoutesKept
  BY StepLegal, ParentsStep, RoutesKeptStep DEF OrchInv, RouteInv
<1>2. \A b \in DOMAIN branches : branches'[b].inherited <= Len(branches'[b].route)
  <2>1. ASSUME NEW b \in DOMAIN branches PROVE branches'[b].inherited <= Len(branches'[b].route)
    <3>1. /\ Len(branches[b].route) \in Nat /\ branches[b].inherited \in Nat
          /\ Len(branches'[b].route) \in Nat /\ branches'[b].inherited = branches[b].inherited
      BY <1>1, LengthsAreNat DEF ParentsKept, RoutesKept, OrchInv, RouteInv
    <3> QED
      BY <3>1, <1>1 DEF InheritInv, RoutesKept
  <2> QED
    BY <2>1
<1>3. \A b \in DOMAIN branches' \ DOMAIN branches : branches'[b].inherited <= Len(branches'[b].route)
  <2>1. CASE NoBirth
    BY <2>1 DEF NoBirth
  <2>2. ASSUME NEW x, Birth(x)
        PROVE \A b \in DOMAIN branches' \ DOMAIN branches : branches'[b].inherited <= Len(branches'[b].route)
    BY <2>2 DEF Birth
  <2> QED
    BY <2>1, <2>2, Births, AlternativeBorn, EditBorn DEF ModelBirth, OrchInv
<1> QED
  BY <1>2, <1>3 DEF InheritInv

(* A replacement that is sealed stays sealed.                              *)
LEMMA NoneHalfReplaced ==
  ASSUME OrchInv, InheritInv, [OrchNext]_orchVars, HalfReplaced = {},
         NoBirth \/ CreateAlternative
  PROVE  HalfReplaced' = {}
<1>1. ParentsKept /\ RoutesKept
  BY StepLegal, ParentsStep, RoutesKeptStep DEF OrchInv, RouteInv
<1>2. ASSUME NEW b \in DOMAIN branches, branches'[b].reason = "human_revision"
      PROVE  Len(branches'[b].route) # branches'[b].inherited
  <2>1. /\ Len(branches[b].route) \in Nat /\ branches[b].inherited \in Nat
        /\ Len(branches'[b].route) \in Nat /\ branches'[b].inherited = branches[b].inherited
        /\ branches[b].reason = "human_revision" /\ Len(branches[b].route) <= Len(branches'[b].route)
    BY <1>1, <1>2, LengthsAreNat DEF ParentsKept, RoutesKept, OrchInv, RouteInv
  <2>2. branches[b].inherited <= Len(branches[b].route) /\ Len(branches[b].route) # branches[b].inherited
    BY <2>1 DEF HalfReplaced, InheritInv
  <2> QED
    BY <2>1, <2>2
<1>3. \A b \in DOMAIN branches' \ DOMAIN branches : branches'[b].reason # "human_revision"
  BY AlternativeBorn DEF NoBirth, Birth, OrchInv
<1> QED
  BY <1>2, <1>3 DEF HalfReplaced

LEMMA ReplacedInvStep ==
  ASSUME OrchInv, OrchInv', SweepInv, InheritInv, ReplacedInv, [OrchNext]_orchVars
  PROVE  ReplacedInv'
<1> SUFFICES ASSUME driver'.at \in {"fork", "forked"}, HasCapacity' PROVE HalfReplaced' = {}
  BY DEF ReplacedInv
<1>0. HasCapacity
  BY StepLegal, CapacityGone DEF OrchInv, RouteInv
<1>1. CASE Stays
  BY <1>0, <1>1 DEF Stays, vars, ReplacedInv, HalfReplaced
<1>2. CASE CreateAlternative
  BY <1>0, <1>2, NoneHalfReplaced DEF CreateAlternative, ReplacedInv
<1>3. CASE SuppressFork
  BY <1>0, <1>3 DEF SuppressFork, ReplacedInv, HalfReplaced, vars
<1>4. ASSUME NEW b, BeginFork(b) PROVE HalfReplaced' = {}
  <2>1. Repaired
    BY <1>0, <1>4, AdvanceFrom DEF BeginFork, SweepInv, SweepSpots
  <2> QED
    BY <1>4, <2>1, RepairedHas DEF BeginFork, HalfReplaced, vars
<1>5. ~(ExpandAction \/ ReviseAction \/ \E b : RequestCheck(b))
  BY ArrivedAt
<1> QED
  BY <1>1, <1>2, <1>3, <1>4, <1>5, Arrivals DEF Spots

(* Where a writer call is started every revision has its replacement.      *)
LEMMA WriterStarts ==
  ASSUME OrchInv, SweepInv, ReplacedInv, [OrchNext]_orchVars
  PROVE  \/ DOMAIN calls' = DOMAIN calls
         \/ \E c, target, b : Starting(c, "checker", target, b)
         \/ /\ HalfReplaced = {} /\ (driver.at = "forked" \/ (Repaired /\ ~pause))
            /\ \E c : \E b \in ActiveBranches : Starting(c, "writer", <<b, NextSlot(b)>>, b)
<1>1. CASE CallNewCheck
  BY <1>1, StartIs DEF CallNewCheck
<1>2. ASSUME NEW b, CallOpenCheck(b) PROVE \E c, target : Starting(c, "checker", target, b)
  BY <1>2, StartIs DEF CallOpenCheck
<1>3. CASE WriteAfterFork
  <2> DEFINE b == driver.branch
  <2>1. PICK c : Starting(c, "writer", <<b, NextSlot(b)>>, b)
    BY <1>3, StartIs DEF WriteAfterFork
  <2>2. b \in ActiveBranches
    <3>1. TargetOk("writer", <<b, NextSlot(b)>>)
      BY <2>1 DEF Starting
    <3> QED
      BY <3>1 DEF TargetOk
  <2>3. HalfReplaced = {} /\ driver.at = "forked"
    BY <1>3, <2>1 DEF WriteAfterFork, Starting, ReplacedInv
  <2> QED
    BY <2>1, <2>2, <2>3
<1>4. ASSUME NEW b \in ActiveBranches, CallWriter(b)
      PROVE  /\ HalfReplaced = {} /\ Repaired /\ ~pause
             /\ \E c : Starting(c, "writer", <<b, NextSlot(b)>>, b)
  <2>1. PICK c : Starting(c, "writer", <<b, NextSlot(b)>>, b)
    BY <1>4, StartIs DEF CallWriter
  <2>2. HasCapacity
    BY <2>1 DEF Starting
  <2>3. Repaired /\ ~pause
    BY <1>4, <2>2, AdvanceFrom DEF CallWriter, SweepInv, SweepSpots
  <2> QED
    BY <2>1, <2>3, RepairedHas
<1> QED
  BY <1>1, <1>2, <1>3, <1>4, Starts

LEMMA HumanStepFirstStep ==
  ASSUME OrchInv, SweepInv, InheritInv, ReplacedInv, HumanStepFirst, [OrchNext]_orchVars
  PROVE  HumanStepFirst'
<1>0. ParentsKept /\ CallsKept
  BY StepLegal, ParentsStep, CallsKeptStep DEF OrchInv, RouteInv
<1>1. ASSUME NEW c \in DOMAIN calls, calls'[c].role = "writer",
             branches'[calls'[c].target[1]].reason = "human_revision"
      PROVE  calls'[c].target[2] > branches'[calls'[c].target[1]].inherited + 1
  <2>1. /\ calls'[c].target = calls[c].target /\ calls[c].role = "writer"
        /\ calls[c].target[1] \in DOMAIN branches
    BY <1>0, <1>1 DEF CallsKept, OrchInv, CallerInv
  <2>2. /\ branches'[calls[c].target[1]].reason = branches[calls[c].target[1]].reason
        /\ branches'[calls[c].target[1]].inherited = branches[calls[c].target[1]].inherited
    BY <2>1, <1>0 DEF ParentsKept
  <2> QED
    BY <1>1, <2>1, <2>2 DEF HumanStepFirst
<1>2. ASSUME NEW c, NEW target, NEW b, Starting(c, "checker", target, b) PROVE HumanStepFirst'
  BY <1>1, <1>2 DEF Starting, HumanStepFirst
<1>3. ASSUME NEW c, NEW b \in ActiveBranches, Starting(c, "writer", <<b, NextSlot(b)>>, b), HalfReplaced = {}
      PROVE  HumanStepFirst'
  <2>1. /\ calls'[c].target[1] = b /\ calls'[c].target[2] = NextSlot(b)
        /\ branches' = branches /\ b \in DOMAIN branches
    BY <1>3 DEF Starting, ActiveBranches
  <2>2. branches[b].reason = "human_revision" => NextSlot(b) > branches[b].inherited + 1
    <3>1. Len(branches[b].route) \in Nat /\ branches[b].inherited \in Nat
      BY <2>1, LengthsAreNat DEF OrchInv, RouteInv
    <3>2. branches[b].inherited <= Len(branches[b].route)
      BY <2>1 DEF InheritInv
    <3>3. branches[b].reason = "human_revision" => Len(branches[b].route) # branches[b].inherited
      BY <1>3, <2>1 DEF HalfReplaced
    <3> QED
      BY <3>1, <3>2, <3>3 DEF NextSlot
  <2> QED
    BY <1>1, <1>3, <2>1, <2>2 DEF Starting, HumanStepFirst
<1>4. CASE DOMAIN calls' = DOMAIN calls
  BY <1>1, <1>4 DEF HumanStepFirst
<1> QED
  BY <1>2, <1>3, <1>4, WriterStarts

LEMMA BranchInvStep == ASSUME OrchInv, BranchInv, [OrchNext]_orchVars PROVE BranchInv'
<1>1. OrchInv'
  BY OrchInvStep
<1> QED
  BY <1>1, BornInvStep, SweepInvStep, InheritInvStep, ReplacedInvStep, HumanStepFirstStep DEF BranchInv

LEMMA BranchInvInit == OrchInit => BranchInv
<1> SUFFICES ASSUME OrchInit PROVE BranchInv
  OBVIOUS
<1>1. /\ DOMAIN branches = {} /\ DOMAIN calls = {} /\ DOMAIN actions = {} /\ consumed = {}
      /\ driver.at = "new" /\ driver.back = "loop"
  BY DEF OrchInit, Init, At
<1>2. IsFiniteSet(consumed)
  BY <1>1, FS_EmptySet
<1>3. OneBranchPerEdit
  <2>1. HumanBorn = {} /\ Edits \cap consumed = {}
    BY <1>1 DEF HumanBorn, Edits
  <2> QED
    BY <2>1 DEF OneBranchPerEdit, HumanBorn
<1> QED
  BY <1>1, <1>2, <1>3 DEF BranchInv, BornInv, EditInv, AlternativeInv, OneAlternative, SweepInv, SweepSpots,
     InheritInv, ReplacedInv, HumanStepFirst

LEMMA BranchInvariant == OrchSpec => [](OrchInv /\ BranchInv)
<1>1. OrchInit => OrchInv /\ BranchInv
  BY OrchInvInit, BranchInvInit
<1>2. OrchInv /\ BranchInv /\ [OrchNext]_orchVars => OrchInv' /\ BranchInv'
  BY OrchInvStep, BranchInvStep
<1> QED
  BY <1>1, <1>2, PTL DEF OrchSpec

(***************************************************************************)
(* At most one call is in flight, and the driver is on it.                 *)
(***************************************************************************)

Phases == {"none", "autonomous_exploration", "recovering"}
CallSpots == {"mark", "starting", "running", "write", "fail"}
AbortSpots == {"interrupt", "abort", "aborting"}

(* A call in flight is the one the driver stands on, for an active branch, *)
(* or one that a crash, an interrupt or an error left behind.              *)
OneInFlight == \A c1, c2 \in InFlight : c1 = c2
HeldActive == \A c \in InFlight : HasHandle(c) => marks[c].branch \in ActiveBranches
OnFlight ==
  /\ driver.at \in CallSpots \cup {"check"} => driver.branch \in ActiveBranches
  /\ driver.at \in CallSpots \cup AbortSpots => InFlight \subseteq {driver.on}
  /\ driver.at = "starting" => marks[driver.on].branch = driver.branch
  /\ driver.at \in {"interrupt", "abort"} => HasHandle(driver.on)
LeftInFlight ==
  /\ \/ InFlight = {}
     \/ driver.at \in CallSpots \cup AbortSpots \cup {"recover", "idle", "down"}
     \/ driver.at \in {"expand", "revise"} /\ ~HasCapacity
  /\ driver.at = "idle" /\ manifest = "ok" => \A c \in InFlight : HasHandle(c)
PhaseOk == phase \in Phases /\ manifest \in {"ok", "interrupted", "error"}
FlightInv == OneInFlight /\ HeldActive /\ OnFlight /\ LeftInFlight /\ PhaseOk

HandlesSame ==
  \A c : /\ HasHandle(c)' <=> HasHandle(c)
         /\ HasHandle(c) => marks'[c].branch = marks[c].branch

LEMMA NoneStarted ==
  ASSUME InFlight = {}, CallsKept, DOMAIN calls' = DOMAIN calls
  PROVE  InFlight' = {}
BY DEF InFlight, CallsKept

LEMMA FlightAtRest ==
  ASSUME InFlight' = {}, driver'.at \notin CallSpots \cup {"check", "interrupt", "abort"}, PhaseOk'
  PROVE  FlightInv'
BY DEF FlightInv, OneInFlight, HeldActive, OnFlight, LeftInFlight, CallSpots

LEMMA FlightGrounded ==
  ASSUME FlightInv, CallsKept, InFlight = {}, DOMAIN calls' = DOMAIN calls,
         driver'.at \notin CallSpots \cup {"check", "interrupt", "abort"}, PhaseOk'
  PROVE  FlightInv'
BY NoneStarted, FlightAtRest

LEMMA FlightStays ==
  ASSUME FlightInv, InFlight' \subseteq InFlight, DOMAIN calls' = DOMAIN calls,
         HandlesSame, driver.at = "starting" => marks' = marks,
         UNCHANGED <<branches, driver, manifest, phase>>
  PROVE  FlightInv'
<1>1. OneInFlight' /\ HeldActive'
  BY DEF FlightInv, OneInFlight, HeldActive, HandlesSame, ActiveBranches
<1>2. OnFlight'
  <2>1. driver.at \in {"interrupt", "abort"} => HasHandle(driver.on)'
    BY DEF FlightInv, OnFlight, HandlesSame
  <2> QED
    BY <2>1 DEF FlightInv, OnFlight, ActiveBranches
<1>3. LeftInFlight'
  BY DEF FlightInv, LeftInFlight, HandlesSame, HasCapacity
<1> QED
  BY <1>1, <1>2, <1>3 DEF FlightInv, PhaseOk

(* The driver goes and leaves what is in flight.                           *)
LEMMA FlightLeft ==
  ASSUME FlightInv, InFlight' = InFlight, HandlesSame, branches' = branches,
         driver'.at \in {"recover", "idle", "down"}, PhaseOk',
         driver'.at = "idle" /\ manifest' = "ok" => \A c \in InFlight : HasHandle(c)
  PROVE  FlightInv'
<1>1. OneInFlight' /\ HeldActive'
  BY DEF FlightInv, OneInFlight, HeldActive, HandlesSame, ActiveBranches
<1>2. OnFlight'
  BY DEF OnFlight, CallSpots, AbortSpots
<1>3. LeftInFlight'
  BY DEF LeftInFlight, HandlesSame
<1> QED
  BY <1>1, <1>2, <1>3 DEF FlightInv

LEMMA MergedHandles ==
  ASSUME OrchInv, marks' = Merged, calls' = calls
  PROVE  HandlesSame
<1>1. \A c \in DOMAIN marks : c \in DOMAIN calls /\ DOMAIN marks[c] = {"state", "handle", "branch", "attempt"}
  BY DEF OrchInv, MarkInv
<1>2. DOMAIN marks' = DOMAIN calls
  BY DEF Merged
<1>3. ASSUME NEW c \in DOMAIN marks
      PROVE  c \in DOMAIN marks' /\ marks'[c].handle = marks[c].handle /\ marks'[c].branch = marks[c].branch
  <2>1. marks'[c] = [marks[c] EXCEPT !.state = IF Terminal(c) THEN calls[c].state ELSE @]
    BY <1>1, <1>3 DEF Merged
  <2> QED
    BY <1>1, <1>2, <1>3, <2>1
<1>4. ASSUME NEW c \in DOMAIN calls, c \notin DOMAIN marks PROVE marks'[c].handle = FALSE
  BY <1>4 DEF Merged
<1> QED
  BY <1>1, <1>2, <1>3, <1>4 DEF HandlesSame, HasHandle

LEMMA CloseHandles ==
  ASSUME OrchInv, CloseMark
  PROVE  HandlesSame /\ DOMAIN marks' = DOMAIN marks
<1>1. PICK c : InMarks(c) /\ marks' = [marks EXCEPT ![c].state = calls[c].state]
  BY DEF CloseMark
<1>2. \A x \in DOMAIN marks : DOMAIN marks[x] = {"state", "handle", "branch", "attempt"}
  BY DEF OrchInv, MarkInv
<1> QED
  BY <1>1, <1>2 DEF HandlesSame, HasHandle

LEMMA PhaseKept == ASSUME FlightInv, [OrchNext]_orchVars PROVE PhaseOk'
<1>1. PhaseOk
  BY DEF FlightInv
<1>2. CASE CallStep \/ RepairStep
  BY <1>1, <1>2 DEF CallStep, RepairStep, MarkCall, Attach, StartRefused, Collect, WriteChunk, FinishCall, FailCall,
     CloseMark, FinishWriter, BookmarkStep, FinishCheck, LeaveForRetry, CloseFailedCheck, PauseFailedBranch,
     RepairOrphan, RepairReplacement, RepairFinishedWriter, RepairStranded, RepairCheck, RepairCandidate, process, store, PhaseOk
<1>3. CASE ScheduleStep
  <2>1. ASSUME NEW role, NEW target, NEW b, StartCall(role, target, b) PROVE UNCHANGED <<phase, manifest>>
    BY <2>1 DEF StartCall, process, store
  <2>2. UNCHANGED <<phase, manifest>>
    BY <1>3, <2>1 DEF ScheduleStep, Stop, BeginSweep, AgainAfterSweep, ParkBlocked, RequestCheck, CallOpenCheck,
       CallWriter, BeginFork, CompleteBranch, PassOver, CallNewCheck, CreateAlternative, SuppressFork,
       WriteAfterFork, DeclareCandidate, process, store, PhaseOk
  <2> QED
    BY <1>1, <2>2 DEF PhaseOk
<1>4. CASE PauseStep \/ ResumeStep \/ EditStep \/ AbortStep \/ RecoverStep
  BY <1>1, <1>4 DEF PauseStep, ResumeStep, EditStep, AbortStep, RecoverStep, BeginPause, PauseAction, PauseBranch,
     EndPause, ResumeAction, RecordAction, ResumeBranch, ReleaseCheck, NextResumed, EndResume, ExpandAction,
     ExpandBranch, ReviseAction, ReplaceBranch, SealReplacement, InterruptAction, InterruptTurn, InterruptFails,
     AbortCall, ParkAborted, KeepAborted, EndAbort, RecoverAbort, RecoverCall, EndRecover, process, store, PhaseOk, Phases
<1>5. CASE \/ CreateRun \/ CreateRoot \/ EndDriver \/ DriverFails \/ ProviderStep \/ PauseRun \/ ResumeRun
           \/ InterruptRun \/ (\E edit \in {"expand", "revise"} : EditRun(edit)) \/ Crash \/ Restart
           \/ UNCHANGED orchVars
  BY <1>1, <1>5 DEF CreateRun, CreateRoot, EndDriver, DriverFails, ProviderStep, TurnEnds, PauseRun, ResumeRun,
     InterruptRun, EditRun, Crash, Restart, orchVars, process, store, PhaseOk, Phases
<1> QED
  BY <1>2, <1>3, <1>4, <1>5 DEF OrchNext, DriverStep

LEMMA FlightCallStep ==
  ASSUME OrchInv, FlightInv, [OrchNext]_orchVars, CallStep
  PROVE  FlightInv'
<1>0. CallsKept /\ PhaseOk'
  BY StepLegal, CallsKeptStep, PhaseKept DEF OrchInv, RouteInv
<1>a. DOMAIN driver = Fields /\ TypeOK
  BY DEF OrchInv, DriverInv, RouteInv
<1>b. \A c \in DOMAIN marks : c \in DOMAIN calls /\ DOMAIN marks[c] = {"state", "handle", "branch", "attempt"}
  BY DEF OrchInv, MarkInv
<1>1. CASE MarkCall
  <2>1. /\ driver.at = "mark" /\ driver' = [driver EXCEPT !.at = "starting"]
        /\ UNCHANGED <<calls, branches, manifest, phase>>
    BY <1>1 DEF MarkCall, vars, process
  <2>2. /\ driver'.at = "starting" /\ driver'.on = driver.on /\ driver'.branch = driver.branch
    BY <1>a, <2>1 DEF Fields
  <2>3. driver.on \in DOMAIN marks' /\ marks'[driver.on].branch = driver.branch /\ ~marks'[driver.on].handle
    BY <1>1 DEF MarkCall, Put
  <2>4. InFlight' = InFlight /\ InFlight \subseteq {driver.on} /\ driver.branch \in ActiveBranches
    BY <2>1 DEF InFlight, FlightInv, OnFlight, CallSpots
  <2>5. HeldActive'
    BY <2>3, <2>4 DEF HeldActive, HasHandle
  <2>6. OnFlight'
    BY <2>1, <2>2, <2>3, <2>4 DEF OnFlight, CallSpots, AbortSpots, ActiveBranches
  <2>7. LeftInFlight' /\ OneInFlight'
    BY <2>2, <2>4 DEF LeftInFlight, OneInFlight, FlightInv, CallSpots
  <2> QED
    BY <1>0, <2>5, <2>6, <2>7 DEF FlightInv
<1>2. CASE Attach
  <2>1. /\ driver.at = "starting" /\ driver' = [driver EXCEPT !.at = "running"]
        /\ marks' = [marks EXCEPT ![driver.on].state = "running", ![driver.on].handle = TRUE]
        /\ UNCHANGED <<calls, branches, manifest, phase>>
    BY <1>2 DEF Attach, vars, process
  <2>2. /\ driver'.at = "running" /\ driver'.on = driver.on /\ driver'.branch = driver.branch
    BY <1>a, <2>1 DEF Fields
  <2>3. driver.on \in DOMAIN marks
    BY <2>1 DEF OrchInv, DriverInv, OnInv, MarkInv
  <2>4. \A c \in DOMAIN marks : c \in DOMAIN marks' /\ marks'[c].branch = marks[c].branch
    BY <1>b, <2>1, <2>3
  <2>5. InFlight' = InFlight /\ InFlight \subseteq {driver.on} /\ driver.branch \in ActiveBranches
        /\ marks[driver.on].branch = driver.branch
    BY <2>1 DEF InFlight, FlightInv, OnFlight, CallSpots
  <2>6. HeldActive'
    BY <2>1, <2>3, <2>4, <2>5 DEF HeldActive, ActiveBranches
  <2>7. OnFlight'
    BY <2>1, <2>2, <2>5 DEF OnFlight, CallSpots, AbortSpots, ActiveBranches
  <2>8. LeftInFlight' /\ OneInFlight'
    BY <2>2, <2>5 DEF LeftInFlight, OneInFlight, FlightInv, CallSpots
  <2> QED
    BY <1>0, <2>6, <2>7, <2>8 DEF FlightInv
<1>3. CASE StartRefused \/ Collect
  <2>1. /\ driver.at \in CallSpots /\ driver'.at \in {"fail", "write"}
        /\ driver'.on = driver.on /\ driver'.branch = driver.branch
        /\ UNCHANGED <<calls, branches, marks, manifest, phase>>
    BY <1>3, <1>a DEF StartRefused, Collect, vars, store, process, Fields, CallSpots
  <2>2. InFlight' = InFlight /\ InFlight \subseteq {driver.on} /\ driver.branch \in ActiveBranches
    BY <2>1 DEF InFlight, FlightInv, OnFlight
  <2>3. HeldActive'
    BY <2>1, <2>2 DEF HeldActive, ActiveBranches, FlightInv, HasHandle
  <2>4. OnFlight'
    BY <2>1, <2>2 DEF OnFlight, CallSpots, AbortSpots, ActiveBranches
  <2>5. LeftInFlight' /\ OneInFlight'
    BY <2>1, <2>2 DEF LeftInFlight, OneInFlight, FlightInv, CallSpots
  <2> QED
    BY <1>0, <2>3, <2>4, <2>5 DEF FlightInv
<1>4. CASE WriteChunk
  <2>1. InFlight' = InFlight /\ DOMAIN calls' = DOMAIN calls
    BY <1>4, <1>a DEF WriteChunk, ModelCallChunk, InFlight, TypeOK, Table, CallRec
  <2>2. HandlesSame /\ UNCHANGED <<branches, driver, marks, manifest, phase>>
    BY <1>4 DEF WriteChunk, ModelCallChunk, HandlesSame, HasHandle, store, process
  <2> QED
    BY <2>1, <2>2, FlightStays
<1>5. CASE FinishCall \/ FailCall
  <2>1. InFlight' \subseteq InFlight /\ DOMAIN calls' = DOMAIN calls
    BY <1>5, <1>a DEF FinishCall, FailCall, ModelCallFinished, ModelCallFailed, Terminate, InFlight, TypeOK, Table, CallRec
  <2>2. HandlesSame /\ UNCHANGED <<branches, driver, marks, manifest, phase>>
    BY <1>5 DEF FinishCall, FailCall, ModelCallFinished, ModelCallFailed, Terminate, HandlesSame, HasHandle,
       store, process
  <2> QED
    BY <2>1, <2>2, FlightStays
<1>6. CASE CloseFailedCheck
  <2>1. UNCHANGED <<calls, branches, driver, marks, manifest, phase>>
    BY <1>6 DEF CloseFailedCheck, CheckCompleted, store, process
  <2>2. HandlesSame /\ InFlight' \subseteq InFlight
    BY <2>1 DEF HandlesSame, HasHandle, InFlight
  <2> QED
    BY <2>1, <2>2, FlightStays
<1>7. CASE CloseMark
  <2>1. UNCHANGED <<calls, branches, driver, manifest, phase>> /\ driver.at # "starting"
    BY <1>7 DEF CloseMark, ToAlign, vars, process
  <2>2. HandlesSame /\ InFlight' \subseteq InFlight
    BY <1>7, <2>1, CloseHandles DEF InFlight
  <2> QED
    BY <2>1, <2>2, FlightStays
<1>8. CASE FinishWriter \/ FinishCheck \/ LeaveForRetry \/ PauseFailedBranch
  <2>1. driver.at \in CallSpots /\ Terminal(driver.on)
    BY <1>8 DEF FinishWriter, FinishCheck, LeaveForRetry, PauseFailedBranch, Recorded, CallSpots
  <2>2. InFlight = {}
    BY <2>1 DEF FlightInv, OnFlight, InFlight, Terminal
  <2>3. driver'.at \in {"loop", "bookmark"}
    BY <1>8 DEF FinishWriter, FinishCheck, LeaveForRetry, PauseFailedBranch, Loop, At
  <2>4. DOMAIN calls' = DOMAIN calls
    <3>1. ASSUME NEW c, NEW b, Consume(c, b) PROVE DOMAIN calls' = DOMAIN calls
      BY <3>1 DEF Consume, WriterRouteCompletion, ModelRevisionDeferred, ModelRevisionApplied, ModelStepSealed, Seal
    <3> QED
      BY <1>8, <3>1 DEF FinishWriter, FinishCheck, LeaveForRetry, PauseFailedBranch, CheckCompleted,
         BranchStatusChanged, vars
  <2> QED
    BY <1>0, <2>2, <2>3, <2>4, FlightGrounded DEF CallSpots
<1>9. CASE BookmarkStep
  <2>1. InFlight = {} /\ driver'.at = "loop" /\ calls' = calls
    BY <1>9 DEF BookmarkStep, FlightInv, LeftInFlight, CallSpots, AbortSpots, Loop, At, vars
  <2> QED
    BY <1>0, <2>1, FlightGrounded DEF CallSpots
<1> QED
  BY <1>1, <1>2, <1>3, <1>4, <1>5, <1>6, <1>7, <1>8, <1>9 DEF CallStep

(* A driver that repairs, schedules, pauses, resumes or edits has nothing  *)
(* in flight, and what it starts is then alone.                            *)
Resting == driver.at \notin CallSpots \cup AbortSpots \cup {"recover", "idle", "down"}

LEMMA NothingInFlight ==
  ASSUME FlightInv, Resting, driver.at \in {"expand", "revise"} => HasCapacity
  PROVE  InFlight = {}
BY DEF FlightInv, LeftInFlight, Resting

LEMMA FlightStart ==
  ASSUME FlightInv, InFlight = {}, PhaseOk', marks' = marks,
         NEW c, NEW role, NEW target, NEW b \in ActiveBranches, Starting(c, role, target, b),
         DOMAIN marks \subseteq DOMAIN calls
  PROVE  FlightInv'
<1>1. InFlight' = {c}
  BY DEF Starting, InFlight
<1>2. driver'.at = "mark" /\ driver'.on = c /\ driver'.branch = b /\ branches' = branches
  BY DEF Starting, At
<1>3. c \notin DOMAIN marks'
  BY DEF Starting
<1>4. HeldActive'
  BY <1>1, <1>3 DEF HeldActive, HasHandle
<1>5. OnFlight'
  BY <1>1, <1>2 DEF OnFlight, ActiveBranches, CallSpots, AbortSpots
<1>6. LeftInFlight' /\ OneInFlight'
  BY <1>1, <1>2 DEF LeftInFlight, OneInFlight, CallSpots
<1> QED
  BY <1>4, <1>5, <1>6 DEF FlightInv

LEMMA FlightRepairStep ==
  ASSUME OrchInv, FlightInv, [OrchNext]_orchVars, RepairStep
  PROVE  FlightInv'
<1>0. CallsKept /\ PhaseOk'
  BY StepLegal, CallsKeptStep, PhaseKept DEF OrchInv, RouteInv
<1>1. driver.at = "loop" /\ driver' = driver
  BY DEF RepairStep, RepairOrphan, RepairReplacement, RepairFinishedWriter, RepairStranded, RepairCheck,
         RepairCandidate, AllClosed, NoneStranded, AllSealed, AllReplaced, NoOrphans, Repairing, Aligned, Ready
<1>2. InFlight = {}
  BY <1>1, NothingInFlight DEF Resting, CallSpots, AbortSpots
<1>3. DOMAIN calls' = DOMAIN calls
  <2>1. ASSUME NEW c, NEW b, Consume(c, b) PROVE DOMAIN calls' = DOMAIN calls
    BY <2>1 DEF Consume, WriterRouteCompletion, ModelRevisionDeferred, ModelRevisionApplied, ModelStepSealed, Seal
  <2> QED
    BY <2>1 DEF RepairStep, RepairOrphan, RepairReplacement, RepairFinishedWriter, RepairStranded, RepairCheck,
       RepairCandidate, BranchStatusChanged, HumanStepSealed, Seal, CheckCompleted, CandidateDeclared
<1> QED
  BY <1>0, <1>1, <1>2, <1>3, FlightGrounded DEF CallSpots

LEMMA FlightScheduleStep ==
  ASSUME OrchInv, FlightInv, [OrchNext]_orchVars, ScheduleStep
  PROVE  FlightInv'
<1>0. CallsKept /\ PhaseOk'
  BY StepLegal, CallsKeptStep, PhaseKept DEF OrchInv, RouteInv
<1>a. DOMAIN driver = Fields /\ driver.back \in Returns
  BY DEF OrchInv, DriverInv
<1>b. driver.at \in {"loop", "sweep", "swept", "check", "fork", "forked", "declare"}
  <2>1. ASSUME NEW b, \/ ParkBlocked(b) \/ RequestCheck(b) \/ CallOpenCheck(b) \/ CallWriter(b)
                      \/ BeginFork(b) \/ CompleteBranch(b) \/ PassOver(b)
        PROVE  driver.at \in {"loop", "sweep", "swept"}
    BY <2>1, AdvancingAt DEF ParkBlocked, RequestCheck, CallOpenCheck, CallWriter,
       BeginFork, CompleteBranch, PassOver
  <2>2. Repaired => driver.at = "loop"
    BY RepairedHas
  <2> QED
    BY <2>1, <2>2 DEF ScheduleStep, Stop, BeginSweep, AgainAfterSweep, CallNewCheck, CreateAlternative, SuppressFork,
       WriteAfterFork, DeclareCandidate, Aligned, Ready
<1>1. InFlight = {} /\ DOMAIN marks = DOMAIN calls
  BY <1>b, NothingInFlight DEF Resting, CallSpots, AbortSpots, OrchInv, MarkInv
<1>2. ASSUME NEW role, NEW target, NEW b \in ActiveBranches, StartCall(role, target, b) PROVE FlightInv'
  <2>1. PICK c : Starting(c, role, target, b)
    BY <1>2, StartIs
  <2>2. marks' = marks
    BY <1>2 DEF StartCall, store
  <2> QED
    BY <1>0, <1>1, <2>1, <2>2, FlightStart
<1>3. CASE CallNewCheck
  <2>1. driver.branch \in ActiveBranches
    BY <1>3 DEF CallNewCheck, FlightInv, OnFlight
  <2> QED
    BY <1>2, <1>3, <2>1 DEF CallNewCheck
<1>4. CASE WriteAfterFork
  <2> DEFINE b == driver.branch
  <2>1. StartCall("writer", <<b, NextSlot(b)>>, b)
    BY <1>4 DEF WriteAfterFork
  <2>2. TargetOk("writer", <<b, NextSlot(b)>>)
    BY <2>1 DEF StartCall, ModelCallStarted
  <2>3. b \in ActiveBranches
    BY <2>2 DEF TargetOk
  <2> QED
    BY <1>2, <2>1, <2>3
<1>5. ASSUME NEW b \in ActiveBranches, CallOpenCheck(b) \/ CallWriter(b) PROVE FlightInv'
  BY <1>2, <1>5 DEF CallOpenCheck, CallWriter
<1>6. ASSUME NEW b \in ActiveBranches, RequestCheck(b) PROVE FlightInv'
  <2>1. driver'.at = "check" /\ driver'.branch = b /\ calls' = calls /\ branches' = branches
    BY <1>6 DEF RequestCheck, CheckRequested, At
  <2>2. InFlight' = {}
    BY <1>1, <2>1 DEF InFlight
  <2>3. OneInFlight' /\ HeldActive' /\ LeftInFlight'
    BY <2>2 DEF OneInFlight, HeldActive, LeftInFlight
  <2>4. OnFlight'
    BY <2>1, <2>2 DEF OnFlight, ActiveBranches, CallSpots, AbortSpots
  <2> QED
    BY <1>0, <2>3, <2>4 DEF FlightInv
<1>7. CASE \/ Stop \/ BeginSweep \/ AgainAfterSweep \/ CreateAlternative \/ SuppressFork \/ DeclareCandidate
           \/ \E b \in ActiveBranches : ParkBlocked(b) \/ BeginFork(b) \/ CompleteBranch(b) \/ PassOver(b)
  <2>1. DOMAIN calls' = DOMAIN calls
    BY <1>7 DEF Stop, BeginSweep, AgainAfterSweep, CreateAlternative, SuppressFork, DeclareCandidate,
       ParkBlocked, BeginFork, CompleteBranch, PassOver, ChildBranchCreated, CandidateDeclared,
       BranchStatusChanged, vars
  <2>2. CASE Stop \/ BeginSweep \/ AgainAfterSweep
    <3>1. driver'.at \in {"settle", "sweep", "loop"}
      BY <2>2 DEF Stop, BeginSweep, AgainAfterSweep, Settle, Loop, At
    <3> QED
      BY <1>0, <1>1, <2>1, <3>1, FlightGrounded DEF CallSpots
  <2>3. CASE CreateAlternative \/ SuppressFork
    <3>1. PICK back \in Returns : driver' = AfterFork(back)
      BY <1>a, <2>3 DEF CreateAlternative, SuppressFork, Returns
    <3>2. driver'.at \in Returns \cup {"forked"}
      BY <3>1 DEF AfterFork, At
    <3> QED
      BY <1>0, <1>1, <2>1, <3>2, FlightGrounded DEF CallSpots, Returns
  <2>4. CASE DeclareCandidate
    <3>1. driver'.at \in Returns
      BY <1>a, <2>4 DEF DeclareCandidate, Fields
    <3> QED
      BY <1>0, <1>1, <2>1, <3>1, FlightGrounded DEF CallSpots, Returns
  <2>5. ASSUME NEW b, ParkBlocked(b) \/ CompleteBranch(b) PROVE FlightInv'
    <3>1. driver'.at \in {"loop", "swept", "declare"}
      BY <2>5, MovedAt DEF ParkBlocked, CompleteBranch, Fields
    <3> QED
      BY <1>0, <1>1, <2>1, <3>1, FlightGrounded DEF CallSpots
  <2>6. ASSUME NEW b, BeginFork(b) \/ PassOver(b) PROVE FlightInv'
    <3>1. driver'.at \in {"fork", "sweep", "swept"}
      BY <1>a, <2>6 DEF BeginFork, PassOver, Sweeping, Swept, At, Fields
    <3> QED
      BY <1>0, <1>1, <2>1, <3>1, FlightGrounded DEF CallSpots
  <2> QED
    BY <1>7, <2>2, <2>3, <2>4, <2>5, <2>6
<1> QED
  BY <1>3, <1>4, <1>5, <1>6, <1>7, Zenon DEF ScheduleStep

LEMMA FlightCommandStep ==
  ASSUME OrchInv, FlightInv, [OrchNext]_orchVars, PauseStep \/ ResumeStep \/ EditStep
  PROVE  FlightInv'
<1>0. CallsKept /\ PhaseOk'
  BY StepLegal, CallsKeptStep, PhaseKept DEF OrchInv, RouteInv
<1>a. DOMAIN driver = Fields
  BY DEF OrchInv, DriverInv
<1>1. DOMAIN calls' = DOMAIN calls
  BY DEF PauseStep, ResumeStep, EditStep, BeginPause, PauseAction, PauseBranch, EndPause, ResumeAction,
     RecordAction, ResumeBranch, ReleaseCheck, NextResumed, EndResume, ExpandAction, ExpandBranch, ReviseAction,
     ReplaceBranch, SealReplacement, HumanAction, BranchStatusChanged, CheckRetryAuthorized, ChildBranchCreated,
     HumanStepSealed, Seal, vars
<1>2. CASE PauseStep \/ ResumeStep
  <2>1. driver.at \in {"loop", "pause", "resume"}
    BY <1>2, RepairedHas DEF PauseStep, ResumeStep, BeginPause, PauseAction, PauseBranch, EndPause, ResumeAction,
       RecordAction, ResumeBranch, ReleaseCheck, NextResumed, EndResume, Releasing
  <2>2. InFlight = {}
    BY <2>1, NothingInFlight DEF Resting, CallSpots, AbortSpots
  <2>3. CASE BeginPause \/ EndPause \/ EndResume
    <3>1. driver'.at \in {"pause", "settle", "loop"}
      BY <2>3 DEF BeginPause, EndPause, EndResume, Settle, Loop, At
    <3> QED
      BY <1>0, <1>1, <2>2, <3>1, FlightGrounded DEF CallSpots
  <2>4. CASE PauseAction \/ PauseBranch \/ ResumeAction \/ ResumeBranch \/ ReleaseCheck \/ NextResumed
    <3>1. driver'.at = driver.at
      BY <1>a, <2>4 DEF PauseAction, PauseBranch, ResumeAction, ResumeBranch, ReleaseCheck, NextResumed, RecordAction,
         Fields
    <3> QED
      BY <1>0, <1>1, <2>1, <2>2, <3>1, FlightGrounded DEF CallSpots
  <2> QED
    BY <1>2, <2>3, <2>4 DEF PauseStep, ResumeStep
<1>3. CASE EditStep
  <2>1. /\ driver.at \in {"expand", "expanding", "revise", "replacing", "replaced"}
        /\ driver.at \in {"expand", "revise"} => HasCapacity
    BY <1>3 DEF EditStep, ExpandAction, ExpandBranch, ReviseAction, ReplaceBranch, SealReplacement, Editing, EditAllowed
  <2>2. InFlight = {}
    BY <2>1, NothingInFlight DEF Resting, CallSpots, AbortSpots
  <2>3. driver'.at \in {"expanding", "replacing", "replaced", "loop"}
    <3>1. CASE ExpandBranch \/ SealReplacement
      BY <3>1 DEF ExpandBranch, SealReplacement, Loop, At
    <3>2. CASE ExpandAction \/ ReviseAction \/ ReplaceBranch
      BY <1>a, <3>2 DEF ExpandAction, ReviseAction, ReplaceBranch, Fields
    <3> QED
      BY <1>3, <3>1, <3>2 DEF EditStep
  <2> QED
    BY <1>0, <1>1, <2>2, <2>3, FlightGrounded DEF CallSpots
<1> QED
  BY <1>2, <1>3

LEMMA FlightAbortStep ==
  ASSUME OrchInv, FlightInv, [OrchNext]_orchVars, AbortStep
  PROVE  FlightInv'
<1>0. CallsKept /\ PhaseOk'
  BY StepLegal, CallsKeptStep, PhaseKept DEF OrchInv, RouteInv
<1>a. DOMAIN driver = Fields /\ driver.back \in Returns /\ TypeOK
  BY DEF OrchInv, DriverInv, RouteInv
<1>1. CASE InterruptAction \/ InterruptTurn
  <2>1. /\ driver.at \in {"interrupt", "abort"} /\ driver'.at \in {"abort", "aborting"} /\ driver'.on = driver.on
        /\ UNCHANGED <<calls, branches, marks>>
    BY <1>1, <1>a DEF InterruptAction, InterruptTurn, HumanAction, Abort, vars, store, Fields
  <2>2. InFlight' = InFlight /\ InFlight \subseteq {driver.on} /\ HasHandle(driver.on)
    BY <2>1 DEF InFlight, FlightInv, OnFlight, AbortSpots
  <2>3. OneInFlight' /\ HeldActive'
    BY <2>1, <2>2 DEF FlightInv, OneInFlight, HeldActive, HasHandle, ActiveBranches
  <2>4. OnFlight'
    BY <2>1, <2>2 DEF OnFlight, HasHandle, CallSpots, AbortSpots
  <2>5. LeftInFlight'
    BY <2>1 DEF LeftInFlight, AbortSpots
  <2> QED
    BY <1>0, <2>3, <2>4, <2>5 DEF FlightInv
<1>2. CASE InterruptFails
  <2>1. driver.at = "abort" /\ driver'.at = "idle" /\ UNCHANGED <<calls, branches, marks>>
    BY <1>2 DEF InterruptFails, Idle, At, vars, store
  <2>2. InFlight' = InFlight /\ \A c \in InFlight : HasHandle(c)
    BY <2>1 DEF InFlight, FlightInv, OnFlight, AbortSpots
  <2>3. HandlesSame
    BY <2>1 DEF HandlesSame, HasHandle
  <2> QED
    BY <1>0, <2>1, <2>2, <2>3, FlightLeft
<1>3. CASE AbortCall
  <2>1. InFlight' \subseteq InFlight /\ DOMAIN calls' = DOMAIN calls
    BY <1>3, <1>a DEF AbortCall, ModelCallAborted, Terminate, InFlight, TypeOK, Table, CallRec
  <2>2. HandlesSame /\ UNCHANGED <<branches, driver, marks, manifest, phase>>
    BY <1>3 DEF AbortCall, ModelCallAborted, Terminate, HandlesSame, HasHandle, store, process
  <2> QED
    BY <2>1, <2>2, FlightStays
<1>4. CASE ParkAborted \/ KeepAborted
  <2>1. driver.at = "aborting" /\ Terminal(driver.on)
    BY <1>4 DEF ParkAborted, KeepAborted, Recorded
  <2>2. InFlight = {}
    BY <2>1 DEF FlightInv, OnFlight, InFlight, Terminal, AbortSpots
  <2>3. driver'.at = "aborted" /\ calls' = calls
    BY <1>4, <1>a DEF ParkAborted, KeepAborted, BranchStatusChanged, vars, Fields
  <2> QED
    BY <1>0, <2>2, <2>3, FlightGrounded DEF CallSpots
<1>5. CASE EndAbort
  <2>1. driver.at = "aborted" /\ driver'.at \in Returns /\ calls' = calls
    BY <1>5, <1>a DEF EndAbort, At, vars
  <2>2. InFlight = {}
    BY <2>1, NothingInFlight DEF Resting, CallSpots, AbortSpots
  <2> QED
    BY <1>0, <2>1, <2>2, FlightGrounded DEF CallSpots, Returns
<1> QED
  BY <1>1, <1>2, <1>3, <1>4, <1>5 DEF AbortStep

LEMMA FlightRecoverStep ==
  ASSUME OrchInv, FlightInv, [OrchNext]_orchVars, RecoverStep
  PROVE  FlightInv'
<1>0. CallsKept /\ PhaseOk'
  BY StepLegal, CallsKeptStep, PhaseKept DEF OrchInv, RouteInv
<1>1. ASSUME NEW c \in InFlight, HasHandle(c), UNCHANGED <<calls, branches, marks>>,
             driver'.at \in {"abort", "write", "fail"}, driver'.on = c,
             driver'.at # "abort" => driver'.branch = marks[c].branch
      PROVE  FlightInv'
  <2>1. InFlight' = InFlight /\ InFlight = {c} /\ marks[c].branch \in ActiveBranches
    BY <1>1 DEF InFlight, FlightInv, OneInFlight, HeldActive
  <2>2. OneInFlight' /\ HeldActive'
    BY <1>1, <2>1 DEF FlightInv, OneInFlight, HeldActive, HasHandle, ActiveBranches
  <2>3. OnFlight'
    BY <1>1, <2>1 DEF OnFlight, HasHandle, ActiveBranches, CallSpots, AbortSpots
  <2>4. LeftInFlight'
    BY <1>1 DEF LeftInFlight, CallSpots, AbortSpots
  <2> QED
    BY <1>0, <2>2, <2>3, <2>4 DEF FlightInv
<1>2. CASE RecoverAbort
  <2> DEFINE c == actions[Least(OrphanAborts)].target
  <2>1. ~Terminal(c) /\ HasHandle(c) /\ UNCHANGED <<calls, branches, marks>>
        /\ driver' = Abort(c, Least(OrphanAborts), "recover")
    BY <1>2 DEF RecoverAbort, vars, store
  <2> HIDE DEF c
  <2>2. driver'.at = "abort" /\ driver'.on = c
    BY <2>1 DEF Abort
  <2>3. c \in InFlight
    BY <2>1 DEF HasHandle, Terminal, InFlight, OrchInv, MarkInv
  <2> QED
    BY <1>1, <2>1, <2>2, <2>3
<1>3. ASSUME NEW c \in InFlight, RecoverCall(c) PROVE FlightInv'
  <2>1. /\ HasHandle(c) /\ UNCHANGED <<calls, branches, marks>>
        /\ driver' = At(IF turn[c].status = "completed" THEN "write" ELSE "fail", c, marks[c].branch)
    BY <1>3 DEF RecoverCall, vars, store
  <2>2. driver'.at \in {"write", "fail"} /\ driver'.on = c /\ driver'.branch = marks[c].branch
    BY <2>1 DEF At
  <2> QED
    BY <1>1, <2>1, <2>2
<1>4. CASE EndRecover
  <2>1. InFlight = {} /\ driver'.at = "loop" /\ calls' = calls
    BY <1>4 DEF EndRecover, Loop, At, vars
  <2> QED
    BY <1>0, <2>1, FlightGrounded DEF CallSpots
<1> QED
  BY <1>2, <1>3, <1>4 DEF RecoverStep

(* A run that can be resumed or expanded has left nothing in flight that   *)
(* could still come back, or has no call left to make.                     *)
LEMMA ResumesAtRest ==
  ASSUME FlightInv, driver.at = "idle", ViewPhase \in {"paused", "review_ready", "review_ready_due_to_cap"}
  PROVE  InFlight = {} \/ (ViewPhase = "review_ready_due_to_cap" /\ ~HasCapacity)
<1>1. manifest = "ok" /\ ViewPhase = QueryPhase
  BY DEF ViewPhase, FlightInv, PhaseOk, Phases
<1>2. CASE ActiveBranches = {}
  BY <1>1, <1>2 DEF FlightInv, LeftInFlight, HeldActive
<1>3. CASE ActiveBranches # {}
  <2>1. "active" \in {branches[b].status : b \in DOMAIN branches}
    BY <1>3 DEF ActiveBranches
  <2> QED
    BY <1>1, <2>1 DEF QueryPhase
<1> QED
  BY <1>2, <1>3

LEMMA FlightOtherStep ==
  ASSUME OrchInv, FlightInv, [OrchNext]_orchVars,
         \/ CreateRun \/ CreateRoot \/ EndDriver \/ DriverFails \/ ProviderStep
         \/ PauseRun \/ ResumeRun \/ InterruptRun \/ (\E edit \in {"expand", "revise"} : EditRun(edit))
         \/ Crash \/ Restart \/ UNCHANGED orchVars
  PROVE  FlightInv'
<1>0. CallsKept /\ PhaseOk'
  BY StepLegal, CallsKeptStep, PhaseKept DEF OrchInv, RouteInv
<1>1. CASE CreateRun \/ CreateRoot \/ EndDriver
  <2>1. /\ driver.at \in {"new", "root", "settle"} /\ driver'.at \in {"root", "loop", "idle"}
        /\ calls' = calls
    BY <1>1 DEF CreateRun, CreateRoot, EndDriver, RunCreated, RootBranchCreated, Loop, Idle, At, vars
  <2>2. InFlight = {}
    BY <2>1, NothingInFlight DEF Resting, CallSpots, AbortSpots
  <2> QED
    BY <1>0, <2>1, <2>2, FlightGrounded DEF CallSpots
<1>2. CASE DriverFails
  <2>1. driver'.at = "idle" /\ manifest' = "error" /\ UNCHANGED <<calls, branches>> /\ marks' = Merged
    BY <1>2 DEF DriverFails, Idle, At, vars
  <2>2. HandlesSame /\ InFlight' = InFlight
    BY <2>1, MergedHandles DEF InFlight
  <2> QED
    BY <1>0, <2>1, <2>2, FlightLeft
<1>3. CASE ProviderStep \/ PauseRun \/ UNCHANGED orchVars
  <2>1. UNCHANGED <<calls, branches, driver, marks, manifest, phase>>
    BY <1>3 DEF ProviderStep, TurnEnds, PauseRun, orchVars, vars, store, process
  <2>2. HandlesSame /\ InFlight' \subseteq InFlight
    BY <2>1 DEF HandlesSame, HasHandle, InFlight
  <2> QED
    BY <2>1, <2>2, FlightStays
<1>4. CASE ResumeRun
  <2>1. driver.at = "idle" /\ ViewPhase = "paused" /\ driver'.at = "resume" /\ calls' = calls
    BY <1>4 DEF ResumeRun, At, vars
  <2>2. InFlight = {}
    BY <2>1, ResumesAtRest
  <2> QED
    BY <1>0, <2>1, <2>2, FlightGrounded DEF CallSpots
<1>5. ASSUME NEW edit \in {"expand", "revise"}, EditRun(edit) PROVE FlightInv'
  <2>1. /\ driver.at = "idle" /\ ViewPhase \in {"review_ready", "review_ready_due_to_cap"}
        /\ driver'.at = edit /\ UNCHANGED <<calls, branches, marks>>
    BY <1>5 DEF EditRun, At, vars, store
  <2>2. InFlight' = InFlight /\ (InFlight = {} \/ ~HasCapacity')
    BY <2>1, ResumesAtRest DEF InFlight, HasCapacity
  <2>3. OneInFlight' /\ HeldActive'
    BY <2>1, <2>2 DEF FlightInv, OneInFlight, HeldActive, HasHandle, ActiveBranches
  <2>4. OnFlight' /\ LeftInFlight'
    BY <1>5, <2>1, <2>2 DEF OnFlight, LeftInFlight, CallSpots, AbortSpots
  <2> QED
    BY <1>0, <2>3, <2>4 DEF FlightInv
<1>6. CASE InterruptRun
  <2> DEFINE c == Least(InFlight)
  <2>1. InFlight \subseteq Nat /\ InFlight # {}
    BY <1>6, IdsAreNat DEF InterruptRun, InFlight, OrchInv, RouteInv, TypeOK, Table
  <2>2. c \in InFlight
    BY <2>1, LeastIn
  <2>3. driver' = At("interrupt", c, None) /\ HasHandle(c) /\ UNCHANGED <<calls, branches, marks>>
    BY <1>6, <2>2 DEF InterruptRun, vars, store
  <2> HIDE DEF c
  <2>4. driver'.at = "interrupt" /\ driver'.on = c /\ InFlight' = InFlight /\ InFlight = {c}
    BY <2>2, <2>3 DEF At, InFlight, FlightInv, OneInFlight
  <2>5. OneInFlight' /\ HeldActive'
    BY <2>3, <2>4 DEF FlightInv, OneInFlight, HeldActive, HasHandle, ActiveBranches
  <2>6. OnFlight' /\ LeftInFlight'
    BY <2>3, <2>4 DEF OnFlight, LeftInFlight, HasHandle, CallSpots, AbortSpots
  <2> QED
    BY <1>0, <2>5, <2>6 DEF FlightInv
<1>7. CASE Crash
  <2>1. driver'.at = "down" /\ UNCHANGED <<calls, branches, marks>>
    BY <1>7 DEF Crash, Down, At, vars, store
  <2>2. HandlesSame /\ InFlight' = InFlight
    BY <2>1 DEF HandlesSame, HasHandle, InFlight
  <2> QED
    BY <1>0, <2>1, <2>2, FlightLeft
<1>8. CASE Restart
  <2>1. UNCHANGED <<calls, branches, manifest>> /\ marks' = Merged
    BY <1>8 DEF Restart, vars
  <2>2. HandlesSame /\ InFlight' = InFlight
    BY <2>1, MergedHandles DEF InFlight
  <2>3. \/ driver'.at = "idle" /\ (manifest # "ok" \/ InFlight = {})
        \/ driver'.at = "recover"
        \/ driver'.at = "loop" /\ InFlight = {}
    BY <1>8 DEF Restart, Idle, Loop, At
  <2>4. CASE driver'.at = "loop" /\ InFlight = {}
    BY <1>0, <2>1, <2>4, FlightGrounded DEF CallSpots
  <2>5. CASE driver'.at \in {"idle", "recover"}
    BY <1>0, <2>1, <2>2, <2>3, <2>5, FlightLeft
  <2> QED
    BY <2>3, <2>4, <2>5
<1> QED
  BY <1>1, <1>2, <1>3, <1>4, <1>5, <1>6, <1>7, <1>8

LEMMA FlightInvStep == ASSUME OrchInv, FlightInv, [OrchNext]_orchVars PROVE FlightInv'
BY FlightCallStep, FlightRepairStep, FlightScheduleStep, FlightCommandStep, FlightAbortStep,
   FlightRecoverStep, FlightOtherStep DEF OrchNext, DriverStep

(***************************************************************************)
(* A branch that is done stays done: what the driver pauses was active,    *)
(* and what it resumes was paused.                                         *)
(***************************************************************************)

Open == {"active", "paused"}
NoReturn ==
  \A b \in DOMAIN branches :
    b \in DOMAIN branches' /\ (branches'[b].status \in Open => branches[b].status \in Open)

(* What a pause or a resume still has to do can be done.                   *)
TodoInv ==
  /\ driver.at = "pause" =>
       driver.todo \subseteq ActiveBranches /\ (driver.on # None => driver.branch \in driver.todo)
  /\ driver.at = "resume" =>
       \A b \in driver.todo : b \in DOMAIN branches /\ branches[b].status = "paused"

TodoSpots == {"pause", "resume"}

LEMMA TodoArrivals ==
  ASSUME OrchInv, [OrchNext]_orchVars, driver'.at \in TodoSpots
  PROVE  \/ driver' = driver /\ branches' = branches
         \/ BeginPause \/ PauseAction \/ PauseBranch \/ ResumeAction \/ ResumeBranch \/ NextResumed \/ ResumeRun
<1>0. DOMAIN driver = Fields /\ driver.back \in Returns
  BY DEF OrchInv, DriverInv
<1>1. ~(CreateRun \/ CreateRoot)
  BY DEF CreateRun, CreateRoot, At, Loop, TodoSpots
<1>2. ~CallStep
  <2>1. ~(MarkCall \/ Attach \/ StartRefused \/ Collect)
    BY <1>0 DEF MarkCall, Attach, StartRefused, Collect, Fields, TodoSpots
  <2>2. ~(WriteChunk \/ FinishCall \/ FailCall \/ CloseFailedCheck \/ CloseMark)
    BY DEF WriteChunk, FinishCall, FailCall, CloseFailedCheck, CloseMark, ToAlign, TodoSpots
  <2>3. ~(FinishWriter \/ BookmarkStep \/ FinishCheck \/ LeaveForRetry \/ PauseFailedBranch)
    BY DEF FinishWriter, BookmarkStep, FinishCheck, LeaveForRetry, PauseFailedBranch, Loop, At, TodoSpots
  <2> QED
    BY <2>1, <2>2, <2>3 DEF CallStep
<1>3. ~RepairStep
  BY DEF RepairStep, RepairOrphan, RepairReplacement, RepairFinishedWriter, RepairStranded, RepairCheck,
         RepairCandidate, AllClosed, NoneStranded, AllSealed, AllReplaced, NoOrphans, Repairing, Aligned, Ready, TodoSpots
<1>4. ~ScheduleStep
  <2>1. ~(Stop \/ BeginSweep \/ AgainAfterSweep)
    BY DEF Stop, BeginSweep, AgainAfterSweep, Settle, Loop, At, TodoSpots
  <2>2. ~(CallNewCheck \/ WriteAfterFork \/ \E b : CallOpenCheck(b) \/ CallWriter(b))
    <3>1. ASSUME NEW role, NEW target, NEW b, StartCall(role, target, b) PROVE FALSE
      BY <3>1 DEF StartCall, At, TodoSpots
    <3> QED
      BY <3>1, Zenon DEF CallNewCheck, WriteAfterFork, CallOpenCheck, CallWriter
  <2>3. ASSUME NEW b, ParkBlocked(b) \/ CompleteBranch(b) PROVE FALSE
    <3>1. driver'.at \in {"loop", "swept", "declare"}
      BY <2>3, MovedAt DEF ParkBlocked, CompleteBranch, Fields
    <3> QED
      BY <3>1 DEF TodoSpots
  <2>4. ASSUME NEW b, RequestCheck(b) PROVE FALSE
    <3>1. driver'.at = "check"
      BY <2>4, ArrivedAt
    <3> QED
      BY <3>1 DEF TodoSpots
  <2>8. ASSUME NEW b, PassOver(b) PROVE FALSE
    <3>1. driver' = Swept(driver.at, b) /\ driver.at \in {"sweep", "swept"}
      BY <2>8 DEF PassOver, Sweeping
    <3>2. driver'.at = driver.at
      BY <3>1 DEF Swept, At
    <3> QED
      BY <3>1, <3>2 DEF TodoSpots
  <2>5. ~(\E b : BeginFork(b))
    BY <1>0 DEF BeginFork, Fields, TodoSpots
  <2>6. ~DeclareCandidate
    BY <1>0 DEF DeclareCandidate, Fields, Returns, TodoSpots
  <2>7. ASSUME CreateAlternative \/ SuppressFork PROVE FALSE
    <3>1. PICK back \in Returns : driver' = AfterFork(back)
      BY <1>0, <2>7 DEF CreateAlternative, SuppressFork, Returns
    <3> QED
      BY <3>1 DEF AfterFork, At, Returns, TodoSpots
  <2> QED
    BY <2>1, <2>2, <2>3, <2>4, <2>5, <2>6, <2>7, <2>8 DEF ScheduleStep
<1>5. ASSUME PauseStep \/ ResumeStep
      PROVE  \/ driver' = driver /\ branches' = branches
             \/ BeginPause \/ PauseAction \/ PauseBranch \/ ResumeAction \/ ResumeBranch \/ NextResumed
  <2>1. ~(EndPause \/ EndResume)
    BY DEF EndPause, EndResume, Settle, Loop, At, TodoSpots
  <2>2. ASSUME ReleaseCheck PROVE driver' = driver /\ branches' = branches
    BY <2>2 DEF ReleaseCheck, CheckRetryAuthorized
  <2> QED
    BY <1>5, <2>1, <2>2 DEF PauseStep, ResumeStep
<1>6. ~EditStep
  <2>1. ~(ExpandBranch \/ SealReplacement)
    BY DEF ExpandBranch, SealReplacement, Loop, At, TodoSpots
  <2>2. ~(ExpandAction \/ ReviseAction \/ ReplaceBranch)
    BY <1>0 DEF ExpandAction, ReviseAction, ReplaceBranch, Fields, TodoSpots
  <2> QED
    BY <2>1, <2>2 DEF EditStep
<1>7. ~(AbortStep \/ RecoverStep)
  <2>1. ~(InterruptAction \/ InterruptTurn \/ InterruptFails \/ AbortCall)
    BY <1>0 DEF InterruptAction, InterruptTurn, InterruptFails, AbortCall, Abort, Idle, At, Fields, TodoSpots
  <2>2. ~(ParkAborted \/ KeepAborted \/ EndAbort)
    BY <1>0 DEF ParkAborted, KeepAborted, EndAbort, At, Fields, Returns, TodoSpots
  <2>3. ~(RecoverAbort \/ (\E c \in InFlight : RecoverCall(c)) \/ EndRecover)
    BY DEF RecoverAbort, RecoverCall, EndRecover, Abort, Loop, At, TodoSpots
  <2> QED
    BY <2>1, <2>2, <2>3 DEF AbortStep, RecoverStep
<1>8. ~(EndDriver \/ DriverFails \/ InterruptRun \/ Crash \/ Restart)
  BY DEF EndDriver, DriverFails, InterruptRun, Crash, Restart, Idle, Loop, Down, At, TodoSpots
<1>9. ~(\E edit \in {"expand", "revise"} : EditRun(edit))
  BY DEF EditRun, At, TodoSpots
<1>10. ASSUME ProviderStep \/ PauseRun \/ UNCHANGED orchVars PROVE driver' = driver /\ branches' = branches
  BY <1>10 DEF ProviderStep, TurnEnds, PauseRun, orchVars, vars
<1> QED
  BY <1>1, <1>2, <1>3, <1>4, <1>5, <1>6, <1>7, <1>8, <1>9, <1>10 DEF OrchNext, DriverStep

LEMMA TodoInvStep ==
  ASSUME OrchInv, TodoInv, [OrchNext]_orchVars
  PROVE  TodoInv'
<1> SUFFICES ASSUME driver'.at \in TodoSpots PROVE TodoInv'
  BY DEF TodoInv, TodoSpots
<1>0. DOMAIN driver = Fields /\ DOMAIN branches \subseteq Nat /\ ActiveBranches \subseteq DOMAIN branches
  BY IdsAreNat DEF OrchInv, DriverInv, RouteInv, TypeOK, Table, ActiveBranches
<1>1. CASE driver' = driver /\ branches' = branches
  BY <1>1 DEF TodoInv, ActiveBranches
<1>2. CASE BeginPause
  BY <1>2 DEF BeginPause, At, vars, TodoInv, ActiveBranches
<1>3. CASE ResumeRun
  BY <1>3 DEF ResumeRun, At, vars, TodoInv
<1>4. CASE PauseAction \/ ResumeAction
  <2>1. /\ driver.todo # {} /\ driver.at \in TodoSpots /\ branches' = branches
        /\ driver'.branch = Least(driver.todo) /\ driver'.todo = driver.todo /\ driver'.at = driver.at
    BY <1>0, <1>4 DEF PauseAction, ResumeAction, RecordAction, HumanAction, TodoSpots, Fields
  <2>2. driver.todo \subseteq Nat
    BY <1>0, <2>1 DEF TodoInv, TodoSpots
  <2>3. driver'.branch \in driver'.todo
    BY <2>1, <2>2, LeastIn
  <2> QED
    BY <2>1, <2>3 DEF TodoInv, ActiveBranches
<1>5. CASE PauseBranch \/ ResumeBranch
  <2>1. /\ driver'.at = driver.at /\ driver'.todo = driver.todo \ {driver.branch}
        /\ driver'.at = "pause" => driver'.on = None
    BY <1>0, <1>5 DEF PauseBranch, ResumeBranch, Fields
  <2>2. /\ DOMAIN branches' = DOMAIN branches
        /\ \A b \in DOMAIN branches \ {driver.branch} : branches'[b] = branches[b]
    BY <1>5 DEF PauseBranch, ResumeBranch, BranchStatusChanged
  <2> QED
    BY <2>1, <2>2 DEF TodoInv, ActiveBranches
<1>6. CASE NextResumed
  BY <1>0, <1>6 DEF NextResumed, Releasing, vars, TodoInv, ActiveBranches, Fields
<1> QED
  BY <1>1, <1>2, <1>3, <1>4, <1>5, <1>6, TodoArrivals

(* What a step may do to the status of branches: move at most one, x.      *)
OthersStand(x) ==
  \A b \in DOMAIN branches :
    b \in DOMAIN branches' /\ (b # x => branches'[b].status = branches[b].status)
MovesOn(x) ==
  OthersStand(x) /\ (x \in DOMAIN branches /\ branches'[x].status \in Open => branches[x].status \in Open)

LEMMA MovesOnReturns == ASSUME NEW x, MovesOn(x) PROVE NoReturn
BY DEF MovesOn, OthersStand, NoReturn

LEMMA MoveStatus ==
  ASSUME TypeOK, NEW b, NEW to, NEW reason, NEW a, NEW k, NEW c, BranchStatusChanged(b, to, reason, a, k, c),
         to \notin Open \/ branches[b].status \in Open
  PROVE  NoReturn
<1>1. branches' = [branches EXCEPT ![b].status = to, ![b].moved = reason] /\ b \in DOMAIN branches
  BY DEF BranchStatusChanged
<1>2. branches'[b].status = to /\ OthersStand(b)
  BY <1>1 DEF OthersStand, TypeOK, Table, BranchRec
<1> QED
  BY <1>2, MovesOnReturns DEF MovesOn

LEMMA ConsumeStatus ==
  ASSUME TypeOK, NEW c, NEW b, Consume(c, b)
  PROVE  NoReturn
<1> DEFINE s == Fresh(Step, steps)
           x == Fresh(Branch, branches)
           old == calls[c].raw[1].revise
<1>1. CASE WriterRouteCompletion(b, c)
  <2>1. branches' = [branches EXCEPT ![b].status = "completed", ![b].moved = "writer_complete"]
        /\ b \in DOMAIN branches
    BY <1>1 DEF WriterRouteCompletion, ActiveBranches
  <2>2. branches'[b].status = "completed" /\ OthersStand(b)
    BY <2>1 DEF OthersStand, TypeOK, Table, BranchRec
  <2> QED
    BY <2>2, MovesOnReturns DEF MovesOn, Open
<1>2. CASE ModelRevisionDeferred(c, old)
  BY <1>2 DEF ModelRevisionDeferred, NoReturn
<1>3. CASE ModelStepSealed(s, b, None, c)
  <2>1. branches' = [branches EXCEPT ![b].route = Extended(b, s)] /\ b \in DOMAIN branches
    BY <1>3 DEF ModelStepSealed, Seal
  <2>2. \A y \in DOMAIN branches : branches'[y].status = branches[y].status
    BY <2>1 DEF TypeOK, Table, BranchRec
  <2> QED
    BY <2>1, <2>2 DEF NoReturn
<1>4. CASE ModelRevisionApplied(b, x, old, s, c)
  <2> DEFINE parked == [branches EXCEPT ![b].status = "parked", ![b].moved = "model_superseded"]
  <2>1. x \notin DOMAIN branches /\ b \in DOMAIN branches /\ \E r : branches' = Put(parked, x, r)
    BY <1>4 DEF ModelRevisionApplied, ActiveBranches
  <2>2. /\ DOMAIN parked = DOMAIN branches /\ parked[b].status = "parked"
        /\ \A y \in DOMAIN branches : y # b => parked[y].status = branches[y].status
    BY <2>1 DEF TypeOK, Table, BranchRec
  <2> HIDE DEF parked, x
  <2>3. branches'[b].status = "parked" /\ OthersStand(b)
    BY <2>1, <2>2 DEF Put, OthersStand
  <2> QED
    BY <2>3, MovesOnReturns DEF MovesOn, Open
<1> QED
  BY <1>1, <1>2, <1>3, <1>4 DEF Consume

LEMMA BirthStatus ==
  ASSUME NEW b, b \notin DOMAIN branches, NEW r, branches' = Put(branches, b, r)
  PROVE  NoReturn
BY DEF Put, NoReturn

LEMMA NoReturnStep ==
  ASSUME OrchInv, FlightInv, TodoInv, [OrchNext]_orchVars
  PROVE  NoReturn
<1>0. TypeOK /\ DOMAIN branches \subseteq Nat
  BY IdsAreNat DEF OrchInv, RouteInv, TypeOK, Table
<1>a. ASSUME branches' = branches PROVE NoReturn
  BY <1>a DEF NoReturn
<1>1. CASE CreateRoot \/ CreateAlternative \/ ExpandBranch \/ ReplaceBranch
  BY <1>1, BirthStatus DEF CreateRoot, CreateAlternative, ExpandBranch, ReplaceBranch, RootBranchCreated, ChildBranchCreated
<1>2. CASE FinishWriter \/ RepairFinishedWriter
  BY <1>0, <1>2, ConsumeStatus DEF FinishWriter, RepairFinishedWriter
<1>3. CASE \/ MarkCall \/ Attach \/ StartRefused \/ Collect \/ WriteChunk \/ FinishCall \/ FailCall \/ CloseMark
           \/ BookmarkStep \/ FinishCheck \/ LeaveForRetry \/ CloseFailedCheck \/ RepairCheck \/ RepairCandidate
  BY <1>3, <1>a DEF MarkCall, Attach, StartRefused, Collect, WriteChunk, FinishCall, FailCall, CloseMark,
     BookmarkStep, FinishCheck, LeaveForRetry, CloseFailedCheck, RepairCheck, RepairCandidate,
     ModelCallChunk, ModelCallFinished, ModelCallFailed, Terminate, CheckCompleted, CandidateDeclared, vars
<1>4. CASE PauseFailedBranch
  <2>1. branches[driver.branch].status = "active"
    BY <1>4 DEF PauseFailedBranch, FlightInv, OnFlight, CallSpots, ActiveBranches
  <2> QED
    BY <1>0, <1>4, <2>1, MoveStatus DEF PauseFailedBranch, Open
<1>5. CASE RepairStranded
  <2>1. Stranded \subseteq ActiveBranches /\ Stranded # {} /\ ActiveBranches \subseteq DOMAIN branches
    BY <1>5 DEF RepairStranded, Stranded, ActiveBranches
  <2>2. Least(Stranded) \in ActiveBranches
    BY <1>0, <2>1, LeastIn
  <2> QED
    BY <1>0, <1>5, <2>2, MoveStatus DEF RepairStranded, ActiveBranches, Open
<1>6. CASE ParkAborted \/ (\E b : ParkBlocked(b) \/ CompleteBranch(b))
  BY <1>0, <1>6, MoveStatus DEF ParkAborted, ParkBlocked, CompleteBranch, Open
<1>7. CASE RepairOrphan
  <2>1. PICK b, to, reason, a : /\ BranchStatusChanged(b, to, reason, a, None, None)
                                /\ branches[b].status \in {"active", "paused"}
    BY <1>7 DEF RepairOrphan
  <2> QED
    BY <1>0, <2>1, MoveStatus DEF Open
<1>8. CASE PauseBranch
  <2>1. branches[driver.branch].status = "active"
    BY <1>8 DEF PauseBranch, TodoInv, ActiveBranches
  <2> QED
    BY <1>0, <1>8, <2>1, MoveStatus DEF PauseBranch, Open
<1>9. CASE ResumeBranch
  <2>1. branches[driver.branch].status = "paused"
    BY <1>9 DEF ResumeBranch, TodoInv
  <2> QED
    BY <1>0, <1>9, <2>1, MoveStatus DEF ResumeBranch, Open
<1>10. CASE AbortCall
  BY <1>10, <1>a DEF AbortCall, ModelCallAborted, Terminate
<1>11. CASE RepairReplacement \/ SealReplacement
  <2>1. PICK s, b, replaces, a : HumanStepSealed(s, b, replaces, a)
    BY <1>11 DEF RepairReplacement, SealReplacement
  <2>2. branches' = [branches EXCEPT ![b].route = Extended(b, s)]
    BY <2>1 DEF HumanStepSealed, Seal
  <2>3. \A y \in DOMAIN branches : branches'[y].status = branches[y].status
    BY <1>0, <2>2 DEF TypeOK, Table, BranchRec
  <2> QED
    BY <2>2, <2>3 DEF NoReturn
<1>12. CASE \/ Stop \/ BeginSweep \/ AgainAfterSweep \/ CallNewCheck \/ SuppressFork \/ WriteAfterFork \/ DeclareCandidate
           \/ \E b : RequestCheck(b) \/ CallOpenCheck(b) \/ CallWriter(b) \/ BeginFork(b) \/ PassOver(b)
  BY <1>12, <1>a DEF Stop, BeginSweep, AgainAfterSweep, CallNewCheck, SuppressFork, WriteAfterFork, DeclareCandidate,
     RequestCheck, CallOpenCheck, CallWriter, BeginFork, PassOver, StartCall, ModelCallStarted, CheckRequested,
     CandidateDeclared, vars
<1>13. CASE \/ BeginPause \/ PauseAction \/ EndPause \/ ResumeAction \/ ReleaseCheck \/ NextResumed \/ EndResume
            \/ ExpandAction \/ ReviseAction \/ InterruptAction
  BY <1>13, <1>a DEF BeginPause, PauseAction, EndPause, ResumeAction, RecordAction, ReleaseCheck, NextResumed,
     EndResume, ExpandAction, ReviseAction, InterruptAction, HumanAction, CheckRetryAuthorized, vars
<1>14. CASE \/ CreateRun \/ InterruptTurn \/ InterruptFails \/ KeepAborted \/ EndAbort \/ RecoverAbort
            \/ (\E c \in InFlight : RecoverCall(c)) \/ EndRecover \/ EndDriver \/ DriverFails \/ ProviderStep
            \/ PauseRun \/ ResumeRun \/ InterruptRun \/ (\E edit \in {"expand", "revise"} : EditRun(edit))
            \/ Crash \/ Restart \/ UNCHANGED orchVars
  BY <1>14, <1>a DEF CreateRun, RunCreated, InterruptTurn, InterruptFails, KeepAborted, EndAbort, RecoverAbort,
     RecoverCall, EndRecover, EndDriver, DriverFails, ProviderStep, TurnEnds, PauseRun, ResumeRun, InterruptRun,
     EditRun, Crash, Restart, orchVars, vars
<1> QED
  BY <1>1, <1>2, <1>3, <1>4, <1>5, <1>6, <1>7, <1>8, <1>9, <1>10, <1>11, <1>12, <1>13, <1>14, Zenon
     DEF OrchNext, DriverStep, CallStep, RepairStep, ScheduleStep, PauseStep, ResumeStep, EditStep,
         AbortStep, RecoverStep

(***************************************************************************)
(* What a writer call of another slot or another branch came to.           *)
(***************************************************************************)

Retired(c) ==
  calls[c].target[1] \in DOMAIN branches /\ branches[calls[c].target[1]].status \notin Open

(* A call that completed its route, or became a revision on a branch of    *)
(* its own, was for a branch that is done.                                 *)
RetiredInv ==
  /\ \A c \in DOMAIN calls : calls[c].disposition \notin {None, "revision_deferred"} => Retired(c)
  /\ \A s \in DOMAIN steps :
       steps[s].call # None /\ steps[s].branch # calls[steps[s].call].target[1] => Retired(steps[s].call)

LEMMA RetiredStays ==
  ASSUME NoReturn, CallsKept, NEW c \in DOMAIN calls, Retired(c)
  PROVE  Retired(c)'
<1>1. calls'[c].target = calls[c].target
  BY DEF CallsKept
<1>2. calls[c].target[1] \in DOMAIN branches' /\ branches'[calls[c].target[1]].status \notin Open
  BY DEF Retired, NoReturn
<1> QED
  BY <1>1, <1>2 DEF Retired

LEMMA CompletionIs ==
  ASSUME TypeOK, [Next]_vars, NEW c \in DOMAIN calls', calls'[c].disposition \notin {None, "revision_deferred"}
  PROVE  c \in DOMAIN calls /\ (calls'[c].disposition = calls[c].disposition \/ \E b : WriterRouteCompletion(b, c))
<1> DEFINE Goal == c \in DOMAIN calls /\ (calls'[c].disposition = calls[c].disposition \/ \E b : WriterRouteCompletion(b, c))
<1>0. \A x \in DOMAIN calls : calls[x] \in CallRec
  BY DEF TypeOK, Table
<1>1. ASSUME calls' = calls PROVE Goal
  BY <1>1
<1>2. CASE CallEvent
  <2>1. PICK x \in Call :
          \/ \E role \in Roles, target \in Targets : ModelCallStarted(x, role, target)
          \/ \E ctl \in Control : ModelCallChunk(x, ctl)
          \/ \E out \in Content \cup {None} :
               \/ "finished" \in Ends /\ ModelCallFinished(x, out)
               \/ "failed" \in Ends /\ ModelCallFailed(x, out)
               \/ "aborted" \in Ends /\ \E a \in DOMAIN actions : ModelCallAborted(x, out, a)
          \/ \E content \in Content : WriterOutputNormalized(x, content)
          \/ \E target \in Step : ModelRevisionDeferred(x, target)
          \/ \E b \in DOMAIN branches : WriterRouteCompletion(b, x)
    BY <1>2, Zenon DEF CallEvent
  <2>2. ASSUME NEW role, NEW target, ModelCallStarted(x, role, target) PROVE Goal
    BY <2>2 DEF ModelCallStarted, Put
  <2>3. ASSUME NEW ctl, ModelCallChunk(x, ctl) PROVE Goal
    BY <2>3, <1>0 DEF ModelCallChunk, CallRec
  <2>4. ASSUME NEW state, NEW out, Terminate(x, state, out) PROVE Goal
    BY <2>4, <1>0 DEF Terminate, CallRec
  <2>5. ASSUME NEW content, WriterOutputNormalized(x, content) PROVE Goal
    BY <2>5, <1>0 DEF WriterOutputNormalized, CallRec
  <2>6. ASSUME NEW target, ModelRevisionDeferred(x, target) PROVE Goal
    BY <2>6, <1>0 DEF ModelRevisionDeferred, CallRec
  <2>7. ASSUME NEW b, WriterRouteCompletion(b, x) PROVE Goal
    <3>1. CASE c = x
      BY <2>7, <3>1 DEF WriterRouteCompletion
    <3>2. CASE c # x
      BY <2>7, <3>2 DEF WriterRouteCompletion
    <3> QED
      BY <3>1, <3>2
  <2> QED
    BY <2>1, <2>2, <2>3, <2>4, <2>5, <2>6, <2>7
       DEF ModelCallFinished, ModelCallFailed, ModelCallAborted
<1>3. CASE BranchEvent \/ CheckEvent
  BY <1>1, <1>3, BranchEventFrame, CheckEventFrame DEF BranchFrame
<1>4. CASE StepEvent \/ CandidateEvent
  BY <1>1, <1>4, StepEventFrame, CandidateEventFrame
<1>5. CASE RunCreated \/ (\E e \in Source : SourceEvidenceRegistered(e))
             \/ (\E a \in Action : HumanActionRecorded(a)) \/ UNCHANGED vars
  BY <1>1, <1>5 DEF RunCreated, SourceEvidenceRegistered, HumanActionRecorded, HumanAction, vars
<1> QED
  BY <1>2, <1>3, <1>4, <1>5, Zenon DEF Next

LEMMA RetiredInvStep ==
  ASSUME RevInv, RevInv', RetiredInv, NoReturn, [Next]_vars
  PROVE  RetiredInv'
<1>0. TypeOK /\ CallsKept /\ StepsKept
  BY CallsKeptStep, SettledStep DEF RevInv, RouteInv, Settled
<1>1. ASSUME NEW c \in DOMAIN calls', calls'[c].disposition \notin {None, "revision_deferred"} PROVE Retired(c)'
  <2>1. c \in DOMAIN calls /\ (calls'[c].disposition = calls[c].disposition \/ \E b : WriterRouteCompletion(b, c))
    BY <1>0, <1>1, CompletionIs
  <2>2. CASE calls'[c].disposition = calls[c].disposition
    BY <1>0, <1>1, <2>1, <2>2, RetiredStays DEF RetiredInv
  <2>3. ASSUME NEW b, WriterRouteCompletion(b, c) PROVE Retired(c)'
    <3>1. calls'[c].target = <<b, NextSlot(b)>> /\ b \in DOMAIN branches
      BY <1>0, <2>1, <2>3 DEF WriterRouteCompletion, CallsKept, ActiveBranches
    <3>2. b \in DOMAIN branches' /\ branches'[b].status = "completed"
      BY <1>0, <2>3, <3>1 DEF WriterRouteCompletion, TypeOK, Table, BranchRec
    <3> QED
      BY <3>1, <3>2 DEF Retired, Open
  <2> QED
    BY <2>1, <2>2, <2>3
<1>2. ASSUME NEW s \in DOMAIN steps', steps'[s].call # None, steps'[s].branch # calls'[steps'[s].call].target[1]
      PROVE  Retired(steps[s].call)'
  <2>1. CASE s \in DOMAIN steps
    <3>1. steps'[s] = steps[s] /\ steps[s].call \in DOMAIN calls
      BY <1>0, <1>2, <2>1 DEF StepsKept, RevInv, CallSealed
    <3>2. calls'[steps[s].call].target = calls[steps[s].call].target
      BY <1>0, <3>1 DEF CallsKept
    <3>3. Retired(steps[s].call)
      BY <1>2, <2>1, <3>1, <3>2 DEF RetiredInv
    <3> DEFINE c == steps[s].call
    <3>4. c \in DOMAIN calls /\ Retired(c) /\ steps'[s].call = c
      BY <3>1, <3>3
    <3>5. branches'[calls'[c].target[1]].status \notin Open /\ calls'[c].target[1] \in DOMAIN branches'
      BY <1>0, <3>4, RetiredStays DEF Retired
    <3> QED
      BY <3>4, <3>5 DEF Retired
  <2>2. CASE s \notin DOMAIN steps
    <3>1. PICK t, b : NewStep(t, b) /\ FreshCall(t, b)
      BY <1>2, <2>2, StepChange DEF StepsSame, RevInv
    <3>2. t = s /\ steps'[s].branch = b /\ calls' = calls
      BY <1>2, <2>2, <3>1 DEF NewStep
    <3> DEFINE c == steps'[s].call
    <3>3. calls[c].target[1] \in DOMAIN branches /\ branches'[calls[c].target[1]].status = "parked"
      BY <1>2, <3>1, <3>2 DEF FreshCall
    <3>4. calls[c].target[1] \in DOMAIN branches'
      BY <3>3 DEF NoReturn
    <3> QED
      BY <3>2, <3>3, <3>4 DEF Retired, Open
  <2> QED
    BY <2>1, <2>2
<1> QED
  BY <1>1, <1>2 DEF RetiredInv

(***************************************************************************)
(* No call is made for a slot or a check that has its answer, or that      *)
(* waits for its user.                                                     *)
(***************************************************************************)

Deferred(c) == calls[c].state = "finished" => calls[c].disposition = "revision_deferred"
Halted(c) == calls[c].state \in {"failed", "aborted"} => c \in resumed \/ ContextExhausted(c)

(* A call that was followed by another on its target had ended and left    *)
(* the target open.                                                        *)
Spent(c) == Terminal(c) /\ Deferred(c) /\ (calls[c].role = "writer" => Halted(c))
HistoryInv == \A c1, c2 \in DOMAIN calls : c1 < c2 /\ c2 \in Siblings(c1) => Spent(c1)

FailureInv == \A c \in DOMAIN failure : c \in DOMAIN calls /\ calls[c].state = "failed"
DispatchInv ==
  \A c \in DOMAIN calls : calls[c].role = "checker" => \E k \in DOMAIN checks : calls[c].target = <<k>>

(* What a writer call may be made for.                                     *)
OpenTarget(b) ==
  b \in ActiveBranches /\ \A c \in CallsOn("writer", <<b, NextSlot(b)>>) : Terminal(c) /\ Deferred(c) /\ Halted(c)

(* What was true when the driver decided still is when it goes on.         *)
QuietInv ==
  /\ driver.at \in {"check", "fork", "forked"} /\ HasCapacity => Orphans = {}
  /\ driver.at \in {"fork", "forked"} /\ HasCapacity => OpenTarget(driver.branch)
  /\ driver.at = "check" => ~pause /\ CallsOn("checker", <<driver.on>>) = {}

LEMMA FacetsMove ==
  ASSUME [OrchNext]_orchVars
  PROVE  (failure' = failure \/ FailCall) /\ resumed \subseteq resumed'
<1>1. CASE FailCall
  BY <1>1 DEF FailCall
<1>2. CASE RepairOrphan \/ ResumeBranch
  BY <1>2 DEF RepairOrphan, ResumeBranch
<1>3. CASE PauseBranch \/ ExpandBranch \/ ReplaceBranch \/ AbortCall
  BY <1>3 DEF PauseBranch, ExpandBranch, ReplaceBranch, AbortCall
<1>a. ASSUME UNCHANGED facets PROVE failure' = failure /\ resumed \subseteq resumed'
  BY <1>a DEF facets
<1>4. CASE \/ MarkCall \/ Attach \/ StartRefused \/ Collect \/ WriteChunk \/ FinishCall \/ CloseMark
           \/ FinishWriter \/ BookmarkStep \/ FinishCheck \/ LeaveForRetry \/ CloseFailedCheck \/ PauseFailedBranch
           \/ RepairReplacement \/ RepairFinishedWriter \/ RepairStranded \/ RepairCheck \/ RepairCandidate
  BY <1>4, <1>a DEF MarkCall, Attach, StartRefused, Collect, WriteChunk, FinishCall, CloseMark, FinishWriter,
     BookmarkStep, FinishCheck, LeaveForRetry, CloseFailedCheck, PauseFailedBranch, RepairReplacement,
     RepairFinishedWriter, RepairStranded, RepairCheck, RepairCandidate
<1>5. CASE ScheduleStep
  <2>1. ASSUME NEW role, NEW target, NEW b, StartCall(role, target, b) PROVE UNCHANGED facets
    BY <2>1 DEF StartCall
  <2>2. UNCHANGED facets
    BY <1>5, <2>1 DEF ScheduleStep, Stop, BeginSweep, AgainAfterSweep, ParkBlocked, RequestCheck, CallOpenCheck,
       CallWriter, BeginFork, CompleteBranch, PassOver, CallNewCheck, CreateAlternative, SuppressFork,
       WriteAfterFork, DeclareCandidate
  <2> QED
    BY <2>2, <1>a
<1>6. CASE \/ BeginPause \/ PauseAction \/ EndPause \/ ResumeAction \/ ReleaseCheck \/ NextResumed \/ EndResume
           \/ ExpandAction \/ ReviseAction \/ SealReplacement
           \/ InterruptAction \/ InterruptTurn \/ InterruptFails \/ ParkAborted \/ KeepAborted \/ EndAbort
           \/ RecoverStep
  BY <1>6, <1>a DEF BeginPause, PauseAction, EndPause, ResumeAction, RecordAction, ReleaseCheck, NextResumed,
     EndResume, ExpandAction, ReviseAction, SealReplacement, InterruptAction, InterruptTurn, InterruptFails,
     ParkAborted, KeepAborted, EndAbort, RecoverStep, RecoverAbort, RecoverCall, EndRecover
<1>7. CASE \/ CreateRun \/ CreateRoot \/ EndDriver \/ DriverFails \/ ProviderStep \/ PauseRun \/ ResumeRun
           \/ InterruptRun \/ (\E edit \in {"expand", "revise"} : EditRun(edit)) \/ Crash \/ Restart
           \/ UNCHANGED orchVars
  BY <1>7, <1>a DEF CreateRun, CreateRoot, EndDriver, DriverFails, ProviderStep, TurnEnds, PauseRun, ResumeRun,
     InterruptRun, EditRun, Crash, Restart, orchVars
<1> QED
  BY <1>1, <1>2, <1>3, <1>4, <1>5, <1>6, <1>7, Zenon
     DEF OrchNext, DriverStep, CallStep, RepairStep, PauseStep, ResumeStep, EditStep, AbortStep

LEMMA FailureInvStep ==
  ASSUME FailureInv, TypeOK, [Next]_vars, [OrchNext]_orchVars
  PROVE  FailureInv'
<1>1. CallsKept
  BY CallsKeptStep
<1>2. ASSUME NEW c \in DOMAIN failure PROVE c \in DOMAIN calls' /\ calls'[c].state = "failed"
  BY <1>1, <1>2 DEF FailureInv, CallsKept
<1>3. CASE failure' = failure
  BY <1>2, <1>3 DEF FailureInv
<1>4. CASE FailCall
  <2>1. driver.on \in DOMAIN calls' /\ calls'[driver.on].state = "failed"
    BY <1>4 DEF FailCall, ModelCallFailed, Terminate, InFlight, TypeOK, Table, CallRec
  <2>2. DOMAIN failure' = DOMAIN failure \cup {driver.on}
    BY <1>4 DEF FailCall, Put
  <2> QED
    BY <1>2, <2>1, <2>2 DEF FailureInv
<1> QED
  BY <1>3, <1>4, FacetsMove

(* What excused a call, or let its branch go on after it, stays true.      *)
LEMMA SpentStays ==
  ASSUME FailureInv, TypeOK, [Next]_vars, [OrchNext]_orchVars, NEW c \in DOMAIN calls
  PROVE  /\ ContextExhausted(c) => ContextExhausted(c)'
         /\ Terminal(c) => Terminal(c)'
         /\ Terminal(c) /\ Deferred(c) => Deferred(c)'
         /\ Terminal(c) /\ Halted(c) => Halted(c)'
<1>1. CallsKept /\ resumed \subseteq resumed'
  BY CallsKeptStep, FacetsMove
<1>2. calls[c].disposition \in {None, "revision_deferred", "route_completion"}
  BY DEF TypeOK, Table, CallRec
<1>3. Terminal(c) => FailureOf(c)' = FailureOf(c)
  <2>1. CASE failure' = failure
    BY <2>1 DEF FailureOf
  <2>2. ASSUME FailCall, Terminal(c) PROVE FailureOf(c)' = FailureOf(c)
    BY <2>2 DEF FailCall, Put, FailureOf
  <2> QED
    BY <2>1, <2>2, FacetsMove
<1>4. ContextExhausted(c) => Terminal(c)
  BY DEF ContextExhausted, FailureOf, FailureInv, Terminal
<1>5. ContextExhausted(c) => ContextExhausted(c)'
  BY <1>1, <1>3, <1>4 DEF ContextExhausted, CallsKept, Terminal
<1>6. Terminal(c) => Terminal(c)' /\ calls'[c].state = calls[c].state
  BY <1>1 DEF CallsKept, Terminal
<1>7. calls[c].disposition # None => calls'[c].disposition = calls[c].disposition
  BY <1>1 DEF CallsKept
<1>8. Terminal(c) /\ Deferred(c) => Deferred(c)'
  BY <1>6, <1>7, DispositionAssumption DEF Deferred
<1>9. Terminal(c) /\ Halted(c) => Halted(c)'
  BY <1>1, <1>5, <1>6 DEF Halted
<1> QED
  BY <1>5, <1>6, <1>8, <1>9

LEMMA ChecksGrow == ASSUME TypeOK, [Next]_vars PROVE DOMAIN checks \subseteq DOMAIN checks'
BY SettledStep DEF Settled, ChecksKept

(* A call stays the answer it is to what it was started for.               *)
LEMMA NewCalls ==
  ASSUME [OrchNext]_orchVars
  PROVE  \/ DOMAIN calls' = DOMAIN calls
         \/ \E c, role, target, b : Starting(c, role, target, b)
<1>1. ASSUME NEW b, CallOpenCheck(b) \/ CallWriter(b) PROVE \E c, role, target, x : Starting(c, role, target, x)
  BY <1>1, StartIs DEF CallOpenCheck, CallWriter
<1>2. ASSUME CallNewCheck \/ WriteAfterFork PROVE \E c, role, target, x : Starting(c, role, target, x)
  BY <1>2, StartIs DEF CallNewCheck, WriteAfterFork
<1> QED
  BY <1>1, <1>2, Starts

LEMMA DispatchInvStep ==
  ASSUME DispatchInv, TypeOK, [Next]_vars, [OrchNext]_orchVars
  PROVE  DispatchInv'
<1>0. CallsKept /\ DOMAIN checks \subseteq DOMAIN checks'
  BY CallsKeptStep, ChecksGrow
<1>1. \A c \in DOMAIN calls : calls'[c].role = "checker" => \E k \in DOMAIN checks' : calls'[c].target = <<k>>
  BY <1>0 DEF DispatchInv, CallsKept
<1>2. CASE DOMAIN calls' = DOMAIN calls
  BY <1>1, <1>2 DEF DispatchInv
<1>3. ASSUME NEW c, NEW role, NEW target, NEW b, Starting(c, role, target, b) PROVE DispatchInv'
  <2>1. calls'[c].role = "checker" => \E k \in DOMAIN checks : calls'[c].target = <<k>>
    BY <1>3 DEF Starting, TargetOk
  <2> QED
    BY <1>0, <1>1, <1>3, <2>1 DEF Starting, DispatchInv
<1> QED
  BY <1>2, <1>3, NewCalls

LEMMA NoCallsYet ==
  ASSUME DispatchInv, NEW k, k \notin DOMAIN checks
  PROVE  CallsOn("checker", <<k>>) = {}
<1>1. ASSUME NEW c \in CallsOn("checker", <<k>>) PROVE FALSE
  <2>1. c \in DOMAIN calls /\ calls[c].role = "checker" /\ calls[c].target = <<k>>
    BY <1>1 DEF CallsOn
  <2>2. PICK x \in DOMAIN checks : calls[c].target = <<x>>
    BY <2>1 DEF DispatchInv
  <2>3. <<x>>[1] = <<k>>[1]
    BY <2>1, <2>2
  <2> QED
    BY <2>3
<1> QED
  BY <1>1

(* The last call on a target: every other one is older.                    *)
LEMMA LatestIs ==
  ASSUME NEW S, S \subseteq Nat, NEW c \in S, \A y \in S : ~(c < y)
  PROVE  Latest(S) = c
<1>1. \A y \in S : c >= y
  OBVIOUS
<1>2. \A x \in S : (\A y \in S : x >= y) => x = c
  BY <1>1
<1> QED
  BY <1>1, <1>2 DEF Latest

(* Once a prefix is repaired, the next slot of an active branch is open.   *)
LEMMA RepairedOpens ==
  ASSUME OrchInv, RevInv, RetiredInv, HistoryInv, InFlight = {}, Repaired, NEW b \in ActiveBranches
  PROVE  OpenTarget(b)
<1> DEFINE target == <<b, NextSlot(b)>>
<1>0. /\ Unsealed = {} /\ Stranded = {} /\ TypeOK /\ b \in DOMAIN branches
      /\ branches[b].status \notin Open => FALSE
  BY RepairedHas DEF OrchInv, RouteInv, ActiveBranches, Open
<1>1. SUFFICES ASSUME NEW c \in CallsOn("writer", target) PROVE Terminal(c) /\ Deferred(c) /\ Halted(c)
  BY DEF OpenTarget
<1>2. c \in DOMAIN calls /\ calls[c].role = "writer" /\ calls[c].target[1] = b /\ calls[c].target[2] = NextSlot(b)
  BY <1>1 DEF CallsOn
<1>3. Terminal(c)
  BY <1>2 DEF InFlight, Terminal
<1>4. ~Retired(c)
  BY <1>0, <1>2 DEF Retired
<1>5. ~Materialized(c)
  <2> SUFFICES ASSUME NEW s \in DOMAIN steps, steps[s].call = c PROVE FALSE
    BY DEF Materialized
  <2>1. c # None
    BY <1>0, <1>2, NoneAssumption DEF TypeOK, Table, Ids
  <2>2. steps[s].branch = b
    BY <1>2, <1>4, <2>1 DEF RetiredInv
  <2>3. steps[s].slot = NextSlot(b) /\ steps[s].slot \in DOMAIN branches[b].route
    BY <1>2, <2>1, <2>2 DEF RevInv, CallSealed, SealedAt
  <2>4. branches[b].route \in Seq(Step)
    BY <1>0 DEF TypeOK, Table, BranchRec
  <2>5. DOMAIN branches[b].route = 1..Len(branches[b].route) /\ Len(branches[b].route) \in Nat
    BY <2>4, LenProperties
  <2> QED
    BY <2>3, <2>5 DEF NextSlot
<1>6. Deferred(c)
  <2> SUFFICES ASSUME calls[c].state = "finished" PROVE calls[c].disposition = "revision_deferred"
    BY DEF Deferred
  <2>1. calls[c].disposition # None
    BY <1>0, <1>2, <1>5 DEF Unsealed, FinishedWriter
  <2> QED
    BY <1>2, <1>4, <2>1 DEF RetiredInv
<1>7. Halted(c)
  <2>1. CASE \E y \in CallsOn("writer", target) : c < y
    <3>1. PICK y \in CallsOn("writer", target) : c < y
      BY <2>1
    <3>2. y \in DOMAIN calls /\ y \in Siblings(c)
      BY <1>1, <3>1 DEF CallsOn, Siblings
    <3> QED
      BY <1>2, <3>1, <3>2 DEF HistoryInv, Spent
  <2>2. CASE \A y \in CallsOn("writer", target) : ~(c < y)
    <3>1. CallsOn("writer", target) \subseteq Nat
      BY <1>0, IdsAreNat DEF CallsOn, TypeOK, Table
    <3>2. LatestOn("writer", target) = c
      BY <1>1, <2>2, <3>1, LatestIs DEF LatestOn
    <3>3. ~(/\ CallsOn("writer", target) # {} /\ calls[c].state \in {"failed", "aborted"}
            /\ c \notin resumed /\ ~ContextRetryDue(c))
      BY <1>0, <3>2 DEF Stranded
    <3> QED
      BY <1>1, <3>3 DEF Halted, ContextRetryDue
  <2> QED
    BY <2>1, <2>2
<1> QED
  BY <1>3, <1>6, <1>7

LEMMA PauseMoves ==
  ASSUME [OrchNext]_orchVars
  PROVE  pause' = pause \/ PauseRun \/ RepairOrphan \/ EndResume
<1>1. CASE CallStep \/ RepairReplacement \/ RepairFinishedWriter \/ RepairStranded \/ RepairCheck \/ RepairCandidate
  BY <1>1 DEF CallStep, MarkCall, Attach, StartRefused, Collect, WriteChunk, FinishCall, FailCall,
     CloseMark, FinishWriter, BookmarkStep, FinishCheck, LeaveForRetry, CloseFailedCheck, PauseFailedBranch,
     RepairReplacement, RepairFinishedWriter, RepairStranded, RepairCheck, RepairCandidate, store
<1>2. CASE ScheduleStep
  <2>1. ASSUME NEW role, NEW target, NEW b, StartCall(role, target, b) PROVE pause' = pause
    BY <2>1 DEF StartCall, store
  <2> QED
    BY <1>2, <2>1 DEF ScheduleStep, Stop, BeginSweep, AgainAfterSweep, ParkBlocked, RequestCheck, CallOpenCheck,
       CallWriter, BeginFork, CompleteBranch, PassOver, CallNewCheck, CreateAlternative, SuppressFork,
       WriteAfterFork, DeclareCandidate, store
<1>3. CASE \/ PauseStep \/ ResumeAction \/ ResumeBranch \/ ReleaseCheck \/ NextResumed \/ EditStep
           \/ AbortStep \/ RecoverStep
  BY <1>3 DEF PauseStep, EditStep, AbortStep, RecoverStep, BeginPause, PauseAction, PauseBranch,
     EndPause, ResumeAction, RecordAction, ResumeBranch, ReleaseCheck, NextResumed, ExpandAction,
     ExpandBranch, ReviseAction, ReplaceBranch, SealReplacement, InterruptAction, InterruptTurn, InterruptFails,
     AbortCall, ParkAborted, KeepAborted, EndAbort, RecoverAbort, RecoverCall, EndRecover, store
<1>4. CASE \/ CreateRun \/ CreateRoot \/ EndDriver \/ DriverFails \/ ProviderStep \/ ResumeRun
           \/ InterruptRun \/ (\E edit \in {"expand", "revise"} : EditRun(edit)) \/ Crash \/ Restart
           \/ UNCHANGED orchVars
  BY <1>4 DEF CreateRun, CreateRoot, EndDriver, DriverFails, ProviderStep, TurnEnds, ResumeRun,
     InterruptRun, EditRun, Crash, Restart, orchVars, store
<1> QED
  BY <1>1, <1>2, <1>3, <1>4, Zenon DEF OrchNext, DriverStep, RepairStep, ResumeStep

(* A decision taken on a repaired prefix.                                  *)
LEMMA DecidedQuiet ==
  ASSUME SweepInv, FlightInv, NEW b, Advancing(b), HasCapacity
  PROVE  Repaired /\ ~pause /\ driver.at = "loop" /\ Orphans = {} /\ Unclosed = {} /\ InFlight = {}
<1>1. Repaired /\ ~pause /\ driver.at = "loop"
  BY AdvanceFrom DEF SweepInv, SweepSpots
<1>2. InFlight = {}
  BY <1>1, NothingInFlight DEF Resting, CallSpots, AbortSpots
<1> QED
  BY <1>1, <1>2, RepairedHas

LEMMA OpenStays ==
  ASSUME NEW b, OpenTarget(b), UNCHANGED <<calls, failure, resumed>>,
         b \in DOMAIN branches', branches'[b] = branches[b]
  PROVE  OpenTarget(b)'
BY DEF OpenTarget, ActiveBranches, CallsOn, NextSlot, Terminal, Deferred, Halted, ContextExhausted, FailureOf

LEMMA OpenAtDriver ==
  ASSUME NEW b, OpenTarget(b)', driver'.branch = b
  PROVE  OpenTarget(driver.branch)'
BY DEF OpenTarget

LEMMA QuietInvStep ==
  ASSUME OrchInv, OrchInv', SweepInv, RevInv, FlightInv, RetiredInv, HistoryInv, DispatchInv, QuietInv,
         [OrchNext]_orchVars
  PROVE  QuietInv'
<1> DEFINE Quiet == {"check", "fork", "forked"}
<1> SUFFICES ASSUME driver'.at \in Quiet PROVE QuietInv'
  BY DEF QuietInv
<1>0. HasCapacity' => HasCapacity
  BY StepLegal, CapacityGone DEF OrchInv, RouteInv
<1>1. CASE Stays
  <2>1. driver' = driver /\ UNCHANGED <<calls, failure, resumed, consumed, actions, branches>>
    BY <1>1 DEF Stays, vars, facets
  <2>2. Orphans' = Orphans /\ CallsOn("checker", <<driver.on>>)' = CallsOn("checker", <<driver.on>>)
    BY <2>1 DEF Orphans, CallsOn
  <2>3. driver.at = "check" /\ ~pause => ~pause'
    BY PauseMoves DEF PauseRun, RepairOrphan, EndResume, Repairing, Aligned, Ready
  <2>4. ASSUME driver'.at \in {"fork", "forked"}, HasCapacity' PROVE OpenTarget(driver.branch)'
    <3>0. PICK b : b = driver.branch
      OBVIOUS
    <3>1. OpenTarget(b)
      BY <1>0, <2>1, <2>4, <3>0 DEF QuietInv
    <3>2. b \in DOMAIN branches' /\ branches'[b] = branches[b] /\ OpenTarget(b)
      BY <2>1, <3>1 DEF OpenTarget, ActiveBranches
    <3>3. OpenTarget(b)'
      BY <2>1, <3>2, OpenStays
    <3> QED
      BY <2>1, <3>0, <3>3, OpenAtDriver
  <2> QED
    BY <1>0, <2>1, <2>2, <2>3, <2>4 DEF QuietInv
<1>2. CASE CreateAlternative \/ SuppressFork
  <2>1. /\ driver.at = "fork" /\ driver'.at = "forked"
        /\ UNCHANGED <<calls, failure, resumed, consumed, actions>>
    BY <1>2, ArrivedAt DEF CreateAlternative, SuppressFork, ChildBranchCreated, Spots, vars, facets
  <2>2. driver'.branch = driver.branch \/ ~HasCapacity
    BY <1>2 DEF CreateAlternative, SuppressFork, AfterFork, At
  <2>3. Orphans' = Orphans
    BY <2>1 DEF Orphans
  <2>4. ASSUME HasCapacity PROVE OpenTarget(driver.branch)'
    <3>0. PICK b : b = driver.branch
      OBVIOUS
    <3>1. OpenTarget(b) /\ b \in DOMAIN branches
      BY <2>1, <2>4, <3>0 DEF QuietInv, OpenTarget, ActiveBranches
    <3>2. b \in DOMAIN branches' /\ branches'[b] = branches[b]
      BY <1>2, <3>1 DEF CreateAlternative, SuppressFork, ChildBranchCreated, Put, vars
    <3>3. OpenTarget(b)'
      BY <2>1, <3>1, <3>2, OpenStays
    <3> QED
      BY <2>2, <2>4, <3>0, <3>3, OpenAtDriver
  <2> QED
    BY <1>0, <2>1, <2>3, <2>4 DEF QuietInv
<1>3. ASSUME NEW b \in ActiveBranches, BeginFork(b) PROVE QuietInv'
  <2>1. /\ driver'.at = "fork" /\ UNCHANGED <<calls, branches, actions, failure, resumed, consumed>>
    BY <1>3, ArrivedAt DEF BeginFork, vars, facets
  <2>2. driver'.branch = b /\ Advancing(b)
    BY <1>3 DEF BeginFork, OrchInv, DriverInv, Fields
  <2>3. ASSUME HasCapacity PROVE Orphans' = {} /\ OpenTarget(driver.branch)'
    <3>1. Repaired /\ Orphans = {} /\ InFlight = {}
      BY <2>2, <2>3, DecidedQuiet
    <3>2. OpenTarget(b)
      BY <3>1, RepairedOpens
    <3>3. b \in DOMAIN branches' /\ branches'[b] = branches[b]
      BY <2>1 DEF ActiveBranches
    <3>4. OpenTarget(b)'
      BY <2>1, <3>2, <3>3, OpenStays
    <3> QED
      BY <2>1, <2>2, <3>1, <3>4, OpenAtDriver DEF Orphans
  <2> QED
    BY <1>0, <2>1, <2>2, <2>3 DEF QuietInv
<1>4. ASSUME NEW b \in ActiveBranches, RequestCheck(b) PROVE QuietInv'
  <2> DEFINE k == Fresh(Check, checks)
  <2>1. k \notin DOMAIN checks /\ Advancing(b) /\ HasCapacity
    BY <1>4, FreshMember, IdsAreNat DEF RequestCheck
  <2>2. /\ driver' = At("check", k, b) /\ UNCHANGED <<calls, actions, consumed, pause>>
    BY <1>4 DEF RequestCheck, CheckRequested, facets, store
  <2> HIDE DEF k
  <2>3. CallsOn("checker", <<k>>) = {} /\ ~pause /\ Orphans = {}
    BY <2>1, DecidedQuiet, NoCallsYet
  <2>4. driver'.at = "check" /\ driver'.on = k
    BY <2>2 DEF At
  <2> QED
    BY <2>2, <2>3, <2>4 DEF QuietInv, CallsOn, Orphans
<1>5. ~(ExpandAction \/ ReviseAction)
  BY ArrivedAt
<1> QED
  BY <1>1, <1>2, <1>3, <1>4, <1>5, Arrivals DEF Spots

(* What is true where a call is started.                                   *)
CheckerStarts(c, b, k) ==
  /\ Starting(c, "checker", <<k>>, b) /\ ~pause
  /\ k \in DOMAIN checks /\ checks[k].state = "requested"
  /\ CallsOn("checker", <<k>>) = {} \/ Unclosed = {}
WriterStarted(c, b) ==
  /\ Starting(c, "writer", <<b, NextSlot(b)>>, b) /\ OpenTarget(b)
  /\ driver.at = "forked" \/ ~pause

LEMMA StartsQuiet ==
  ASSUME OrchInv, SweepInv, RevInv, FlightInv, RetiredInv, HistoryInv, QuietInv, [OrchNext]_orchVars
  PROVE  \/ DOMAIN calls' = DOMAIN calls
         \/ /\ InFlight = {} /\ Orphans = {}
            /\ \/ \E c, b, k : CheckerStarts(c, b, k)
               \/ \E c, b : WriterStarted(c, b)
<1> DEFINE Goal == /\ InFlight = {} /\ Orphans = {}
                   /\ \/ \E c, b, k : CheckerStarts(c, b, k)
                      \/ \E c, b : WriterStarted(c, b)
<1>1. ASSUME CallNewCheck PROVE Goal
  <2>1. PICK c : Starting(c, "checker", <<driver.on>>, driver.branch)
    BY <1>1, StartIs DEF CallNewCheck
  <2>2. HasCapacity /\ driver.at = "check" /\ TargetOk("checker", <<driver.on>>)
    BY <1>1, <2>1 DEF CallNewCheck, Starting
  <2>3. Orphans = {} /\ ~pause /\ CallsOn("checker", <<driver.on>>) = {} /\ InFlight = {}
    BY <2>2, NothingInFlight DEF QuietInv, Resting, CallSpots, AbortSpots
  <2>4. driver.on \in DOMAIN checks /\ checks[driver.on].state = "requested"
    <3>1. PICK k \in DOMAIN checks : <<driver.on>> = <<k>> /\ checks[k].state = "requested"
      BY <2>2 DEF TargetOk
    <3>2. <<driver.on>>[1] = <<k>>[1]
      BY <3>1
    <3> QED
      BY <3>1, <3>2
  <2>5. CheckerStarts(c, driver.branch, driver.on)
    BY <2>1, <2>3, <2>4 DEF CheckerStarts
  <2> QED
    BY <2>3, <2>5
<1>2. ASSUME WriteAfterFork PROVE Goal
  <2> DEFINE b == driver.branch
  <2>1. PICK c : Starting(c, "writer", <<b, NextSlot(b)>>, b)
    BY <1>2, StartIs DEF WriteAfterFork
  <2>2. HasCapacity /\ driver.at = "forked"
    BY <1>2, <2>1 DEF WriteAfterFork, Starting
  <2>3. Orphans = {} /\ OpenTarget(b) /\ InFlight = {}
    BY <2>2, NothingInFlight DEF QuietInv, Resting, CallSpots, AbortSpots
  <2>4. WriterStarted(c, b)
    BY <2>1, <2>2, <2>3 DEF WriterStarted
  <2> QED
    BY <2>3, <2>4
<1>3. ASSUME NEW b \in ActiveBranches, CallOpenCheck(b) PROVE Goal
  <2> DEFINE k == CHOOSE k \in RequiredOn(Tip(b)) : TRUE
  <2>1. PICK c : Starting(c, "checker", <<k>>, b)
    BY <1>3, StartIs DEF CallOpenCheck
  <2> HIDE DEF k
  <2>2. HasCapacity /\ Advancing(b) /\ TargetOk("checker", <<k>>)
    BY <1>3, <2>1 DEF CallOpenCheck, Starting
  <2>3. Orphans = {} /\ ~pause /\ Unclosed = {} /\ InFlight = {}
    BY <2>2, DecidedQuiet
  <2>4. k \in DOMAIN checks /\ checks[k].state = "requested"
    <3>1. PICK x \in DOMAIN checks : <<k>> = <<x>> /\ checks[x].state = "requested"
      BY <2>2 DEF TargetOk
    <3>2. <<k>>[1] = <<x>>[1]
      BY <3>1
    <3> QED
      BY <3>1, <3>2
  <2>5. CheckerStarts(c, b, k)
    BY <2>1, <2>3, <2>4 DEF CheckerStarts
  <2> QED
    BY <2>3, <2>5
<1>4. ASSUME NEW b \in ActiveBranches, CallWriter(b) PROVE Goal
  <2>1. PICK c : Starting(c, "writer", <<b, NextSlot(b)>>, b)
    BY <1>4, StartIs DEF CallWriter
  <2>2. HasCapacity /\ Advancing(b)
    BY <1>4, <2>1 DEF CallWriter, Starting
  <2>3. Repaired /\ Orphans = {} /\ ~pause /\ InFlight = {}
    BY <2>2, DecidedQuiet
  <2>4. WriterStarted(c, b)
    BY <2>1, <2>3, RepairedOpens DEF WriterStarted
  <2> QED
    BY <2>3, <2>4
<1> QED
  BY <1>1, <1>2, <1>3, <1>4, Starts

(* A call is started for a target all of whose calls are spent.            *)
LEMMA StartAfter ==
  ASSUME HistoryInv, OrchInv, FailureInv, [OrchNext]_orchVars,
         NEW c, NEW role, NEW target, NEW b, Starting(c, role, target, b),
         \A x \in CallsOn(role, target) : Spent(x)
  PROVE  HistoryInv'
<1>0. CallsKept /\ TypeOK /\ [Next]_vars
  BY StepLegal, CallsKeptStep DEF OrchInv, RouteInv
<1>1. ASSUME NEW x \in DOMAIN calls, Spent(x) PROVE Spent(x)'
  <2>1. calls'[x].role = calls[x].role
    BY <1>0 DEF CallsKept
  <2> QED
    BY <1>0, <1>1, <2>1, SpentStays DEF Spent
<1> SUFFICES ASSUME NEW c1 \in DOMAIN calls', NEW c2 \in DOMAIN calls', c1 < c2, c2 \in Siblings(c1)'
             PROVE  Spent(c1)'
  BY DEF HistoryInv
<1>2. c1 # c
  <2> SUFFICES ASSUME c1 = c PROVE FALSE
    OBVIOUS
  <2>0. DOMAIN calls \subseteq Nat /\ c \in Nat
    BY <1>0, IdsAreNat DEF TypeOK, Table, Starting
  <2>1. c2 \in DOMAIN calls
    BY <2>0 DEF Starting
  <2>2. c2 < c
    BY <2>1 DEF OrchInv, OrderInv, Starting
  <2> QED
    BY <2>0, <2>1, <2>2
<1>3. c1 \in DOMAIN calls
  BY <1>2 DEF Starting
<1>4. calls'[c2].role = calls[c1].role /\ calls'[c2].target = calls[c1].target
  BY <1>0, <1>3 DEF Siblings, CallsOn, CallsKept
<1>5. CASE c2 = c
  <2>1. c1 \in CallsOn(role, target)
    BY <1>3, <1>4, <1>5 DEF CallsOn, Starting
  <2> QED
    BY <1>1, <1>3, <2>1
<1>6. CASE c2 \in DOMAIN calls
  <2>1. c2 \in Siblings(c1)
    BY <1>0, <1>4, <1>6 DEF Siblings, CallsOn, CallsKept
  <2> QED
    BY <1>1, <1>3, <1>6, <2>1 DEF HistoryInv
<1> QED
  BY <1>5, <1>6 DEF Starting

LEMMA HistorySame ==
  ASSUME HistoryInv, OrchInv, FailureInv, [OrchNext]_orchVars, DOMAIN calls' = DOMAIN calls
  PROVE  HistoryInv'
<1>0. CallsKept /\ TypeOK /\ [Next]_vars
  BY StepLegal, CallsKeptStep DEF OrchInv, RouteInv
<1> SUFFICES ASSUME NEW c1 \in DOMAIN calls', NEW c2 \in DOMAIN calls', c1 < c2, c2 \in Siblings(c1)'
             PROVE  Spent(c1)'
  BY DEF HistoryInv
<1>1. c2 \in Siblings(c1) /\ calls'[c1].role = calls[c1].role
  BY <1>0 DEF Siblings, CallsOn, CallsKept
<1>2. Spent(c1)
  BY <1>1 DEF HistoryInv
<1> QED
  BY <1>0, <1>1, <1>2, SpentStays DEF Spent

(* An open check is called for again only after a failure.                 *)
LEMMA CheckerSpent ==
  ASSUME OrchInv, HistoryInv, FailureInv, InFlight = {}, Unclosed = {},
         NEW k \in DOMAIN checks, checks[k].state = "requested", NEW x \in CallsOn("checker", <<k>>)
  PROVE  Spent(x)
<1>0. x \in DOMAIN calls /\ calls[x].role = "checker" /\ calls[x].target = <<k>> /\ Terminal(x)
  BY DEF CallsOn, InFlight, Terminal
<1>1. CASE \E y \in CallsOn("checker", <<k>>) : x < y
  <2>1. PICK y \in CallsOn("checker", <<k>>) : x < y
    BY <1>1
  <2>2. y \in DOMAIN calls /\ y \in Siblings(x)
    BY <1>0, <2>1 DEF CallsOn, Siblings
  <2> QED
    BY <1>0, <2>1, <2>2 DEF HistoryInv
<1>2. CASE \A y \in CallsOn("checker", <<k>>) : ~(x < y)
  <2>1. CallsOn("checker", <<k>>) \subseteq Nat
    BY IdsAreNat DEF CallsOn, OrchInv, RouteInv, TypeOK, Table
  <2>2. LatestOn("checker", <<k>>) = x
    BY <1>2, <2>1, LatestIs DEF LatestOn
  <2>3. MayRetry(x, Cardinality(Siblings(x)))
    BY <1>0, <2>2 DEF Unclosed
  <2>4. x \in DOMAIN failure
    BY <2>3 DEF MayRetry, FailureOf
  <2>5. calls[x].state = "failed"
    BY <2>4 DEF FailureInv
  <2> QED
    BY <1>0, <2>5 DEF Spent, Deferred
<1> QED
  BY <1>1, <1>2

LEMMA HistoryInvStep ==
  ASSUME OrchInv, SweepInv, RevInv, FlightInv, RetiredInv, HistoryInv, FailureInv, QuietInv, [OrchNext]_orchVars
  PROVE  HistoryInv'
<1>1. ASSUME InFlight = {}, NEW c, NEW b, NEW k, CheckerStarts(c, b, k) PROVE HistoryInv'
  <2>1. k \in DOMAIN checks /\ checks[k].state = "requested" /\ Starting(c, "checker", <<k>>, b)
    BY <1>1 DEF CheckerStarts
  <2>2. CASE CallsOn("checker", <<k>>) = {}
    BY <2>1, <2>2, StartAfter
  <2>3. CASE Unclosed = {}
    <3>1. \A x \in CallsOn("checker", <<k>>) : Spent(x)
      BY <1>1, <2>1, <2>3, CheckerSpent
    <3> QED
      BY <2>1, <3>1, StartAfter
  <2> QED
    BY <1>1, <2>2, <2>3 DEF CheckerStarts
<1>2. ASSUME NEW c, NEW b, WriterStarted(c, b) PROVE HistoryInv'
  <2>1. Starting(c, "writer", <<b, NextSlot(b)>>, b) /\ OpenTarget(b)
    BY <1>2 DEF WriterStarted
  <2>2. \A x \in CallsOn("writer", <<b, NextSlot(b)>>) : Spent(x)
    BY <2>1 DEF OpenTarget, Spent
  <2> QED
    BY <2>1, <2>2, StartAfter
<1> QED
  BY <1>1, <1>2, StartsQuiet, HistorySame

(***************************************************************************)
(* A check is called for no more often than its retries allow.             *)
(***************************************************************************)

LEMMA GreatestMember ==
  ASSUME NEW S, S \subseteq Nat, IsFiniteSet(S), S # {}
  PROVE  \E x \in S : \A y \in S : x >= y
<1> DEFINE Bad(T) == T \subseteq Nat /\ IsFiniteSet(T) /\ T # {} /\ ~(\E x \in T : \A y \in T : x >= y)
<1> DEFINE Sizes == {n \in Nat : \E T \in SUBSET Nat : Bad(T) /\ Cardinality(T) = n}
<1> SUFFICES ASSUME Bad(S) PROVE FALSE
  OBVIOUS
<1>1. Sizes # {}
  BY FS_CardinalityType
<1>2. PICK n \in Sizes : \A m \in Sizes : n <= m
  BY <1>1, LeastMember
<1>3. PICK T \in SUBSET Nat : Bad(T) /\ Cardinality(T) = n
  OBVIOUS
<1>4. PICK x \in T : TRUE
  BY <1>3
<1>5. IsFiniteSet(T \ {x}) /\ Cardinality(T \ {x}) = n - 1 /\ n \in Nat
  BY <1>3, <1>4, FS_RemoveElement
<1>6. T \ {x} # {}
  <2> SUFFICES ASSUME T = {x} PROVE FALSE
    BY <1>4
  <2>1. x \in Nat /\ x >= x
    BY <1>4
  <2> QED
    BY <1>3, <2>1
<1>7. ~Bad(T \ {x})
  <2> SUFFICES ASSUME Bad(T \ {x}) PROVE FALSE
    OBVIOUS
  <2>1. n - 1 \in Nat
    BY <1>5, FS_CardinalityType
  <2>2. n - 1 \in Sizes
    BY <1>5, <2>1
  <2> QED
    BY <1>2, <1>5, <2>1, <2>2
<1>8. PICK y \in T \ {x} : \A z \in T \ {x} : y >= z
  BY <1>5, <1>6, <1>7
<1>9. \E g \in {x, y} : \A z \in T : g >= z
  BY <1>4, <1>8
<1> QED
  BY <1>3, <1>4, <1>8, <1>9

LEMMA LatestMember ==
  ASSUME NEW S, S \subseteq Nat, IsFiniteSet(S), S # {}
  PROVE  Latest(S) \in S
BY GreatestMember DEF Latest

Excused(k) == \E c \in CallsOn("checker", <<k>>) : ContextExhausted(c)
Allowed(k) == Cardinality(CallsOn("checker", <<k>>)) <= Retries + 1 + IF Excused(k) THEN 1 ELSE 0

(* What is retried has a call left to it.                                  *)
LEMMA OneMore ==
  ASSUME OrchInv, NEW k \in DOMAIN checks, checks[k].state = "requested", InFlight = {},
         CallsOn("checker", <<k>>) = {} \/ Unclosed = {}
  PROVE  Cardinality(CallsOn("checker", <<k>>)) + 1 <= Retries + 1 + IF Excused(k) THEN 1 ELSE 0
<1> DEFINE cs == CallsOn("checker", <<k>>)
<1>0. cs \subseteq Nat /\ IsFiniteSet(cs) /\ Cardinality(cs) \in Nat /\ Retries \in Nat
  <2>1. cs \subseteq Call
    BY DEF CallsOn, OrchInv, RouteInv, TypeOK, Table
  <2> QED
    BY <2>1, IdsAreNat, FiniteAssumption, FS_Subset, FS_CardinalityType, OrchestratorAssumption
<1>1. CASE cs = {}
  <2>1. Cardinality(cs) = 0
    BY <1>1, FS_EmptySet
  <2> QED
    BY <1>0, <2>1
<1>2. CASE cs # {} /\ Unclosed = {}
  <2>1. PICK c : c = LatestOn("checker", <<k>>)
    OBVIOUS
  <2>2. c \in cs
    BY <1>0, <1>2, <2>1, LatestMember DEF LatestOn
  <2>3. c \in DOMAIN calls /\ Siblings(c) = cs
    BY <2>2 DEF CallsOn, Siblings
  <2>4. Terminal(c)
    BY <2>3 DEF InFlight, Terminal
  <2>5. MayRetry(c, Cardinality(Siblings(c)))
    BY <1>2, <2>1, <2>4 DEF Unclosed
  <2>6. Cardinality(cs) - Excuse(c) <= Retries
    BY <2>3, <2>5 DEF MayRetry
  <2>7. Excuse(c) = IF Excused(k) THEN 1 ELSE 0
    BY <2>3 DEF Excuse, Excused
  <2> QED
    BY <1>0, <2>6, <2>7
<1> QED
  BY <1>1, <1>2

LEMMA AllowedSame ==
  ASSUME OrchInv, FailureInv, [OrchNext]_orchVars, NEW k, Allowed(k),
         CallsOn("checker", <<k>>)' = CallsOn("checker", <<k>>)
  PROVE  Allowed(k)'
<1>0. TypeOK /\ [Next]_vars
  BY StepLegal DEF OrchInv, RouteInv
<1>1. Excused(k) => Excused(k)'
  BY <1>0, SpentStays DEF Excused, CallsOn
<1>2. Cardinality(CallsOn("checker", <<k>>)) \in Nat /\ Retries \in Nat
  BY <1>0, FiniteAssumption, FS_Subset, FS_CardinalityType, OrchestratorAssumption DEF CallsOn, TypeOK, Table
<1> QED
  BY <1>1, <1>2 DEF Allowed

LEMMA RetryBudgetStep ==
  ASSUME OrchInv, SweepInv, RevInv, FlightInv, RetiredInv, HistoryInv, FailureInv, DispatchInv, QuietInv,
         RetryBudget, [OrchNext]_orchVars
  PROVE  RetryBudget'
<1>0. TypeOK /\ [Next]_vars /\ CallsKept /\ Retries \in Nat
  BY StepLegal, CallsKeptStep, OrchestratorAssumption DEF OrchInv, RouteInv
<1> SUFFICES ASSUME NEW k \in DOMAIN checks' PROVE Allowed(k)'
  BY DEF RetryBudget, Allowed, Excused
<1>1. CASE k \notin DOMAIN checks
  <2>1. CallsOn("checker", <<k>>) = {}
    BY <1>1, NoCallsYet
  <2>2. DOMAIN calls' = DOMAIN calls
    BY <1>1, NewCalls DEF Starting
  <2>3. CallsOn("checker", <<k>>)' = {}
    BY <1>0, <2>1, <2>2 DEF CallsOn, CallsKept
  <2>4. Cardinality({}) = 0
    BY FS_EmptySet
  <2> QED
    BY <1>0, <2>3, <2>4 DEF Allowed
<1>a. ASSUME k \in DOMAIN checks, CallsOn("checker", <<k>>)' = CallsOn("checker", <<k>>) PROVE Allowed(k)'
  <2>1. Allowed(k)
    BY <1>a DEF RetryBudget, Allowed, Excused
  <2> QED
    BY <1>a, <2>1, AllowedSame
<1>2. CASE k \in DOMAIN checks /\ DOMAIN calls' = DOMAIN calls
  BY <1>0, <1>2, <1>a DEF CallsOn, CallsKept
<1>3. ASSUME k \in DOMAIN checks, NEW c, NEW b, WriterStarted(c, b) PROVE Allowed(k)'
  <2>1. CallsOn("checker", <<k>>)' = CallsOn("checker", <<k>>)
    BY <1>3 DEF WriterStarted, Starting, CallsOn
  <2> QED
    BY <1>3, <1>a, <2>1
<1>4. ASSUME k \in DOMAIN checks, InFlight = {}, NEW c, NEW b, NEW j, CheckerStarts(c, b, j) PROVE Allowed(k)'
  <2>0. /\ Starting(c, "checker", <<j>>, b) /\ j \in DOMAIN checks /\ checks[j].state = "requested"
        /\ CallsOn("checker", <<j>>) = {} \/ Unclosed = {}
    BY <1>4 DEF CheckerStarts
  <2>1. CASE j # k
    <3>1. <<j>> # <<k>>
      <4> SUFFICES ASSUME <<j>> = <<k>> PROVE FALSE
        OBVIOUS
      <4>1. <<j>>[1] = <<k>>[1]
        OBVIOUS
      <4> QED
        BY <2>1, <4>1
    <3>2. CallsOn("checker", <<k>>)' = CallsOn("checker", <<k>>)
      BY <2>0, <3>1 DEF Starting, CallsOn
    <3> QED
      BY <1>4, <1>a, <3>2
  <2>2. CASE j = k
    <3> DEFINE cs == CallsOn("checker", <<k>>)
    <3>1. cs' = cs \cup {c} /\ c \notin cs
      BY <2>0, <2>2 DEF Starting, CallsOn
    <3>2. IsFiniteSet(cs) /\ Cardinality(cs) \in Nat
      BY <1>0, FiniteAssumption, FS_Subset, FS_CardinalityType DEF CallsOn, TypeOK, Table
    <3>3. Cardinality(cs') = Cardinality(cs) + 1
      BY <3>1, <3>2, FS_AddElement
    <3>4. Cardinality(cs) + 1 <= Retries + 1 + IF Excused(k) THEN 1 ELSE 0
      BY <1>4, <2>0, <2>2, OneMore
    <3>5. Excused(k) => Excused(k)'
      BY <1>0, <3>1, SpentStays DEF Excused, CallsOn
    <3> QED
      BY <1>0, <3>2, <3>3, <3>4, <3>5 DEF Allowed
  <2> QED
    BY <2>1, <2>2
<1> QED
  BY <1>1, <1>2, <1>3, <1>4, StartsQuiet

(* What every start of a call rests on.                                    *)
CallInv ==
  /\ OrchInv /\ BranchInv
  /\ RevInv /\ FlightInv /\ TodoInv /\ RetiredInv /\ FailureInv /\ DispatchInv
  /\ HistoryInv /\ QuietInv /\ RetryBudget

LEMMA CallInvStep == ASSUME CallInv, [OrchNext]_orchVars PROVE CallInv'
<1>0. OrchInv /\ BranchInv /\ RevInv /\ TypeOK /\ SweepInv
  BY DEF CallInv, OrchInv, RouteInv, BranchInv
<1>1. OrchInv' /\ BranchInv' /\ [Next]_vars
  BY <1>0, OrchInvStep, BranchInvStep, StepLegal
<1>2. RevInv'
  BY <1>0, <1>1, RevInvStep
<1>3. FlightInv' /\ TodoInv' /\ NoReturn
  BY <1>0, FlightInvStep, TodoInvStep, NoReturnStep DEF CallInv
<1>4. RetiredInv'
  BY <1>0, <1>1, <1>2, <1>3, RetiredInvStep DEF CallInv
<1>5. FailureInv' /\ DispatchInv'
  BY <1>0, <1>1, FailureInvStep, DispatchInvStep DEF CallInv
<1>6. QuietInv'
  BY <1>0, <1>1, QuietInvStep DEF CallInv
<1>7. HistoryInv' /\ RetryBudget'
  BY <1>0, HistoryInvStep, RetryBudgetStep DEF CallInv
<1> QED
  BY <1>1, <1>2, <1>3, <1>4, <1>5, <1>6, <1>7 DEF CallInv

LEMMA CallInvInit == OrchInit => CallInv
<1> SUFFICES ASSUME OrchInit PROVE CallInv
  OBVIOUS
<1>0. OrchInv /\ BranchInv /\ RevInv
  BY OrchInvInit, BranchInvInit, RevInvInit DEF OrchInit
<1>1. /\ DOMAIN calls = {} /\ DOMAIN checks = {} /\ DOMAIN steps = {} /\ DOMAIN failure = {}
      /\ driver.at = "new" /\ phase = "none" /\ manifest = "ok"
  BY DEF OrchInit, Init, At
<1>2. InFlight = {}
  BY <1>1 DEF InFlight
<1>3. FlightInv
  BY <1>1, <1>2 DEF FlightInv, OneInFlight, HeldActive, OnFlight, LeftInFlight, PhaseOk, Phases, CallSpots, AbortSpots
<1>4. TodoInv /\ RetiredInv /\ FailureInv /\ DispatchInv
  BY <1>1 DEF TodoInv, RetiredInv, FailureInv, DispatchInv
<1>5. HistoryInv /\ QuietInv /\ RetryBudget
  BY <1>1 DEF HistoryInv, QuietInv, RetryBudget
<1> QED
  BY <1>0, <1>3, <1>4, <1>5 DEF CallInv

LEMMA CallInvariant == OrchSpec => []CallInv
BY CallInvInit, CallInvStep, PTL DEF OrchSpec

(* No call that an invariant state starts was asked to wait.               *)
LEMMA Unbidden ==
  ASSUME CallInv, [OrchNext]_orchVars
  PROVE  FailureWaits /\ PauseStartsNoCall /\ EditComesFirst
<1> DEFINE Goal == FailureWaits /\ PauseStartsNoCall /\ EditComesFirst
<1>1. CASE DOMAIN calls' = DOMAIN calls
  BY <1>1 DEF FailureWaits, PauseStartsNoCall, EditComesFirst
<1>2. Orphans = {} => EditComesFirst
  BY DEF Orphans, Edits, EditComesFirst
<1>3. ASSUME NEW c, NEW b, NEW k, CheckerStarts(c, b, k) PROVE FailureWaits /\ PauseStartsNoCall
  BY <1>3 DEF CheckerStarts, Starting, FailureWaits, PauseStartsNoCall
<1>4. ASSUME NEW c, NEW b, WriterStarted(c, b) PROVE FailureWaits /\ PauseStartsNoCall
  <2>1. /\ DOMAIN calls' = DOMAIN calls \cup {c} /\ calls'[c].target = <<b, NextSlot(b)>>
        /\ OpenTarget(b)
    BY <1>4 DEF WriterStarted, Starting
  <2>2. FailureWaits
    BY <2>1 DEF FailureWaits, OpenTarget, Halted
  <2>3. PauseStartsNoCall
    BY <1>4 DEF WriterStarted, PauseStartsNoCall
  <2> QED
    BY <2>2, <2>3
<1>5. OrchInv /\ SweepInv /\ RevInv /\ FlightInv /\ RetiredInv /\ HistoryInv /\ QuietInv
  BY DEF CallInv, BranchInv
<1> QED
  BY <1>1, <1>2, <1>3, <1>4, <1>5, StartsQuiet

(***************************************************************************)
(* The theorems.                                                           *)
(***************************************************************************)

(* Whatever the driver appends, through commands, provider failures and    *)
(* crashes, is a record the replay engine accepts event by event.          *)
THEOREM DriverWritesRecords == OrchSpec => Spec
<1>1. OrchInit => Init
  BY DEF OrchInit
<1> QED
  BY <1>1, OrchInvariant, StepLegal, PTL DEF OrchSpec, Spec

(* So the theorems about records hold of every run.                        *)
THEOREM RunsKeepRecordsSound ==
  OrchSpec => /\ [](TypeOK /\ RouteTree /\ CandidatesSound /\ RevisionsSound /\ InheritanceSound)
              /\ RoutesOnlyGrow /\ CandidateFinal
BY DriverWritesRecords, TypeCorrect, RoutesFormATree, CandidatesStaySound, RevisionsStaySound,
   InheritanceStaysSound, RoutesGrow, CandidatesAreFinal, PTL

(* The attempt number the control store holds for a call is its rank among *)
(* the calls on its target, crash or not: the live decision to retry, made *)
(* from the store, and the one made from the record agree.                 *)
THEOREM AttemptsMatchRecord == OrchSpec => []AttemptsAgree
<1>1. OrchInv => AttemptsAgree
  BY DEF OrchInv, MarkInv
<1> QED
  BY <1>1, OrchInvariant, PTL

(* Alternatives and human edits open their branch once, and a human's step *)
(* is never asked of the model (BranchesSound).                            *)
THEOREM BranchesStaySound == OrchSpec => []BranchesSound
<1>1. BranchInv => BranchesSound
  BY DEF BranchInv, BornInv, BranchesSound
<1> QED
  BY <1>1, BranchInvariant, PTL

(* Through crashes, refusals and failures of the provider in any order, a  *)
(* target whose call finished gets no other one, and a check is called for *)
(* no more often than its retries and one excuse allow (CallsCounted).     *)
THEOREM CallsStayCounted == OrchSpec => []CallsCounted
<1>1. CallInv => CallsCounted
  BY DEF CallInv, HistoryInv, Spent, Deferred, NoRerun, CallsCounted
<1> QED
  BY <1>1, CallInvariant, PTL

(* No call is started past a requested pause, a failed or aborted call     *)
(* that waits for its user, or an edit that has no effect yet              *)
(* (NoCallUnbidden).                                                       *)
THEOREM NoCallStartsUnbidden == OrchSpec => NoCallUnbidden
<1>1. CallInv /\ [OrchNext]_orchVars => [FailureWaits /\ PauseStartsNoCall /\ EditComesFirst]_orchVars
  BY Unbidden
<1> QED
  BY <1>1, CallInvariant, PTL DEF OrchSpec, NoCallUnbidden
=============================================================================
