----------------------------- MODULE Orchestrator -----------------------------
(***************************************************************************)
(* DerivationOrchestrator (src/derivation_runtime/orchestrator.py) driving *)
(* one Record 1.1 run, with the rows of the ControlStore it depends on,    *)
(* the commands of RuntimeDerivationService that start, pause, resume and  *)
(* interrupt it, and crashes of the process between any two durable        *)
(* writes.                                                                 *)
(*                                                                         *)
(* Everything the driver appends is an action of RecordContract, so a      *)
(* driver that wants an event the replay engine refuses cannot take its    *)
(* step.  One action is one durable write (an event, or a control row) or  *)
(* the answer of one await: the driver is the only task that writes, so    *)
(* commands interleave with it at its awaits and a crash anywhere.         *)
(*                                                                         *)
(* Left out: formula gates (module FormulaGate), judge calls (no Record    *)
(* 1.1 run requests one), branch session bookmarks, prompts.               *)
(***************************************************************************)
EXTENDS RecordContract

CONSTANTS
    CheckerOn,    \* checker_enabled
    Retries,      \* retries
    MaxRepairs,   \* max_local_repairs
    (* Model bounds: what models, provider and user do. *)
    Decisions,    \* control decisions a writer takes
    Opinions,     \* verdicts a checker reaches
    Failures,     \* kinds of provider failure: "retryable", "fatal", "context"
    Partials,     \* partial writer output a failed or interrupted turn leaves
    MaxCrashes,   \* crashes of the process
    Commands,     \* the user's: "pause", "resume", "interrupt", "expand", "revise"
    MaxCommands   \* how many of them

ASSUME OrchestratorAssumption ==
    /\ V11 /\ MaxRaw = 1
    /\ CheckerOn \in BOOLEAN /\ Retries \in Nat /\ MaxRepairs \in Nat
    /\ Branch \cup Step \cup Call \cup Check \cup Candidate \cup Action \subseteq Nat \ {0}
    /\ Partials \subseteq Content \cup {None} /\ Opinions \subseteq CheckVerdicts \ {"instrument_failure"}
    /\ MaxCrashes \in Nat /\ MaxCommands \in Nat
    /\ Decisions \subseteq {"continue", "fork", "complete", "blocked", "revise"}
    /\ {"pause_branch", "resume_branch", "abort_model_call", "set_direction", "revise_step"} \subseteq Kinds
    /\ {"human_pause", "human_resume", "writer_complete", "runtime_failure",
        "writer_blocked", "instrument_failure"} \subseteq Moves
    /\ Ends = {"finished", "failed", "aborted"}

VARIABLES
    (* Facts of the log that RecordContract does not tell apart. *)
    failure,      \* failed call -> kind of its failure
    consumed,     \* actions cited by a status change or an abort
    resumed,      \* terminal writer calls older than a human_resume of their branch
    (* The control store and the manifest, durable too. *)
    marks,        \* runtime_calls: call -> state, attempt, provider handle, branch
    stepMarks,    \* runtime_steps with a provider handle
    pause,        \* runtime_runs.pause_requested
    manifest,     \* "ok", "interrupted" or "error", as the run manifest has it
    (* The provider, outside the process. *)
    turn,         \* call -> its turn, once the provider accepted it
    (* The process. *)
    driver,       \* the run's driver task: where it stands, and on what
    live,         \* steps whose provider turn this process collected
    phase,        \* presentation_phase
    crashes, commands

facets == <<failure, consumed, resumed>>
store == <<marks, stepMarks, pause, manifest>>
process == <<live, phase>>
bounds == <<crashes, commands>>
orchVars == <<vars, facets, store, turn, driver, process, bounds>>

-----------------------------------------------------------------------------
(* Vocabulary. *)

Least(ids) == CHOOSE x \in ids : \A y \in ids : x <= y
Latest(ids) == CHOOSE x \in ids : \A y \in ids : x >= y

(* _next_id: identifiers are given out in increasing order, so their order *)
(* is the order of the events that registered them.  Left: a bound, that   *)
(* the instance has an identifier to give.                                 *)
Fresh(ids, table) == Least(ids \ DOMAIN table)
Left(ids, table) == ids \ DOMAIN table # {}

At(at, on, b) == [at |-> at, on |-> on, branch |-> b, todo |-> {}, back |-> "loop"]
Down == At("down", None, None)
Idle == At("idle", None, None)
Loop == At("loop", None, None)

HasCapacity == MaxCalls = 0 \/ Cardinality(DOMAIN calls) < MaxCalls
Room(b) == MaxActive = 0 \/ Cardinality(ActiveBranches \cup {b}) <= MaxActive

CallsOn(role, target) == {c \in DOMAIN calls : calls[c].role = role /\ calls[c].target = target}
Siblings(c) == CallsOn(calls[c].role, calls[c].target)
Terminal(c) == calls[c].state # "started"
TerminalWriters(b) ==
    {c \in DOMAIN calls : calls[c].role = "writer" /\ calls[c].target[1] = b /\ Terminal(c)}
FailureOf(c) == IF c \in DOMAIN failure THEN failure[c] ELSE "none"

(* A target may fail once for want of context room without being charged.  *)
ContextExhausted(c) == FailureOf(c) = "context" /\ calls[c].out = None
ExcuseEach(c) == Cardinality({x \in Siblings(c) : ContextExhausted(x)})
Excuse(c) == IF \E x \in Siblings(c) : ContextExhausted(x) THEN 1 ELSE 0
ContextRetryDue(c) ==
    ContextExhausted(c) /\ HasCapacity /\ \A x \in Siblings(c) \ {c} : ~ContextExhausted(x)

MayRetry(c, attempt) ==
    /\ FailureOf(c) \in {"retryable", "context"}
    /\ attempt - Excuse(c) <= Retries
    /\ HasCapacity

Tip(b) == branches[b].route[Len(branches[b].route)]
RequiredOn(s) == {k \in DOMAIN checks : checks[k].step = s /\ checks[k].required}
FailedChecks ==
    {k \in DOMAIN checks : checks[k].required /\ checks[k].verdict = "instrument_failure"}

(* _exhausted_revision_ids: replacements of the lineage of s newer than    *)
(* the last step on the route that replaced nothing.                       *)
RepairsOf(b, s) ==
    LET progress == {0} \cup {x \in Elems(branches[b].route) : steps[x].replaces = None}
        count[x \in DOMAIN steps] ==
          IF steps[x].replaces = None THEN 0
          ELSE count[steps[x].replaces] + IF x > Latest(progress) THEN 1 ELSE 0
    IN  count[s]
Exhausted(b, s) == RepairsOf(b, s) >= MaxRepairs

(* ReplayQuery.status: the phase the record alone implies.                 *)
QueryPhase ==
    LET status == {branches[b].status : b \in DOMAIN branches} IN
    IF "active" \in status
    THEN IF HasCapacity THEN "autonomous_exploration" ELSE "review_ready_due_to_cap"
    ELSE IF "paused" \in status
              \/ \E b \in DOMAIN branches :
                    branches[b].status = "parked" /\ branches[b].moved = "writer_blocked"
         THEN "paused" ELSE "review_ready"

ViewPhase ==
    IF manifest # "ok" THEN manifest ELSE IF phase # "none" THEN phase ELSE QueryPhase

(* Rows a merge of the record into the store adds or moves; a started call *)
(* keeps the row it has.                                                   *)
CallState(c) == IF Terminal(c) THEN calls[c].state ELSE "starting"
HomeBranch(c) ==
    IF calls[c].role = "writer" THEN calls[c].target[1] ELSE steps[checks[calls[c].target[1]].step].branch
MergedAsFirst ==
    [c \in DOMAIN calls |->
       IF c \in DOMAIN marks
       THEN [marks[c] EXCEPT !.state = IF Terminal(c) THEN calls[c].state ELSE @]
       ELSE [state |-> CallState(c), handle |-> FALSE, branch |-> HomeBranch(c), attempt |-> 1]]
Merged ==
    [c \in DOMAIN calls |->
       IF c \in DOMAIN marks
       THEN [marks[c] EXCEPT !.state = IF Terminal(c) THEN calls[c].state ELSE @]
       ELSE [state |-> CallState(c), handle |-> FALSE, branch |-> HomeBranch(c),
             attempt |-> Cardinality({x \in Siblings(c) : x <= c})]]

-----------------------------------------------------------------------------
(* Creating the run. *)

CreateRun ==
    /\ driver.at = "new"
    /\ RunCreated
    /\ driver' = At("root", None, None)
    /\ UNCHANGED <<facets, store, turn, process, bounds>>

CreateRoot ==
    /\ driver.at = "root" /\ Left(Branch, branches)
    /\ RootBranchCreated(Fresh(Branch, branches), "active")
    /\ driver' = Loop /\ phase' = "autonomous_exploration"
    /\ UNCHANGED <<facets, store, turn, live, bounds>>

-----------------------------------------------------------------------------
(* One model call, from its started event to its terminal one. *)

StartCall(role, target, b) ==
    /\ HasCapacity /\ Left(Call, calls)
    /\ ModelCallStarted(Fresh(Call, calls), role, target)
    /\ driver' = At("mark", Fresh(Call, calls), b)
    /\ UNCHANGED <<facets, store, turn, process, bounds>>

NextAttemptFromZero(c) == Cardinality({x \in DOMAIN marks : x \in Siblings(c)})
NextAttempt(c) == Cardinality({x \in DOMAIN marks : x \in Siblings(c)}) + 1

MarkCall ==
    /\ driver.at = "mark"
    /\ marks' = Put(marks, driver.on, [state |-> "starting", handle |-> FALSE,
                      branch |-> driver.branch, attempt |-> NextAttempt(driver.on)])
    /\ driver' = [driver EXCEPT !.at = "starting"]
    /\ UNCHANGED <<vars, facets, stepMarks, pause, manifest, turn, process, bounds>>

NoTurn == [status |-> "running", ctl |-> None, out |-> None, kind |-> None]

(* start_writer or start_checker answers with a handle, or fails.          *)
Attach ==
    /\ driver.at = "starting"
    /\ turn' = Put(turn, driver.on, NoTurn)
    /\ marks' = [marks EXCEPT ![driver.on].state = "running", ![driver.on].handle = TRUE]
    /\ driver' = [driver EXCEPT !.at = "running"]
    /\ UNCHANGED <<vars, facets, stepMarks, pause, manifest, process, bounds>>

StartRefused ==
    /\ driver.at = "starting"
    /\ \E kind \in Failures \ {"context"} :
          turn' = Put(turn, driver.on, [NoTurn EXCEPT !.status = "failed", !.kind = kind])
    /\ driver' = [driver EXCEPT !.at = "fail"]
    /\ UNCHANGED <<vars, facets, store, process, bounds>>

(* The controls a writer may answer with: a revision names a step of its   *)
(* route, and needs a branch identifier of the model.                      *)
Controls(b) ==
    [decision : Decisions \ {"revise"}, revise : {None}]
      \cup [decision : IF Branch \subseteq DOMAIN branches THEN {} ELSE Decisions \cap {"revise"},
            revise : Elems(branches[b].route)]

(* The provider finishes a turn, whether or not the process is up.  A      *)
(* checker answer whose quotes do not validate is a failure of its call.   *)
TurnEnds(c) ==
    /\ c \in InFlight \cap DOMAIN turn /\ turn[c].status = "running"
    /\ \/ /\ calls[c].role = "writer"
          /\ \E ctl \in Controls(calls[c].target[1]), out \in Content :
                turn' = [turn EXCEPT ![c] =
                           [status |-> "completed", ctl |-> ctl, out |-> out, kind |-> None]]
       \/ /\ calls[c].role = "checker"
          /\ \E verdict \in Opinions :
                turn' = [turn EXCEPT ![c] = [NoTurn EXCEPT !.status = "completed", !.kind = verdict]]
       \/ \E kind \in Failures, out \in Partials \cup {None} :
             /\ kind = "context" \/ calls[c].role = "checker" => out = None
             /\ turn' = [turn EXCEPT ![c] =
                           [NoTurn EXCEPT !.status = "failed", !.out = out, !.kind = kind]]
    /\ UNCHANGED <<vars, facets, store, driver, process, bounds>>

(* collect_writer or collect_checker returns or raises.                    *)
Collect ==
    /\ driver.at = "running"
    /\ turn[driver.on].status \in {"completed", "failed"}
    /\ driver' = [driver EXCEPT !.at = IF turn[driver.on].status = "completed" THEN "write" ELSE "fail"]
    /\ UNCHANGED <<vars, facets, store, turn, process, bounds>>

(* _ensure_writer_chunks: only the missing chunk is appended.              *)
WriteChunk ==
    /\ driver.at = "write" /\ calls[driver.on].role = "writer"
    /\ ~Terminal(driver.on) /\ calls[driver.on].raw = <<>>
    /\ ModelCallChunk(driver.on, turn[driver.on].ctl)
    /\ UNCHANGED <<facets, store, turn, driver, process, bounds>>

FinishCall ==
    /\ driver.at = "write" /\ ~Terminal(driver.on)
    /\ calls[driver.on].role = "writer" => calls[driver.on].raw # <<>>
    /\ ModelCallFinished(driver.on, turn[driver.on].out)
    /\ UNCHANGED <<facets, store, turn, driver, process, bounds>>

FailCall ==
    /\ driver.at = "fail" /\ ~Terminal(driver.on)
    /\ ModelCallFailed(driver.on, turn[driver.on].out)
    /\ failure' = Put(failure, driver.on,
                      IF turn[driver.on].status = "interrupted" THEN "retryable" ELSE turn[driver.on].kind)
    /\ UNCHANGED <<consumed, resumed, store, turn, driver, process, bounds>>

(* finish_call, and _align_terminal_control_calls at the top of drive():   *)
(* the control row follows the record.                                     *)
InMarksRunning(c) == c \in DOMAIN marks /\ marks[c].state = "running"
InMarks(c) == c \in DOMAIN marks /\ marks[c].state \in {"starting", "running"}
ToAlign ==
    CASE driver.at \in {"write", "fail", "aborting"} -> {driver.on}
      [] driver.at = "loop" -> {c \in DOMAIN calls : Terminal(c)}
      [] OTHER -> {}

CloseMark ==
    /\ \E c \in ToAlign :
          /\ Terminal(c) /\ InMarks(c)
          /\ marks' = [marks EXCEPT ![c].state = calls[c].state]
    /\ UNCHANGED <<vars, facets, stepMarks, pause, manifest, turn, driver, process, bounds>>

Recorded(c) == Terminal(c) /\ ~InMarks(c)

-----------------------------------------------------------------------------
(* What a finished or failed call means. *)

(* _complete_unchanged_route, _materialize_model_revision and the sealing  *)
(* of an ordinary step: the one event a finished writer call becomes.      *)
Unchanged(c, b) ==
    /\ HasControl(c, "complete") /\ branches[b].route # <<>>
    /\ WriterOutput(c) = steps[Tip(b)].content
Seals(c, b) == ~Unchanged(c, b) /\ ~HasControl(c, "revise")

Consume(c, b) ==
    LET s == Fresh(Step, steps)
        old == calls[c].raw[1].revise
    IN
    \/ Unchanged(c, b) /\ WriterRouteCompletion(b, c)
    \/ HasControl(c, "revise") /\ Exhausted(b, old) /\ ModelRevisionDeferred(c, old)
    \/ /\ HasControl(c, "revise") /\ ~Exhausted(b, old)
       /\ Left(Branch, branches) /\ Left(Step, steps)
       /\ ModelRevisionApplied(b, Fresh(Branch, branches), old, s, c)
    \/ Seals(c, b) /\ Left(Step, steps) /\ ModelStepSealed(s, b, None, c)

FinishWriter ==
    /\ driver.at = "write" /\ calls[driver.on].role = "writer" /\ Recorded(driver.on)
    /\ Consume(driver.on, driver.branch)
    /\ driver' = IF Seals(driver.on, driver.branch)
                 THEN At("bookmark", Fresh(Step, steps), driver.branch) ELSE Loop
    /\ UNCHANGED <<facets, store, turn, process, bounds>>

(* record_step: the sealed step's turn can be forked from now on.          *)
BookmarkStep ==
    /\ driver.at = "bookmark"
    /\ stepMarks' = stepMarks \cup {driver.on}
    /\ live' = live \cup {driver.on}
    /\ driver' = Loop
    /\ UNCHANGED <<vars, facets, marks, pause, manifest, turn, phase, bounds>>

FinishCheck ==
    /\ driver.at = "write" /\ calls[driver.on].role = "checker" /\ Recorded(driver.on)
    /\ CheckCompleted(calls[driver.on].target[1], driver.on, turn[driver.on].kind,
                      IF turn[driver.on].kind = "hard_defect" THEN {Task} ELSE {})
    /\ driver' = Loop
    /\ UNCHANGED <<facets, store, turn, process, bounds>>

(* _handle_call_failure, after the failed event and its row: the call may  *)
(* be retried, or its check is closed and its branch paused.               *)
RetriedLive(c) ==
    IF calls[c].role = "writer" THEN ContextRetryDue(c) ELSE MayRetry(c, marks[c].attempt)
CheckOf(c) == IF calls[c].role = "checker" THEN calls[c].target[1] ELSE None
CheckOpen(c) == calls[c].role = "checker" /\ checks[calls[c].target[1]].state = "requested"

LeaveForRetry ==
    /\ driver.at = "fail" /\ Recorded(driver.on) /\ RetriedLive(driver.on)
    /\ driver' = Loop
    /\ UNCHANGED <<vars, facets, store, turn, process, bounds>>

CloseFailedCheck ==
    /\ driver.at = "fail" /\ Recorded(driver.on) /\ ~RetriedLive(driver.on)
    /\ CheckOpen(driver.on)
    /\ CheckCompleted(CheckOf(driver.on), driver.on, "instrument_failure", {})
    /\ UNCHANGED <<facets, store, turn, driver, process, bounds>>

PauseFailedBranch ==
    /\ driver.at = "fail" /\ Recorded(driver.on) /\ ~CheckOpen(driver.on)
    /\ calls[driver.on].role = "writer" => ~RetriedLive(driver.on)
    /\ BranchStatusChanged(driver.branch, "paused", "runtime_failure", None,
                           CheckOf(driver.on), driver.on)
    /\ driver' = Loop
    /\ UNCHANGED <<facets, store, turn, process, bounds>>

-----------------------------------------------------------------------------
(* The top of drive(): _repair_record_prefix, one repair at a time, in its *)
(* order; each stage is reached when the stages before it find nothing.    *)

Ready == driver.at = "loop"
Misaligned == {c \in DOMAIN calls : Terminal(c) /\ (c \in DOMAIN marks => marks[c].state # calls[c].state)}
Aligned == Ready /\ Misaligned = {}
Repairing == Aligned /\ FailedChecks = {}

Orphans == DOMAIN actions \ consumed
NoOrphans == Repairing /\ Orphans = {}

(* Branches that a human revision opened and whose replacement is still to *)
(* be sealed, and the action that has it.                                  *)
HalfReplacedAtStart == {b \in DOMAIN branches : branches[b].reason = "human_revision" /\ branches[b].route = <<>>}
HalfReplaced ==
    {b \in DOMAIN branches :
       branches[b].reason = "human_revision" /\ Len(branches[b].route) = branches[b].inherited}
Replacement(b) ==
    {a \in consumed : /\ CitesAction(a, "revise_step", branches[b].anchor)
                      /\ \A s \in DOMAIN steps : steps[s].action # a}
AllReplaced == NoOrphans /\ HalfReplaced = {}

UnsealedOrdinary == {c \in DOMAIN calls : /\ FinishedWriter(c) /\ ~Materialized(c)
                                          /\ ~HasControl(c, "complete")}
Unsealed == {c \in DOMAIN calls : /\ FinishedWriter(c) /\ ~Materialized(c)
                                  /\ calls[c].disposition = None}
AllSealed == AllReplaced /\ Unsealed = {}

LatestOn(role, target) == Latest(CallsOn(role, target))
StrandedByFailure ==
    {b \in ActiveBranches :
       LET target == <<b, NextSlot(b)>>
           c == LatestOn("writer", target)
       IN  /\ CallsOn("writer", target) # {}
           /\ calls[c].state = "failed"
           /\ c \notin resumed /\ ~ContextRetryDue(c)}
(* Active branches whose next slot ends in a failed or aborted call that   *)
(* neither a resume nor the context rule lets the driver repeat.           *)
Stranded ==
    {b \in ActiveBranches :
       LET target == <<b, NextSlot(b)>>
           c == LatestOn("writer", target)
       IN  /\ CallsOn("writer", target) # {}
           /\ calls[c].state \in {"failed", "aborted"}
           /\ c \notin resumed /\ ~ContextRetryDue(c)}
NoneStranded == AllSealed /\ Stranded = {}

(* Requested checks whose last call is terminal and not to be retried.     *)
Unclosed ==
    {k \in DOMAIN checks :
       LET c == LatestOn("checker", <<k>>)
       IN  /\ checks[k].state = "requested"
           /\ CallsOn("checker", <<k>>) # {}
           /\ Terminal(c) /\ ~MayRetry(c, Cardinality(Siblings(c)))}
AllClosed == NoneStranded /\ Unclosed = {}

UndeclaredEligible ==
    {b \in DOMAIN branches : /\ branches[b].status = "completed"
                             /\ \A d \in DOMAIN candidates :
                                  candidates[d].branch = b => CandidateStatus(d) # "eligible"}
Undeclared ==
    {b \in DOMAIN branches : /\ branches[b].status = "completed"
                             /\ \A d \in DOMAIN candidates : candidates[d].branch # b}
RepairedUndeclared == AllClosed
Repaired == AllClosed /\ Undeclared = {}

(* A crash between a pause or resume action and its status change.         *)
RepairOrphan ==
    /\ Repairing /\ Orphans # {}
    /\ LET a == Least(Orphans)
           b == actions[a].target
       IN
       /\ \/ /\ actions[a].kind = "pause_branch" /\ branches[b].status = "active"
             /\ BranchStatusChanged(b, "paused", "human_pause", a, None, None)
             /\ pause' = TRUE /\ UNCHANGED resumed
          \/ /\ actions[a].kind = "resume_branch" /\ branches[b].status = "paused"
             /\ BranchStatusChanged(b, "active", "human_resume", a, None, None)
             /\ pause' = FALSE
             /\ resumed' = resumed \cup TerminalWriters(b)
       /\ consumed' = consumed \cup {a}
    /\ UNCHANGED <<failure, marks, stepMarks, manifest, turn, driver, process, bounds>>

RepairReplacement ==
    /\ NoOrphans /\ HalfReplaced # {} /\ Left(Step, steps)
    /\ LET b == Least(HalfReplaced)
       IN  /\ branches[b].status = "active"
           /\ \E a \in Replacement(b) : HumanStepSealed(Fresh(Step, steps), b, branches[b].anchor, a)
    /\ UNCHANGED <<facets, store, turn, driver, process, bounds>>

(* The next slot of an active branch, and no later call on it: the output  *)
(* may still be turned into the event it stands for.                       *)
Sealable(c) ==
    /\ c = Latest(Siblings(c))
    /\ calls[c].target[1] \in ActiveBranches
    /\ calls[c].target[2] = NextSlot(calls[c].target[1])

RepairFinishedWriter ==
    /\ AllReplaced /\ Unsealed # {}
    /\ LET c == Least(Unsealed)
       IN  Sealable(c) /\ Consume(c, calls[c].target[1])
    /\ UNCHANGED <<facets, store, turn, driver, process, bounds>>

RepairStranded ==
    /\ AllSealed /\ Stranded # {}
    /\ LET b == Least(Stranded)
       IN  BranchStatusChanged(b, "paused", "runtime_failure", None, None,
                               LatestOn("writer", <<b, NextSlot(b)>>))
    /\ UNCHANGED <<facets, store, turn, driver, process, bounds>>

RepairCheck ==
    /\ NoneStranded /\ Unclosed # {}
    /\ LET k == Least(Unclosed)
           c == LatestOn("checker", <<k>>)
           verdict == IF calls[c].state = "finished" THEN turn[c].kind ELSE "instrument_failure"
       IN  CheckCompleted(k, c, verdict, IF verdict = "hard_defect" THEN {Task} ELSE {})
    /\ UNCHANGED <<facets, store, turn, driver, process, bounds>>

RepairCandidate ==
    /\ AllClosed /\ Undeclared # {} /\ Left(Candidate, candidates)
    /\ CandidateDeclared(Fresh(Candidate, candidates), Least(Undeclared))
    /\ UNCHANGED <<facets, store, turn, driver, process, bounds>>

-----------------------------------------------------------------------------
(* The rest of drive(): where it stops, and the branch it advances. *)

Settle == At("settle", None, None)

(* A failed required check stops the run, and so does having nothing left. *)
Stop ==
    /\ \/ Aligned /\ FailedChecks # {}
       \/ Repaired /\ ~pause /\ HasCapacity /\ ActiveBranches = {}
       \/ driver.at = "sweep" /\ driver.todo = {}
    /\ driver' = Settle
    /\ UNCHANGED <<vars, facets, store, turn, process, bounds>>

(* Without capacity every active branch is looked at once more, for what   *)
(* needs no model call; a pass that moved something is followed by another.*)
BeginSweep ==
    /\ Repaired /\ ~pause /\ ~HasCapacity
    /\ driver' = [At("sweep", None, None) EXCEPT !.todo = ActiveBranches]
    /\ UNCHANGED <<vars, facets, store, turn, process, bounds>>

AgainAfterSweep ==
    /\ driver.at = "swept" /\ driver.todo = {}
    /\ driver' = Loop
    /\ UNCHANGED <<vars, facets, store, turn, process, bounds>>

Sweeping == driver.at \in {"sweep", "swept"} /\ driver.todo # {}
AdvancingPaused(b) ==
    \/ Repaired /\ HasCapacity /\ ActiveBranches # {} /\ b = Least(ActiveBranches)
    \/ Sweeping /\ b = Least(driver.todo)
Advancing(b) ==
    \/ Repaired /\ ~pause /\ HasCapacity /\ ActiveBranches # {} /\ b = Least(ActiveBranches)
    \/ Sweeping /\ b = Least(driver.todo)

(* The driver after branch b was moved, and after it was passed over.      *)
SweptAlways(at, b) == [At("swept", None, None) EXCEPT !.todo = driver.todo \ {b}]
Swept(at, b) == [At(at, None, None) EXCEPT !.todo = driver.todo \ {b}]
Moved(b) == IF Sweeping THEN Swept("swept", b) ELSE Loop

OwnTip(b) ==
    /\ branches[b].route # <<>>
    /\ steps[Tip(b)].branch = b /\ steps[Tip(b)].call # None
TipSays(b, decision) == OwnTip(b) /\ HasControl(steps[Tip(b)].call, decision)

Blocked(b) == TipSays(b, "blocked")
NeedsCheck(b) ==
    /\ ~Blocked(b) /\ branches[b].route # <<>>
    /\ CheckerOn /\ RequiredOn(Tip(b)) = {}
AwaitsCheck(b) ==
    /\ ~Blocked(b) /\ branches[b].route # <<>>
    /\ \E k \in RequiredOn(Tip(b)) : checks[k].state = "requested"
Checked(b) == ~Blocked(b) /\ ~NeedsCheck(b) /\ ~AwaitsCheck(b)

(* _ensure_model_forks, for a control with one alternative.                *)
AlternativeActive(b) ==
    \E x \in ActiveBranches :
      branches[x].parent = b /\ branches[x].anchor = Tip(b) /\ branches[x].reason = "model_alternative"
AlternativeExists(b) ==
    \E x \in DOMAIN branches :
      branches[x].parent = b /\ branches[x].anchor = Tip(b) /\ branches[x].reason = "model_alternative"
MayForkUnchecked(b) ==
    /\ TipSays(b, "fork") /\ ~AlternativeExists(b)
    /\ MaxActive = 0 \/ Cardinality(ActiveBranches) < MaxActive
    /\ ~(Branch \subseteq DOMAIN branches)
MayFork(b) ==
    /\ Checked(b) /\ TipSays(b, "fork") /\ ~AlternativeExists(b)
    /\ MaxActive = 0 \/ Cardinality(ActiveBranches) < MaxActive
    /\ ~(Branch \subseteq DOMAIN branches)

Disputed(b) == \E k \in RequiredOn(Tip(b)) : checks[k].verdict \in {"objection", "hard_defect"}
MayComplete(b) == Checked(b) /\ TipSays(b, "complete") /\ ~Disputed(b)
WritesNext(b) == Checked(b) /\ ~MayFork(b) /\ ~MayComplete(b)

ParkBlocked(b) ==
    /\ Advancing(b) /\ Blocked(b)
    /\ BranchStatusChanged(b, "parked", "writer_blocked", None, None, steps[Tip(b)].call)
    /\ driver' = Moved(b)
    /\ UNCHANGED <<facets, store, turn, process, bounds>>

(* A requested check is called for without going back to the loop.         *)
RequestCheck(b) ==
    /\ Advancing(b) /\ HasCapacity /\ NeedsCheck(b) /\ Left(Check, checks)
    /\ CheckRequested(Fresh(Check, checks), Tip(b), TRUE)
    /\ driver' = At("check", Fresh(Check, checks), b)
    /\ UNCHANGED <<facets, store, turn, process, bounds>>

CallNewCheck == driver.at = "check" /\ StartCall("checker", <<driver.on>>, driver.branch)

CallOpenCheck(b) ==
    /\ Advancing(b) /\ AwaitsCheck(b)
    /\ StartCall("checker", <<CHOOSE k \in RequiredOn(Tip(b)) : TRUE>>, b)

CallWriter(b) ==
    /\ Advancing(b) /\ WritesNext(b)
    /\ StartCall("writer", <<b, NextSlot(b)>>, b)

(* Forking opens with an await on the provider, capacity or not.           *)
BeginFork(b) ==
    /\ Advancing(b) /\ MayFork(b)
    /\ driver' = [driver EXCEPT !.at = "fork", !.branch = b, !.todo = @ \ {b}, !.back = driver.at]
    /\ UNCHANGED <<vars, facets, store, turn, process, bounds>>

(* A step with a provider row is forked from its turn, which the runtime   *)
(* must have collected itself; one without is rehydrated.                  *)
Forkable(s) == s \in stepMarks => s \in live

AfterFork(back) ==
    IF HasCapacity THEN At("forked", None, driver.branch)
    ELSE [At(back, None, None) EXCEPT !.todo = driver.todo]

CreateAlternative ==
    /\ driver.at = "fork" /\ Forkable(Tip(driver.branch)) /\ Left(Branch, branches)
    /\ ChildBranchCreated(Fresh(Branch, branches), driver.branch, Tip(driver.branch),
                          "after", "model_alternative", None, "active")
    /\ driver' = AfterFork("swept")
    /\ UNCHANGED <<facets, store, turn, process, bounds>>

SuppressFork ==
    /\ driver.at = "fork" /\ Forkable(Tip(driver.branch))
    /\ driver' = AfterFork(driver.back)
    /\ UNCHANGED <<vars, facets, store, turn, process, bounds>>

(* The parent goes on writing at once, before the loop is seen again.      *)
WriteAfterFork ==
    /\ driver.at = "forked"
    /\ StartCall("writer", <<driver.branch, NextSlot(driver.branch)>>, driver.branch)

CompleteBranch(b) ==
    /\ Advancing(b) /\ MayComplete(b)
    /\ BranchStatusChanged(b, "completed", "writer_complete", None, None, None)
    /\ driver' = [Moved(b) EXCEPT !.at = "declare", !.branch = b, !.back = Moved(b).at]
    /\ UNCHANGED <<facets, store, turn, process, bounds>>

DeclareCandidate ==
    /\ driver.at = "declare" /\ Left(Candidate, candidates)
    /\ CandidateDeclared(Fresh(Candidate, candidates), driver.branch)
    /\ driver' = [driver EXCEPT !.at = driver.back, !.branch = None, !.back = "loop"]
    /\ UNCHANGED <<facets, store, turn, process, bounds>>

(* A sweep passes over a branch that needs a model call.                   *)
PassOver(b) ==
    /\ Sweeping /\ b = Least(driver.todo)
    /\ ~Blocked(b) /\ ~MayFork(b) /\ ~MayComplete(b)
    /\ driver' = Swept(driver.at, b)
    /\ UNCHANGED <<vars, facets, store, turn, process, bounds>>

-----------------------------------------------------------------------------
(* Soft pause: every active branch gets an action and a status change.     *)

OnBranch(kind, b) == [kind |-> kind, target |-> b, content |-> None]

BeginPauseOldest ==
    /\ Repaired /\ pause
    /\ driver' = [At("pause", None, None) EXCEPT !.todo = {b \in ActiveBranches : b = Least(ActiveBranches)}]
    /\ UNCHANGED <<vars, facets, store, turn, process, bounds>>
BeginPause ==
    /\ Repaired /\ pause
    /\ driver' = [At("pause", None, None) EXCEPT !.todo = ActiveBranches]
    /\ UNCHANGED <<vars, facets, store, turn, process, bounds>>

RecordAction(at, kind) ==
    /\ driver.at = at /\ driver.on = None /\ driver.todo # {} /\ Left(Action, actions)
    /\ HumanAction(Fresh(Action, actions), OnBranch(kind, Least(driver.todo)))
    /\ driver' = [driver EXCEPT !.on = Fresh(Action, actions), !.branch = Least(driver.todo)]
    /\ UNCHANGED <<facets, store, turn, process, bounds>>

PauseAction == RecordAction("pause", "pause_branch")

PauseBranch ==
    /\ driver.at = "pause" /\ driver.on # None
    /\ BranchStatusChanged(driver.branch, "paused", "human_pause", driver.on, None, None)
    /\ consumed' = consumed \cup {driver.on}
    /\ driver' = [driver EXCEPT !.on = None, !.todo = @ \ {driver.branch}]
    /\ UNCHANGED <<failure, resumed, store, turn, process, bounds>>

EndPause ==
    /\ driver.at = "pause" /\ driver.todo = {}
    /\ driver' = Settle
    /\ UNCHANGED <<vars, facets, store, turn, process, bounds>>

(* Resume: an action, a status change and the release of the failed checks *)
(* of the route, for every branch that was paused when it began.           *)
ReleasableBeforeTip(b) ==
    {k \in FailedChecks : checks[k].step \in Elems(SubSeq(branches[b].route, 1, Len(branches[b].route) - 1))}
Releasable(b) == {k \in FailedChecks : checks[k].step \in Elems(branches[b].route)}

ResumeAction == RecordAction("resume", "resume_branch")

ResumeBranch ==
    /\ driver.at = "resume" /\ driver.on # None /\ driver.branch \in driver.todo
    /\ Room(driver.branch)
    /\ BranchStatusChanged(driver.branch, "active", "human_resume", driver.on, None, None)
    /\ consumed' = consumed \cup {driver.on}
    /\ resumed' = resumed \cup TerminalWriters(driver.branch)
    /\ driver' = [driver EXCEPT !.todo = @ \ {driver.branch}]
    /\ UNCHANGED <<failure, store, turn, process, bounds>>

Releasing == driver.at = "resume" /\ driver.on # None /\ driver.branch \notin driver.todo

ReleaseCheck ==
    /\ Releasing /\ Releasable(driver.branch) # {}
    /\ CheckRetryAuthorized(Least(Releasable(driver.branch)), driver.on)
    /\ UNCHANGED <<facets, store, turn, driver, process, bounds>>

NextResumed ==
    /\ Releasing /\ Releasable(driver.branch) = {}
    /\ driver' = [driver EXCEPT !.on = None, !.branch = None]
    /\ UNCHANGED <<vars, facets, store, turn, process, bounds>>

EndResume ==
    /\ driver.at = "resume" /\ driver.on = None /\ driver.todo = {}
    /\ pause' = FALSE
    /\ driver' = Loop
    /\ UNCHANGED <<vars, facets, marks, stepMarks, manifest, turn, process, bounds>>

(* The driver task ends; a run in review gives its runtime back.           *)
EndDriver ==
    /\ driver.at = "settle"
    /\ driver' = Idle /\ phase' = "none"
    /\ live' = IF QueryPhase \in {"review_ready", "review_ready_due_to_cap"} THEN {} ELSE live
    /\ UNCHANGED <<vars, facets, store, turn, bounds>>

-----------------------------------------------------------------------------
(* Human expansion and revision of a run in review.  The driver stands on  *)
(* the chosen step and branch, and then on the recorded action in todo.    *)

ActiveRoom == MaxActive = 0 \/ Cardinality(ActiveBranches) < MaxActive
EditAllowed == HasCapacity /\ ActiveRoom

(* route_for_node: of the routes that are shown, the oldest with the step. *)
Shows(b, s) ==
    /\ s \in Elems(branches[b].route)
    /\ \/ branches[b].status \in {"completed", "killed", "parked"}
       \/ \A x \in DOMAIN branches : branches[x].parent # b
Showing(s) == {b \in DOMAIN branches : Shows(b, s)}

Editing(at) ==
    /\ driver.at = at /\ EditAllowed /\ Left(Action, actions)
    /\ driver.branch \in DOMAIN branches
    /\ driver.on \in Elems(branches[driver.branch].route)

ExpandAction ==
    /\ Editing("expand")
    /\ HumanAction(Fresh(Action, actions), OnBranch("set_direction", driver.branch))
    /\ driver' = [driver EXCEPT !.at = "expanding", !.todo = {Fresh(Action, actions)}]
    /\ UNCHANGED <<facets, store, turn, process, bounds>>

(* The anchor is rehydrated first: a run in review has given its runtime   *)
(* back, and no step of it can be forked natively.                         *)
ExpandBranch ==
    /\ driver.at = "expanding" /\ Left(Branch, branches)
    /\ \E a \in driver.todo :
          /\ ChildBranchCreated(Fresh(Branch, branches), driver.branch, driver.on,
                                "after", "human_direction", a, "active")
          /\ consumed' = consumed \cup {a}
    /\ driver' = Loop
    /\ UNCHANGED <<failure, resumed, store, turn, process, bounds>>

ReviseAction ==
    /\ Editing("revise")
    /\ \E text \in Content :
          HumanAction(Fresh(Action, actions),
                      [kind |-> "revise_step", target |-> driver.on, content |-> text])
    /\ driver' = [driver EXCEPT !.at = "replacing", !.todo = {Fresh(Action, actions)}]
    /\ UNCHANGED <<facets, store, turn, process, bounds>>

ReplaceBranch ==
    /\ driver.at = "replacing" /\ Left(Branch, branches)
    /\ \E a \in driver.todo :
          /\ ChildBranchCreated(Fresh(Branch, branches), driver.branch, driver.on,
                                "replace", "human_revision", a, "active")
          /\ consumed' = consumed \cup {a}
    /\ driver' = [driver EXCEPT !.at = "replaced", !.branch = Fresh(Branch, branches)]
    /\ UNCHANGED <<failure, resumed, store, turn, process, bounds>>

SealReplacement ==
    /\ driver.at = "replaced" /\ Left(Step, steps)
    /\ \E a \in driver.todo : HumanStepSealed(Fresh(Step, steps), driver.branch, driver.on, a)
    /\ driver' = Loop
    /\ UNCHANGED <<facets, store, turn, process, bounds>>

-----------------------------------------------------------------------------
(* Hard interrupt.  An abort under way has its action in todo; back says   *)
(* whether the command or the recovery of an orphan action carries it out. *)

Abort(c, a, back) == [at |-> "abort", on |-> c, branch |-> None, todo |-> {a}, back |-> back]
AbortCommand == driver.back = "idle"

InterruptAction ==
    /\ driver.at = "interrupt" /\ Left(Action, actions)
    /\ HumanAction(Fresh(Action, actions), OnBranch("abort_model_call", driver.on))
    /\ driver' = Abort(driver.on, Fresh(Action, actions), "idle")
    /\ UNCHANGED <<facets, store, turn, process, bounds>>

Interrupted(c) ==
    \E out \in IF calls[c].role = "writer" THEN Partials \cup {None} ELSE {None} :
      turn' = [turn EXCEPT ![c] = [NoTurn EXCEPT !.status = "interrupted", !.out = out]]

(* The provider interrupts the turn; a recovery also accepts a turn that   *)
(* an earlier attempt had interrupted.                                     *)
InterruptTurn ==
    /\ driver.at = "abort"
    /\ \/ turn[driver.on].status = "running" /\ Interrupted(driver.on)
       \/ ~AbortCommand /\ turn[driver.on].status = "interrupted" /\ UNCHANGED turn
    /\ driver' = [driver EXCEPT !.at = "aborting"]
    /\ UNCHANGED <<vars, facets, store, process, bounds>>

(* The request fails, or its answer is lost: the exception leaves the      *)
(* command, whose action stays without an abort, and no driver.            *)
InterruptFails ==
    /\ driver.at = "abort" /\ AbortCommand
    /\ UNCHANGED turn \/ (turn[driver.on].status = "running" /\ Interrupted(driver.on))
    /\ driver' = Idle
    /\ UNCHANGED <<vars, facets, store, process, bounds>>

AbortCall ==
    /\ driver.at = "aborting" /\ ~Terminal(driver.on)
    /\ \E a \in driver.todo :
          /\ ModelCallAborted(driver.on, turn[driver.on].out, a)
          /\ consumed' = consumed \cup {a}
    /\ UNCHANGED <<failure, resumed, store, turn, driver, process, bounds>>

LeavesPartial(c) == calls[c].role = "writer" /\ calls[c].out # None

ParkAborted ==
    /\ driver.at = "aborting" /\ Recorded(driver.on)
    /\ calls[driver.on].role = "writer" /\ calls[driver.on].out = None
    /\ BranchStatusChanged(calls[driver.on].target[1], "parked", "instrument_failure",
                           None, None, driver.on)
    /\ driver' = [driver EXCEPT !.at = "aborted"]
    /\ UNCHANGED <<facets, store, turn, process, bounds>>

KeepAborted ==
    /\ driver.at = "aborting" /\ Recorded(driver.on)
    /\ calls[driver.on].role = "checker" \/ (AbortCommand /\ LeavesPartial(driver.on))
    /\ driver' = [driver EXCEPT !.at = "aborted"]
    /\ UNCHANGED <<vars, facets, store, turn, process, bounds>>

EndAbort ==
    /\ driver.at = "aborted"
    /\ driver' = At(driver.back, None, None)
    /\ manifest' = IF AbortCommand THEN "interrupted" ELSE manifest
    /\ phase' = IF AbortCommand THEN "none" ELSE phase
    /\ UNCHANGED <<vars, facets, marks, stepMarks, pause, turn, live, bounds>>

-----------------------------------------------------------------------------
(* reconcile_in_flight, one pass over what the last process left behind.   *)

OrphanAborts == {a \in Orphans : actions[a].kind = "abort_model_call"}
HasHandle(c) == c \in DOMAIN marks /\ marks[c].handle

RecoverAbort ==
    /\ driver.at = "recover" /\ OrphanAborts # {}
    /\ LET c == actions[Least(OrphanAborts)].target IN
       /\ ~Terminal(c) /\ HasHandle(c)
       /\ turn[c].status \in {"running", "interrupted"}
       /\ driver' = Abort(c, Least(OrphanAborts), "recover")
    /\ UNCHANGED <<vars, facets, store, turn, process, bounds>>

(* A call without a handle, or whose turn is running, is left alone.       *)
RecoverCall(c) ==
    /\ driver.at = "recover" /\ OrphanAborts = {}
    /\ c \in InFlight /\ HasHandle(c) /\ turn[c].status # "running"
    /\ driver' = At(IF turn[c].status = "completed" THEN "write" ELSE "fail", c, marks[c].branch)
    /\ UNCHANGED <<vars, facets, store, turn, process, bounds>>

EndRecoverEarly ==
    /\ driver.at = "recover" /\ OrphanAborts = {}
    /\ driver' = Loop
    /\ UNCHANGED <<vars, facets, store, turn, process, bounds>>
EndRecover ==
    /\ driver.at = "recover" /\ OrphanAborts = {} /\ InFlight = {}
    /\ driver' = Loop
    /\ UNCHANGED <<vars, facets, store, turn, process, bounds>>

-----------------------------------------------------------------------------
(* Errors.  An exception other than a provider failure ends the driver and *)
(* leaves an error in the manifest that no command clears.                 *)

OrphanRepairable(a) ==
    \/ actions[a].kind = "pause_branch" /\ branches[actions[a].target].status = "active"
    \/ /\ actions[a].kind = "resume_branch" /\ branches[actions[a].target].status = "paused"
       /\ Room(actions[a].target)

RepairImpossible ==
    \/ Ready /\ \E c \in Misaligned : ~InMarks(c)
    \/ Repairing /\ Orphans # {} /\ ~OrphanRepairable(Least(Orphans))
    \/ NoOrphans /\ HalfReplaced # {} /\ branches[Least(HalfReplaced)].status # "active"
    \/ AllReplaced /\ Unsealed # {} /\ ~Sealable(Least(Unsealed))

AbortUnconfirmed ==
    \/ /\ driver.at = "recover" /\ OrphanAborts # {}
       /\ LET c == actions[Least(OrphanAborts)].target IN
          Terminal(c) \/ ~HasHandle(c) \/ turn[c].status \in {"completed", "failed"}
    \/ /\ driver.at = "abort" /\ ~AbortCommand
       /\ turn[driver.on].status # "interrupted"
    \/ driver.at = "aborting" /\ ~AbortCommand /\ Recorded(driver.on) /\ LeavesPartial(driver.on)

ResumeRefused ==
    /\ driver.at = "resume" /\ driver.on # None /\ driver.branch \in driver.todo
    /\ ~Room(driver.branch)

ForkRefusedByRuntime == driver.at = "fork" /\ ~Forkable(Tip(driver.branch))

(* The command is accepted in either phase of review, the edit is not; and *)
(* the provider may refuse to rehydrate the anchor of a recorded one.      *)
EditRefused ==
    \/ driver.at \in {"expand", "revise"} /\ ~EditAllowed
    \/ driver.at = "expanding" /\ Failures # {}

DriverFails ==
    /\ \/ RepairImpossible \/ AbortUnconfirmed \/ ResumeRefused
       \/ ForkRefusedByRuntime \/ EditRefused
    /\ driver' = Idle /\ phase' = "none"
    /\ manifest' = "error"
    /\ marks' = Merged
    /\ UNCHANGED <<vars, facets, stepMarks, pause, turn, live, bounds>>

-----------------------------------------------------------------------------
(* Commands, crashes and restarts.  Commands run while the driver awaits   *)
(* the provider or there is none.                                          *)

Command(name) ==
    /\ name \in Commands /\ commands < MaxCommands
    /\ commands' = commands + 1

PauseRun ==
    /\ Command("pause")
    /\ driver.at \in {"starting", "running", "fork", "expanding", "settle", "idle"}
    /\ ViewPhase = "autonomous_exploration" /\ ~pause
    /\ pause' = TRUE
    /\ UNCHANGED <<vars, facets, marks, stepMarks, manifest, turn, driver, process, crashes>>

ResumeRun ==
    /\ Command("resume")
    /\ driver.at = "idle" /\ ViewPhase = "paused"
    /\ driver' = [At("resume", None, None) EXCEPT
                     !.todo = {b \in DOMAIN branches : branches[b].status = "paused"}]
    /\ phase' = "autonomous_exploration"
    /\ UNCHANGED <<vars, facets, store, turn, live, crashes>>

(* Every command treats human_expansion as it does autonomous_exploration. *)
(* Left: a bound, that the instance has what the edit is made of.          *)
EditRun(edit) ==
    /\ Command(edit)
    /\ driver.at = "idle" /\ ViewPhase \in {"review_ready", "review_ready_due_to_cap"}
    /\ Left(Branch, branches) /\ Left(Step, steps)
    /\ \E s \in DOMAIN steps :
          Showing(s) # {} /\ driver' = At(edit, s, Least(Showing(s)))
    /\ phase' = "autonomous_exploration"
    /\ UNCHANGED <<vars, facets, store, turn, live, crashes>>

InterruptRun ==
    /\ Command("interrupt")
    /\ driver.at \in {"running", "recover", "idle"}
    /\ InFlight # {} /\ \A c \in InFlight : HasHandle(c)
    /\ driver' = At("interrupt", Least(InFlight), None)
    /\ UNCHANGED <<vars, facets, store, turn, process, crashes>>

Crash ==
    /\ driver.at \notin {"new", "root", "down"} /\ crashes < MaxCrashes
    /\ crashes' = crashes + 1
    /\ driver' = Down /\ live' = {} /\ phase' = "none"
    /\ UNCHANGED <<vars, facets, store, turn, commands>>

(* _load_context and _schedule_recovery.                                   *)
Restart ==
    /\ driver.at = "down"
    /\ marks' = Merged
    /\ \/ /\ manifest # "ok" \/ (InFlight = {} /\ QueryPhase # "autonomous_exploration")
          /\ driver' = Idle /\ UNCHANGED phase
       \/ /\ manifest = "ok" /\ InFlight # {}
          /\ driver' = At("recover", None, None) /\ phase' = "recovering"
       \/ /\ manifest = "ok" /\ InFlight = {} /\ QueryPhase = "autonomous_exploration"
          /\ driver' = Loop /\ phase' = "autonomous_exploration"
    /\ UNCHANGED <<vars, facets, stepMarks, pause, manifest, turn, live, bounds>>

-----------------------------------------------------------------------------
(* The run. *)

OrchInit ==
    /\ Init
    /\ failure = <<>> /\ consumed = {} /\ resumed = {}
    /\ marks = <<>> /\ stepMarks = {} /\ pause = FALSE /\ manifest = "ok"
    /\ turn = <<>>
    /\ driver = At("new", None, None) /\ live = {} /\ phase = "none"
    /\ crashes = 0 /\ commands = 0

CallStep ==
    \/ MarkCall \/ Attach \/ StartRefused \/ Collect
    \/ WriteChunk \/ FinishCall \/ FailCall \/ CloseMark
    \/ FinishWriter \/ BookmarkStep \/ FinishCheck
    \/ LeaveForRetry \/ CloseFailedCheck \/ PauseFailedBranch

RepairStep ==
    \/ RepairOrphan \/ RepairReplacement \/ RepairFinishedWriter
    \/ RepairStranded \/ RepairCheck \/ RepairCandidate

ScheduleStep ==
    \/ Stop \/ BeginSweep \/ AgainAfterSweep
    \/ \E b \in ActiveBranches :
         \/ ParkBlocked(b) \/ RequestCheck(b) \/ CallOpenCheck(b) \/ CallWriter(b)
         \/ BeginFork(b) \/ CompleteBranch(b) \/ PassOver(b)
    \/ CallNewCheck \/ CreateAlternative \/ SuppressFork \/ WriteAfterFork
    \/ DeclareCandidate

PauseStep == BeginPause \/ PauseAction \/ PauseBranch \/ EndPause
ResumeStep ==
    ResumeAction \/ ResumeBranch \/ ReleaseCheck \/ NextResumed \/ EndResume
EditStep == ExpandAction \/ ExpandBranch \/ ReviseAction \/ ReplaceBranch \/ SealReplacement
AbortStep ==
    \/ InterruptAction \/ InterruptTurn \/ InterruptFails
    \/ AbortCall \/ ParkAborted \/ KeepAborted \/ EndAbort
RecoverStep == RecoverAbort \/ (\E c \in InFlight : RecoverCall(c)) \/ EndRecover

DriverStep ==
    \/ CreateRun \/ CreateRoot
    \/ CallStep \/ RepairStep \/ ScheduleStep
    \/ PauseStep \/ ResumeStep \/ EditStep \/ AbortStep \/ RecoverStep
    \/ EndDriver \/ DriverFails

ProviderStep == \E c \in DOMAIN turn : TurnEnds(c)

OrchNext ==
    \/ DriverStep \/ ProviderStep
    \/ PauseRun \/ ResumeRun \/ InterruptRun
    \/ \E edit \in {"expand", "revise"} : EditRun(edit)
    \/ Crash \/ Restart

OrchSpec == OrchInit /\ [][OrchNext]_orchVars

(* The driver task is scheduled, turns end (the provider bounds them) and  *)
(* a crashed service is started again.                                     *)
FairSpec ==
    /\ OrchSpec
    /\ WF_orchVars(DriverStep) /\ WF_orchVars(ProviderStep) /\ WF_orchVars(Restart)

-----------------------------------------------------------------------------
(* Properties. *)

Positions ==
    {"new", "root", "loop", "check", "mark", "starting", "running", "write", "fail",
     "bookmark", "fork", "forked", "declare", "sweep", "swept", "pause", "resume",
     "expand", "expanding", "revise", "replacing", "replaced",
     "interrupt", "abort", "aborting", "aborted", "recover", "settle", "idle", "down"}

OrchTypeOK ==
    /\ failure \in [DOMAIN failure -> Failures \cup {"retryable"}] /\ DOMAIN failure \subseteq Call
    /\ consumed \subseteq Action /\ resumed \subseteq Call
    /\ Table(marks, Call, [state : {"starting", "running", "finished", "failed", "aborted"},
                           handle : BOOLEAN, branch : Branch, attempt : Nat \ {0}])
    /\ stepMarks \subseteq Step /\ live \subseteq Step
    /\ pause \in BOOLEAN /\ manifest \in {"ok", "interrupted", "error"}
    /\ driver.at \in Positions /\ driver.back \in Positions
    /\ phase \in {"none", "autonomous_exploration", "recovering"}

(* A terminal model call is never silently rerun (_repair_record_prefix):  *)
(* a target whose call finished gets no other call, crash or not, unless   *)
(* the output was a deferred revision, which leaves the slot open.         *)
NoRerun ==
    \A c1, c2 \in DOMAIN calls :
      c1 < c2 /\ c2 \in Siblings(c1) /\ calls[c1].state = "finished" =>
        calls[c1].disposition = "revision_deferred"

(* The attempt number the control store gives a call is its rank in the    *)
(* record, so the live retry decision, which uses the one, and the repair  *)
(* after a crash, which counts the other, agree.                           *)
AttemptsAgree ==
    \A c \in DOMAIN marks : marks[c].attempt = Cardinality({x \in Siblings(c) : x <= c})

(* A check is called for at most retries + 1 times, and once more when one *)
(* failure was for want of context room.                                   *)
RetryBudget ==
    \A k \in DOMAIN checks :
      LET cs == CallsOn("checker", <<k>>)
          excused == \E c \in cs : ContextExhausted(c)
      IN  Cardinality(cs) <= Retries + 1 + IF excused THEN 1 ELSE 0

(* A checker call is always about a step of the branch it is made for.  An *)
(* answer that does not validate pauses the step's branch, not the         *)
(* caller's, so the two must be the same.                                  *)
ChecksAreOwn ==
    \A c \in DOMAIN marks : calls[c].role = "checker" => marks[c].branch = HomeBranch(c)

(* The driver is never in the middle of something it cannot go on with:    *)
(* every event it is about to append is one the replay engine accepts.     *)
Waiting ==
    \/ driver.at \in {"idle", "down", "recover"}
    \/ driver.at = "running" /\ turn[driver.on].status = "running"
Accepted == Waiting \/ ENABLED DriverStep

(* No crash, command or provider outcome makes the driver fail with an     *)
(* error nobody can clear.                                                 *)
NoDriverError == manifest # "error"

(* When the driver comes to rest, nothing durable is left half done: no    *)
(* finished output without its event, no completed branch without its      *)
(* candidate, no action without its effect.                                *)
NothingHalfDone ==
    driver.at = "settle" /\ FailedChecks = {} =>
      Unsealed = {} /\ Undeclared = {} /\ Orphans = {} /\ Misaligned = {}

(* A driver at rest leaves no branch that could go on: the phase a user    *)
(* then sees is one of rest, from which the run can be resumed or read.    *)
RestsInRestPhase == driver.at = "settle" => QueryPhase # "autonomous_exploration"

(* Once a pause is requested no call is started, crash or not, but for the *)
(* one a parent goes on with when the pause met it opening an alternative. *)
PauseStartsNoCall == pause /\ driver.at # "forked" => DOMAIN calls' = DOMAIN calls

(* A resume that runs to its end leaves no failed check to stop the driver *)
(* it starts: the step of every failed check is on the route of a branch   *)
(* the resume found paused, whatever crashed in between.                   *)
ResumeReleases == driver.at = "resume" /\ driver'.at = "loop" => FailedChecks = {}

(* One alternative is opened at most once, however often its parent is     *)
(* advanced again from the same step.                                      *)
OneAlternative ==
    \A x, y \in DOMAIN branches :
      /\ branches[x].reason = "model_alternative" /\ branches[y].reason = "model_alternative"
      /\ branches[x].parent = branches[y].parent /\ branches[x].anchor = branches[y].anchor
      => x = y

(* Where a human replaces a step the model is not asked for it: the first  *)
(* step a human revision adds is the human's own, crash or not.            *)
HumanStepFirst ==
    \A c \in DOMAIN calls :
      LET b == branches[calls[c].target[1]]
      IN  calls[c].role = "writer" /\ b.reason = "human_revision" => calls[c].target[2] > b.inherited + 1

(* One edit opens one branch.                                              *)
Edits == {a \in DOMAIN actions : actions[a].kind \in {"set_direction", "revise_step"}}
OneBranchPerEdit ==
    Cardinality({b \in DOMAIN branches : branches[b].reason \in {"human_direction", "human_revision"}})
      = Cardinality(Edits \cap consumed)

(* A completed branch has one candidate.                                   *)
OneCandidate ==
    \A d1, d2 \in DOMAIN candidates :
      candidates[d1].branch = candidates[d2].branch => d1 = d2

(* A branch whose last writer call failed or was aborted waits for its     *)
(* user: no further call on that slot before a resume, except the one the  *)
(* context rule grants.                                                    *)
FailureWaits ==
    \A c \in DOMAIN calls' \ DOMAIN calls :
      calls'[c].role = "writer" =>
        \A x \in CallsOn("writer", calls'[c].target) :
          calls[x].state \in {"failed", "aborted"} => x \in resumed \/ ContextExhausted(x)

(* A driver that runs comes to rest, also when the process crashes and is  *)
(* restarted on the way, unless a call lost its handle in the crash.       *)
Lost == driver.at = "recover" /\ \E c \in InFlight : ~HasHandle(c)
DriverRests == []<>(driver.at = "idle" \/ Lost)

(* A pause requested while the driver awaits the provider stops every      *)
(* branch, crash or not, unless the driver ends in an error, a restart     *)
(* finds the calls used up and starts none, or it stops for a failed check *)
(* with a branch still active.                                             *)
PauseTakesHold ==
    pause /\ driver.at \in {"starting", "running", "fork"} ~>
      \/ ActiveBranches = {} \/ Lost \/ manifest = "error"
      \/ driver.at = "idle" /\ (~HasCapacity \/ FailedChecks # {})

(* Crashes and failures of the provider, in any combination, make no call  *)
(* whose answer there is, and call for a check no more often than allowed. *)
CallsCounted == NoRerun /\ RetryBudget

(* Nor do they leave anything half done or in error once the driver rests. *)
RecoverySound == NothingHalfDone /\ NoDriverError

(* Alternatives share steps, and with them checks and completions; a       *)
(* resume finds the failed checks of all of them.                          *)
ForksSound == [][ChecksAreOwn' /\ OneCandidate' /\ ResumeReleases]_orchVars

(* An edit that is recorded and whose branch a crash or the provider kept  *)
(* from being opened holds everything up: no call is made without it.      *)
EditComesFirst == Edits \ consumed # {} => DOMAIN calls' = DOMAIN calls

(* Alternatives and human edits open their branch once, and a human's step *)
(* is never asked of the model.                                            *)
BranchesSound == OneAlternative /\ HumanStepFirst /\ OneBranchPerEdit

(* No call is made that a pause, a failed call or an edit asked to wait    *)
(* for.                                                                    *)
NoCallUnbidden == [][FailureWaits /\ PauseStartsNoCall /\ EditComesFirst]_orchVars

-----------------------------------------------------------------------------
(* What comments and documents say and the code does not keep. *)

(* RECORD_SPEC.md section 17: "If the host crashes after the call finishes *)
(* but before the atomic revision, recovery MUST complete one revision     *)
(* from the same persisted output rather than call the model again."       *)
RevisionRecovered ==
    driver.at = "idle" /\ manifest = "ok" => \A c \in Unsealed : ~HasControl(c, "revise")

=============================================================================
