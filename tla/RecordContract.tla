--------------------------- MODULE RecordContract ---------------------------
(***************************************************************************)
(* The Record contract: the state machine ReplayEngine                     *)
(* (src/derivation_agent_record/replay.py) runs over an event log.  One    *)
(* action per event type; its guard is the conjunction of the `require`s   *)
(* of the handler, and a log is a sound record exactly when it is a        *)
(* sequence of these actions.                                              *)
(*                                                                         *)
(* Every Python dict of the engine is a function whose DOMAIN is the set   *)
(* of identifiers registered so far.  Data is abstracted to what the       *)
(* handlers compare: a five-field step content stands for its SHA-256, the *)
(* event hash chain is left to module EventLog, and the actor of an event  *)
(* is implied by its type.                                                 *)
(***************************************************************************)
EXTENDS Integers, Sequences, FiniteSets

CONSTANTS
    Branch, Step, Call, Check, Candidate, Judgement, Action, Source,
    Content,      \* non-empty bodies, told apart by their hash
    None,         \* Python's None; as a body, the empty text
    Task,         \* the task statement, as a place evidence may quote
    V11,          \* TRUE for a Record 1.1 log, FALSE for a Record v1 log
    MaxActive,    \* max_active_branches; 0 stands for null (no cap)
    MaxCalls,     \* max_model_calls; 0 stands for null (1.1 only)
    (* Model bounds: what the run's users, models and platform do. *)
    MaxRaw,       \* raw chunks of one call
    Kinds,        \* kinds of human action recorded
    Moves,        \* reasons of branch_status_changed
    Ends          \* how model calls end

Ids == Branch \cup Step \cup Call \cup Check \cup Candidate \cup Judgement
         \cup Action \cup Source \cup Content

VARIABLES
    run,          \* TRUE once run_created was replayed
    sources,      \* registered source evidence
    actions,      \* human_actions
    branches, calls, steps, checks, candidates, judgements,
    selections    \* the judgements cited by the recorded selections

vars == <<run, sources, actions, branches, calls, steps, checks, candidates,
          judgements, selections>>

-----------------------------------------------------------------------------
(* Vocabulary (model.py). *)

Statuses == {"active", "paused", "parked", "completed", "killed"}

TransitionsKillUndone(status) == IF status = "killed" THEN {"active"} ELSE {"killed"}

Transitions(status) ==
    CASE status = "active"    -> {"paused", "parked", "completed", "killed"}
      [] status = "paused"    -> {"active", "parked", "killed"}
      [] status = "parked"    -> {"active", "paused", "killed"}
      [] status = "completed" -> {"active", "killed"}
      [] status = "killed"    -> {}

BranchActions == {"pause_branch", "resume_branch", "kill_branch",
                  "set_direction", "set_hypothesis"}
HumanActions == BranchActions \cup {"revise_step", "abort_model_call", "select_candidate"}
HumanReasons == {"human_direction", "human_hypothesis", "human_revision"}
ChildReasons == HumanReasons \cup {"model_alternative", "instrument_retry"}
StatusReasons == {"human_pause", "human_resume", "human_kill", "writer_complete",
                  "runtime_failure", "writer_blocked", "hard_defect",
                  "instrument_failure", "manual_reopen"}
Roles == {"writer", "checker", "judge"}
CheckVerdicts == {"ok", "objection", "hard_defect", "instrument_failure"}
JudgeVerdicts == {"pass", "near_pass", "fail", "instrument_failure"}

ASSUME NoneAssumption == None \notin Ids \cup {Task}
ASSUME DispositionAssumption == None \notin {"revision_deferred", "route_completion"}
ASSUME FiniteAssumption == IsFiniteSet(Branch) /\ IsFiniteSet(Call)
ASSUME LimitAssumption == MaxActive \in Nat /\ MaxCalls \in Nat /\ MaxRaw \in Nat
ASSUME ScopeAssumption == Kinds \subseteq HumanActions /\ Moves \subseteq StatusReasons
                            /\ Ends \subseteq {"finished", "failed", "aborted"}
(* A quote names the kind of its source, so no identifier is two kinds.    *)
ASSUME KindAssumption ==
    /\ Step \cap (Branch \cup Source \cup {Task}) = {}
    /\ Branch \cap (Source \cup {Task}) = {}
ASSUME VersionAssumption == V11 \in BOOLEAN /\ (MaxCalls = 0 => V11)

(* The writer's raw control chunk; a revise decision names its target.     *)
Control == [decision : {"continue", "fork", "complete", "blocked"}, revise : {None}]
             \cup [decision : {"revise"}, revise : Step]

Put(f, k, v) == [x \in DOMAIN f \cup {k} |-> IF x = k THEN v ELSE f[x]]
Elems(route) == {route[i] : i \in DOMAIN route}

(* list.index: the first position of an element.                           *)
IndexOf(route, s) ==
    CHOOSE i \in DOMAIN route : route[i] = s /\ \A j \in 1..(i - 1) : route[j] # s

Prefix(route, mode, s) ==
    SubSeq(route, 1, IF mode = "after" THEN IndexOf(route, s) ELSE IndexOf(route, s) - 1)

ActiveBranches == {b \in DOMAIN branches : branches[b].status = "active"}
NextSlotInherited(b) == branches[b].inherited + 1
NextSlot(b) == Len(branches[b].route) + 1

Lineage(b) ==
    LET up[x \in DOMAIN branches] ==
          {x} \cup IF branches[x].parent \in DOMAIN branches
                   THEN up[branches[x].parent] ELSE {}
    IN  up[b]

(* The scientific content of a writer call: a recorded normalization       *)
(* replaces the raw output.                                                *)
WriterOutput(c) == IF calls[c].norm = None THEN calls[c].out ELSE calls[c].norm

(* _writer_control: exactly one raw chunk, carrying this control.          *)
HasControl(c, decision) == Len(calls[c].raw) = 1 /\ calls[c].raw[1].decision = decision
FinishedWriter(c) == calls[c].role = "writer" /\ calls[c].state = "finished"
MaterializedActive(c) == \E b \in ActiveBranches : \E s \in Elems(branches[b].route) : steps[s].call = c
Materialized(c) == \E s \in DOMAIN steps : steps[s].call = c

RequiredChecks(route) ==
    {k \in DOMAIN checks : checks[k].required /\ checks[k].step \in Elems(route)}
Verdicts(ks) == {checks[k].verdict : k \in ks}

CandidateStatus(d) ==
    LET ks == candidates[d].required IN
    IF \E k \in ks : checks[k].state # "completed" THEN "provisional"
    ELSE IF ~V11 /\ "hard_defect" \in Verdicts(ks) THEN "rejected"
    ELSE IF "instrument_failure" \in Verdicts(ks) THEN "blocked"
    ELSE IF V11 /\ Verdicts(ks) \cap {"hard_defect", "objection"} # {} THEN "conditional"
    ELSE "eligible"

(* A required check may not be requested for a step a candidate declared.  *)
OutsideDecidedCandidates(s) ==
    \A d \in DOMAIN candidates :
      CandidateStatus(d) # "provisional" => s \notin Elems(candidates[d].route)
OutsideCandidates(s) == \A d \in DOMAIN candidates : s \notin Elems(candidates[d].route)

Judgeable(d) == CandidateStatus(d) \in {"eligible"} \cup (IF V11 THEN {"conditional"} ELSE {})

-----------------------------------------------------------------------------
(* Run, sources and human actions. *)

RunCreated ==
    /\ ~run
    /\ run' = TRUE
    /\ UNCHANGED <<sources, actions, branches, calls, steps, checks,
                   candidates, judgements, selections>>

SourceEvidenceRegistered(e) ==
    /\ run /\ V11
    /\ e \notin sources
    /\ DOMAIN calls = {}
    /\ sources' = sources \cup {e}
    /\ UNCHANGED <<run, actions, branches, calls, steps, checks, candidates,
                   judgements, selections>>

HumanAction(a, act) ==
    /\ run
    /\ a \notin DOMAIN actions
    /\ actions' = Put(actions, a, act)
    /\ UNCHANGED <<run, sources, branches, calls, steps, checks, candidates,
                   judgements, selections>>

(* Human actions by kind, on the given targets; only a revise_step carries *)
(* a content that is read again.                                           *)
ActionsOn(bs, ss, cs, ds) ==
    [kind : BranchActions, target : bs, content : {None}]
      \cup [kind : {"revise_step"}, target : ss, content : Content]
      \cup [kind : {"abort_model_call"}, target : cs, content : {None}]
      \cup [kind : {"select_candidate"}, target : ds, content : {None}]

PossibleActions ==
    ActionsOn(DOMAIN branches, DOMAIN steps, DOMAIN calls, DOMAIN candidates)

HumanActionRecorded(a) ==
    \E act \in PossibleActions : act.kind \in Kinds /\ HumanAction(a, act)

CitesAction(a, kind, target) ==
    a \in DOMAIN actions /\ actions[a].kind = kind /\ actions[a].target = target

-----------------------------------------------------------------------------
(* Branches. *)

WithinCapStale == MaxActive = 0 \/ Cardinality(ActiveBranches) <= MaxActive
WithinCap == MaxActive = 0 \/ Cardinality(ActiveBranches') <= MaxActive

RootBranchCreated(b, status) ==
    /\ run
    /\ b \notin DOMAIN branches
    /\ branches' = Put(branches, b,
          [parent |-> None, mode |-> "root", anchor |-> None, inherited |-> 0,
           route |-> <<>>, status |-> status, reason |-> "root", moved |-> "root"])
    /\ WithinCap
    /\ UNCHANGED <<run, sources, actions, calls, steps, checks, candidates,
                   judgements, selections>>

(* A human-sourced child cites the action that asked for it; the others    *)
(* cite none.                                                              *)
ChildReasonOk(p, anchor, mode, reason, a) ==
    \/ reason = "human_direction"  /\ CitesAction(a, "set_direction", p)
    \/ reason = "human_hypothesis" /\ CitesAction(a, "set_hypothesis", p)
    \/ reason = "human_revision"   /\ mode = "replace" /\ CitesAction(a, "revise_step", anchor)
    \/ reason \in {"model_alternative", "instrument_retry"} /\ a = None

ChildBranchCreated(b, p, anchor, mode, reason, a, status) ==
    /\ b \notin DOMAIN branches
    /\ p \in DOMAIN branches
    /\ anchor \in Elems(branches[p].route)
    /\ ChildReasonOk(p, anchor, mode, reason, a)
    /\ LET inherited == Prefix(branches[p].route, mode, anchor) IN
       branches' = Put(branches, b,
          [parent |-> p, mode |-> mode, anchor |-> anchor, inherited |-> Len(inherited),
           route |-> inherited, status |-> status, reason |-> reason, moved |-> reason])
    /\ WithinCap
    /\ UNCHANGED <<run, sources, actions, calls, steps, checks, candidates,
                   judgements, selections>>

(* Who may move a branch, and what the move must cite.  A human_pause,     *)
(* human_resume or human_kill fixes the action but not the new status.     *)
HumanMoveOk(b, reason, a) ==
    \/ reason = "human_pause"  /\ CitesAction(a, "pause_branch", b)
    \/ reason = "human_resume" /\ CitesAction(a, "resume_branch", b)
    \/ reason = "human_kill"   /\ CitesAction(a, "kill_branch", b)

RuntimeFailureOk(b, c, k) ==
    /\ calls[c].state \in {"failed", "aborted"}
    /\ \/ calls[c].role = "writer" /\ calls[c].target[1] = b /\ k = None
       \/ /\ calls[c].role = "checker" /\ k \in DOMAIN checks
          /\ calls[c].target = <<k>>
          /\ checks[k].step \in Elems(branches[b].route)

StatusReasonOk(b, to, reason, a, k, c) ==
    \/ HumanMoveOk(b, reason, a) /\ k = None /\ c = None
    \/ reason = "writer_complete" /\ to = "completed" /\ a = None /\ k = None /\ c = None
    \/ /\ reason = "runtime_failure" /\ V11 /\ to = "paused" /\ a = None
       /\ c \in DOMAIN calls /\ RuntimeFailureOk(b, c, k)
    \/ /\ reason = "writer_blocked" /\ V11 /\ to = "parked" /\ a = None /\ k = None
       /\ c \in DOMAIN calls /\ FinishedWriter(c) /\ calls[c].target[1] = b
       /\ HasControl(c, "blocked")
    \/ /\ reason = "hard_defect" /\ to = "killed" /\ a = None /\ c = None
       /\ k \in DOMAIN checks /\ checks[k].verdict = "hard_defect"
       /\ checks[k].step \in Elems(branches[b].route)
    \/ /\ reason = "instrument_failure" /\ to = "parked" /\ a = None /\ k = None
       /\ c \in DOMAIN calls /\ calls[c].role = "writer" /\ calls[c].target[1] = b
       /\ calls[c].state \in {"failed", "aborted"} /\ calls[c].out = None
    \/ /\ reason = "manual_reopen" /\ to = "active"
       /\ CitesAction(a, "resume_branch", b) /\ k = None /\ c = None

BranchStatusChanged(b, to, reason, a, k, c) ==
    /\ b \in DOMAIN branches
    /\ to \in Transitions(branches[b].status)
    /\ StatusReasonOk(b, to, reason, a, k, c)
    /\ branches' = [branches EXCEPT ![b].status = to, ![b].moved = reason]
    /\ WithinCap
    /\ UNCHANGED <<run, sources, actions, calls, steps, checks, candidates,
                   judgements, selections>>

-----------------------------------------------------------------------------
(* Model calls. *)

(* A target is <<branch, slot>>, <<check>> or <<judgement>> by role.       *)
TargetOk(role, target) ==
    \/ /\ role = "writer"
       /\ \E b \in ActiveBranches : target = <<b, NextSlot(b)>>
    \/ /\ role = "checker"
       /\ \E k \in DOMAIN checks : target = <<k>> /\ checks[k].state = "requested"
    \/ /\ role = "judge"
       /\ \E j \in DOMAIN judgements : target = <<j>> /\ judgements[j].state = "requested"

InFlight == {c \in DOMAIN calls : calls[c].state = "started"}

ModelCallStarted(c, role, target) ==
    /\ c \notin DOMAIN calls
    /\ TargetOk(role, target)
    /\ \A x \in InFlight : ~(calls[x].role = role /\ calls[x].target = target)
    /\ MaxCalls = 0 \/ Cardinality(DOMAIN calls) < MaxCalls
    /\ calls' = Put(calls, c,
          [role |-> role, target |-> target, state |-> "started", raw |-> <<>>,
           out |-> None, norm |-> None, disposition |-> None])
    /\ UNCHANGED <<run, sources, actions, branches, steps, checks, candidates,
                   judgements, selections>>

(* A chunk on the raw channel of a writer call, the only one a handler     *)
(* reads again; a second one makes the control unreadable.                 *)
ModelCallChunk(c, ctl) ==
    /\ c \in InFlight /\ calls[c].role = "writer"
    /\ Len(calls[c].raw) < MaxRaw
    /\ calls' = [calls EXCEPT ![c].raw = Append(@, ctl)]
    /\ UNCHANGED <<run, sources, actions, branches, steps, checks, candidates,
                   judgements, selections>>

(* The body of a checker or judge call is never compared again.            *)
Bodies(c) == IF calls[c].role = "writer" THEN Content \cup {None} ELSE {None}

Terminate(c, state, out) ==
    /\ c \in InFlight /\ out \in Bodies(c)
    /\ calls' = [calls EXCEPT ![c].state = state, ![c].out = out]
    /\ UNCHANGED <<run, sources, actions, branches, steps, checks, candidates,
                   judgements, selections>>

ModelCallFinished(c, out) == Terminate(c, "finished", out)
ModelCallFailed(c, out)   == Terminate(c, "failed", out)
ModelCallAborted(c, out, a) ==
    CitesAction(a, "abort_model_call", c) /\ Terminate(c, "aborted", out)

(* The host's format normalization of a finished, unused writer output.    *)
WriterOutputNormalized(c, content) ==
    /\ V11
    /\ c \in DOMAIN calls /\ FinishedWriter(c)
    /\ calls[c].norm = None /\ calls[c].disposition = None
    /\ ~Materialized(c)
    /\ calls[c].out # None /\ content # calls[c].out
    /\ calls' = [calls EXCEPT ![c].norm = content]
    /\ UNCHANGED <<run, sources, actions, branches, steps, checks, candidates,
                   judgements, selections>>

-----------------------------------------------------------------------------
(* Step revisions. *)

(* replaces is None, or the anchor of a replace branch that has sealed     *)
(* nothing of its own yet.                                                 *)
ReplacesOk(b, replaces) ==
    replaces # None =>
      /\ replaces \in DOMAIN steps
      /\ branches[b].mode = "replace" /\ branches[b].anchor = replaces
      /\ Len(branches[b].route) = branches[b].inherited
      /\ steps[replaces].slot = NextSlot(b)

RevisionFromZero(replaces) == IF replaces = None THEN 0 ELSE steps[replaces].revision
Revision(replaces) == IF replaces = None THEN 1 ELSE steps[replaces].revision + 1

ExtendedAnew(b, s) == Append(SubSeq(branches[b].route, 1, branches[b].inherited), s)
Extended(b, s) == Append(branches[b].route, s)

Seal(s, b, replaces, content, c, a) ==
    /\ s \notin DOMAIN steps
    /\ b \in ActiveBranches
    /\ ReplacesOk(b, replaces)
    /\ steps' = Put(steps, s,
          [branch |-> b, slot |-> NextSlot(b), revision |-> Revision(replaces),
           replaces |-> replaces, content |-> content, call |-> c, action |-> a])
    /\ branches' = [branches EXCEPT ![b].route = Extended(b, s)]
    /\ UNCHANGED <<run, sources, actions, calls, checks, candidates,
                   judgements, selections>>

ModelStepSealed(s, b, replaces, c) ==
    /\ b \in DOMAIN branches
    /\ c \in DOMAIN calls /\ FinishedWriter(c)
    /\ calls[c].target = <<b, NextSlot(b)>>
    /\ WriterOutput(c) # None
    /\ Seal(s, b, replaces, WriterOutput(c), c, None)

HumanStepSealed(s, b, replaces, a) ==
    /\ replaces # None
    /\ CitesAction(a, "revise_step", replaces)
    /\ Seal(s, b, replaces, actions[a].content, None, a)

(* One event: park the parent, fork it before the revised step and seal    *)
(* the replacement.                                                        *)
ModelRevisionApplied(p, b, old, s, c) ==
    /\ V11
    /\ p \in ActiveBranches /\ b \notin DOMAIN branches
    /\ old \in Elems(branches[p].route) /\ s \notin DOMAIN steps
    /\ c \in DOMAIN calls /\ FinishedWriter(c)
    /\ calls[c].target = <<p, NextSlot(p)>>
    /\ ~Materialized(c)
    /\ HasControl(c, "revise") /\ calls[c].raw[1].revise = old
    /\ WriterOutput(c) # None
    /\ LET prefix == Prefix(branches[p].route, "replace", old) IN
       /\ branches' = Put([branches EXCEPT ![p].status = "parked", ![p].moved = "model_superseded"], b,
             [parent |-> p, mode |-> "replace", anchor |-> old,
              inherited |-> Len(prefix), route |-> Append(prefix, s),
              status |-> "active", reason |-> "model_revision", moved |-> "model_revision"])
       /\ steps' = Put(steps, s,
             [branch |-> b, slot |-> steps[old].slot, revision |-> steps[old].revision + 1,
              replaces |-> old, content |-> WriterOutput(c), call |-> c, action |-> None])
    /\ UNCHANGED <<run, sources, actions, calls, checks, candidates,
                   judgements, selections>>

ModelRevisionDeferred(c, target) ==
    /\ V11
    /\ c \in DOMAIN calls /\ FinishedWriter(c)
    /\ calls[c].disposition = None
    /\ HasControl(c, "revise") /\ calls[c].raw[1].revise = target
    /\ target \in Elems(branches[calls[c].target[1]].route)
    /\ calls' = [calls EXCEPT ![c].disposition = "revision_deferred"]
    /\ UNCHANGED <<run, sources, actions, branches, steps, checks, candidates,
                   judgements, selections>>

(* The writer repeats the tip unchanged and completes the route.           *)
WriterRouteCompletion(b, c) ==
    /\ V11
    /\ b \in ActiveBranches /\ branches[b].route # <<>>
    /\ c \in DOMAIN calls /\ FinishedWriter(c)
    /\ calls[c].target = <<b, NextSlot(b)>>
    /\ HasControl(c, "complete")
    /\ WriterOutput(c) = steps[branches[b].route[Len(branches[b].route)]].content
    /\ calls[c].disposition = None
    /\ \A k \in RequiredChecks(branches[b].route) :
          checks[k].state = "completed" /\ checks[k].verdict # "instrument_failure"
    /\ branches' = [branches EXCEPT ![b].status = "completed", ![b].moved = "writer_complete"]
    /\ calls' = [calls EXCEPT ![c].disposition = "route_completion"]
    /\ UNCHANGED <<run, sources, actions, steps, checks, candidates,
                   judgements, selections>>

-----------------------------------------------------------------------------
(* Checks. *)

CheckRequested(k, s, required) ==
    /\ k \notin DOMAIN checks
    /\ s \in DOMAIN steps
    /\ required => OutsideCandidates(s)
    /\ checks' = Put(checks, k,
          [step |-> s, required |-> required, state |-> "requested", verdict |-> None,
           call |-> None, evidence |-> {}, known |-> {}])
    /\ UNCHANGED <<run, sources, actions, branches, calls, steps, candidates,
                   judgements, selections>>

(* What a verdict on step s may quote: a step of the checked transcript,   *)
(* the hypothesis of a branch of its lineage, a registered source, or the  *)
(* task statement.  The quoted text itself is abstracted.                  *)
CheckedTranscript(s) ==
    LET route == branches[steps[s].branch].route
    IN  Elems(SubSeq(route, 1, IndexOf(route, s)))
QuotableAnywhere(s) == DOMAIN steps \cup DOMAIN branches \cup sources \cup {Task}
Quotable(s) ==
    CheckedTranscript(s) \cup Lineage(steps[s].branch)
      \cup (IF V11 THEN sources ELSE {}) \cup {Task}

EvidenceOk(k, verdict, evidence) ==
    CASE verdict = "instrument_failure" -> evidence = {}
      [] verdict = "hard_defect" ->
           evidence # {} /\ evidence \subseteq Quotable(checks[k].step)
      [] OTHER -> V11 => evidence \subseteq Quotable(checks[k].step)

(* A call that failed or was aborted carries an instrument failure, a      *)
(* finished one a verdict.                                                 *)
CallMatches(c, verdict) ==
    IF verdict = "instrument_failure" THEN calls[c].state \in {"failed", "aborted"}
                                      ELSE calls[c].state = "finished"

OpenOrBrokenCheck(k) ==
    k \in DOMAIN checks /\ checks[k].verdict \in {None, "instrument_failure"}
OpenCheck(k) == k \in DOMAIN checks /\ checks[k].state = "requested"

CheckCompleted(k, c, verdict, evidence) ==
    /\ OpenCheck(k)
    /\ c \in DOMAIN calls /\ calls[c].role = "checker" /\ calls[c].target = <<k>>
    /\ CallMatches(c, verdict)
    /\ EvidenceOk(k, verdict, evidence)
    /\ checks' = [checks EXCEPT ![k].state = "completed", ![k].verdict = verdict,
                                ![k].call = c, ![k].evidence = evidence,
                                ![k].known = DOMAIN actions]
    /\ UNCHANGED <<run, sources, actions, branches, calls, steps, candidates,
                   judgements, selections>>

(* known is the set of human actions recorded before the check completed:  *)
(* an action outside it has a larger seq than check_completion_seq.        *)
CheckRetryAuthorized(k, a) ==
    /\ V11
    /\ k \in DOMAIN checks /\ a \in DOMAIN actions
    /\ checks[k].verdict = "instrument_failure" /\ checks[k].required
    /\ actions[a].kind = "resume_branch"
    /\ checks[k].step \in Elems(branches[actions[a].target].route)
    /\ a \notin checks[k].known
    /\ checks' = [checks EXCEPT ![k].required = FALSE]
    /\ UNCHANGED <<run, sources, actions, branches, calls, steps, candidates,
                   judgements, selections>>

-----------------------------------------------------------------------------
(* Candidates, judgements and the selection. *)

CandidateDeclared(d, b) ==
    /\ d \notin DOMAIN candidates
    /\ b \in DOMAIN branches /\ branches[b].status = "completed"
    /\ branches[b].route # <<>>
    /\ LET ks == RequiredChecks(branches[b].route) IN
       candidates' = Put(candidates, d,
          [branch |-> b, route |-> branches[b].route, required |-> ks,
           unresolved |-> {k \in ks : V11 /\ checks[k].verdict \in {"objection", "hard_defect"}}])
    /\ UNCHANGED <<run, sources, actions, branches, calls, steps, checks,
                   judgements, selections>>

JudgementRequested(j, d) ==
    /\ j \notin DOMAIN judgements
    /\ d \in DOMAIN candidates /\ Judgeable(d)
    /\ judgements' = Put(judgements, j,
          [candidate |-> d, state |-> "requested", verdict |-> None, call |-> None])
    /\ UNCHANGED <<run, sources, actions, branches, calls, steps, checks,
                   candidates, selections>>

JudgementCompleted(j, c, verdict) ==
    /\ j \in DOMAIN judgements /\ judgements[j].state = "requested"
    /\ Judgeable(judgements[j].candidate)
    /\ c \in DOMAIN calls /\ calls[c].role = "judge" /\ calls[c].target = <<j>>
    /\ CallMatches(c, verdict)
    /\ judgements' = [judgements EXCEPT ![j].state = "completed",
                                        ![j].verdict = verdict, ![j].call = c]
    /\ UNCHANGED <<run, sources, actions, branches, calls, steps, checks,
                   candidates, selections>>

(* a is the select_candidate action of a human selection, None for the     *)
(* system's own.                                                           *)
SelectionRecorded(j, a) ==
    /\ selections = {}
    /\ j \in DOMAIN judgements
    /\ judgements[j].state = "completed" /\ judgements[j].verdict = "pass"
    /\ CandidateStatus(judgements[j].candidate) = "eligible"
    /\ a = None \/ CitesAction(a, "select_candidate", judgements[j].candidate)
    /\ selections' = {j}
    /\ UNCHANGED <<run, sources, actions, branches, calls, steps, checks,
                   candidates, judgements>>

-----------------------------------------------------------------------------
(* The log. *)

Init ==
    /\ run = FALSE /\ sources = {} /\ selections = {}
    /\ actions = <<>> /\ branches = <<>> /\ calls = <<>> /\ steps = <<>>
    /\ checks = <<>> /\ candidates = <<>> /\ judgements = <<>>

BranchEvent ==
    \E b \in Branch :
      \/ \E status \in {"active", "paused"} :
           \/ RootBranchCreated(b, status)
           \/ \E p \in DOMAIN branches, anchor \in DOMAIN steps, mode \in {"after", "replace"},
                reason \in ChildReasons, a \in DOMAIN actions \cup {None} :
                ChildBranchCreated(b, p, anchor, mode, reason, a, status)
      \/ \E to \in Statuses, reason \in Moves, a \in DOMAIN actions \cup {None},
            k \in DOMAIN checks \cup {None}, c \in DOMAIN calls \cup {None} :
            BranchStatusChanged(b, to, reason, a, k, c)

Targets == {<<b, NextSlot(b)>> : b \in ActiveBranches}
             \cup {<<x>> : x \in DOMAIN checks \cup DOMAIN judgements}

CallEvent ==
    \E c \in Call :
      \/ \E role \in Roles, target \in Targets : ModelCallStarted(c, role, target)
      \/ \E ctl \in Control : ModelCallChunk(c, ctl)
      \/ \E out \in Content \cup {None} :
           \/ "finished" \in Ends /\ ModelCallFinished(c, out)
           \/ "failed" \in Ends /\ ModelCallFailed(c, out)
           \/ "aborted" \in Ends /\ \E a \in DOMAIN actions : ModelCallAborted(c, out, a)
      \/ \E content \in Content : WriterOutputNormalized(c, content)
      \/ \E target \in Step : ModelRevisionDeferred(c, target)
      \/ \E b \in DOMAIN branches : WriterRouteCompletion(b, c)

StepEvent ==
    \E s \in Step, b \in Branch :
      \/ \E replaces \in DOMAIN steps \cup {None} :
           \/ \E c \in DOMAIN calls : ModelStepSealed(s, b, replaces, c)
           \/ \E a \in DOMAIN actions : HumanStepSealed(s, b, replaces, a)
      \/ \E p \in DOMAIN branches, old \in DOMAIN steps, c \in DOMAIN calls :
           ModelRevisionApplied(p, b, old, s, c)

CheckEvent ==
    \E k \in Check :
      \/ \E s \in DOMAIN steps, required \in BOOLEAN : CheckRequested(k, s, required)
      \/ \E c \in DOMAIN calls, verdict \in CheckVerdicts,
            evidence \in SUBSET (DOMAIN steps \cup DOMAIN branches \cup sources \cup {Task}) :
            CheckCompleted(k, c, verdict, evidence)
      \/ \E a \in DOMAIN actions : CheckRetryAuthorized(k, a)

CandidateEvent ==
    \/ \E d \in Candidate, b \in DOMAIN branches : CandidateDeclared(d, b)
    \/ \E j \in Judgement :
         \/ \E d \in DOMAIN candidates : JudgementRequested(j, d)
         \/ \E c \in DOMAIN calls, verdict \in JudgeVerdicts : JudgementCompleted(j, c, verdict)
         \/ \E a \in DOMAIN actions \cup {None} : SelectionRecorded(j, a)

Next ==
    \/ RunCreated
    \/ \E e \in Source : SourceEvidenceRegistered(e)
    \/ \E a \in Action : HumanActionRecorded(a)
    \/ BranchEvent \/ CallEvent \/ StepEvent \/ CheckEvent \/ CandidateEvent

Spec == Init /\ [][Next]_vars

-----------------------------------------------------------------------------
(* Properties. *)

Targeting == (Branch \X (Nat \ {0})) \cup {<<x>> : x \in Check \cup Judgement}
ActionRec == ActionsOn(Branch, Step, Call, Candidate)
Created == ChildReasons \cup {"root", "model_revision"}
BranchRec == [parent : Branch \cup {None}, mode : {"root", "after", "replace"},
              anchor : Step \cup {None}, inherited : Nat, route : Seq(Step),
              status : Statuses, reason : Created, moved : Created \cup StatusReasons \cup {"model_superseded"}]
CallRec == [role : Roles, target : Targeting,
            state : {"started", "finished", "failed", "aborted"}, raw : Seq(Control),
            out : Content \cup {None}, norm : Content \cup {None},
            disposition : {None, "revision_deferred", "route_completion"}]
StepRec == [branch : Branch, slot : Nat \ {0}, revision : Nat \ {0},
            replaces : Step \cup {None}, content : Content,
            call : Call \cup {None}, action : Action \cup {None}]
CheckRec == [step : Step, required : BOOLEAN, state : {"requested", "completed"},
             verdict : CheckVerdicts \cup {None}, call : Call \cup {None},
             evidence : SUBSET (Step \cup Branch \cup Source \cup {Task}),
             known : SUBSET Action]
CandidateRec == [branch : Branch, route : Seq(Step), required : SUBSET Check,
                 unresolved : SUBSET Check]
JudgementRec == [candidate : Candidate, state : {"requested", "completed"},
                 verdict : JudgeVerdicts \cup {None}, call : Call \cup {None}]

(* Every table of the engine is a partial function of its kind.            *)
Table(f, ids, recs) == DOMAIN f \subseteq ids /\ f \in [DOMAIN f -> recs]

TypeOK ==
    /\ run \in BOOLEAN /\ sources \subseteq Source /\ selections \subseteq Judgement
    /\ Table(actions, Action, ActionRec)
    /\ Table(branches, Branch, BranchRec)
    /\ Table(calls, Call, CallRec)
    /\ Table(steps, Step, StepRec)
    /\ Table(checks, Check, CheckRec)
    /\ Table(candidates, Candidate, CandidateRec)
    /\ Table(judgements, Judgement, JudgementRec)

(* A step sealed in one branch and inherited by others has one history:    *)
(* routes that share a step hold it at the step's slot, and agree on       *)
(* everything before it.  The checker's transcript, the anchors of forks   *)
(* and the slot of a replacement all rest on this.                         *)
RouteTree ==
    \A b1, b2 \in DOMAIN branches :
      \A i \in DOMAIN branches[b1].route, j \in DOMAIN branches[b2].route :
        branches[b1].route[i] = branches[b2].route[j] =>
          /\ i = j /\ i = steps[branches[b1].route[i]].slot
          /\ \A n \in 1..i : branches[b1].route[n] = branches[b2].route[n]

(* What a completed check quoted is visible on every route that holds the  *)
(* checked step, also on branches forked after the verdict: steps up to    *)
(* the checked one, and hypotheses of that branch's own lineage.  A v1     *)
(* record promises it of hard defects only.                                *)
EvidenceVisible ==
    \A k \in DOMAIN checks, b \in DOMAIN branches :
      (V11 \/ checks[k].verdict = "hard_defect") /\ checks[k].step \in Elems(branches[b].route) =>
        /\ checks[k].evidence \cap Step
             \subseteq Elems(Prefix(branches[b].route, "after", checks[k].step))
        /\ checks[k].evidence \cap Branch \subseteq Lineage(b)

(* max_active_branches holds after every event, also after the single      *)
(* event that parks a parent and activates its revision, whose handler     *)
(* never looks at the limit.                                               *)
ActiveWithinCap == MaxActive # 0 => Cardinality(ActiveBranches) <= MaxActive

(* _branch_provenance, reduced to its content_class.                       *)
EditedByLineage(b) == \E x \in Lineage(b) : branches[x].reason = "human_revision"

Edited(b) ==
    \/ \E x \in Lineage(b) : branches[x].reason = "human_revision"
    \/ \E s \in Elems(branches[b].route) : steps[s].action # None
Steered(b) == \E x \in Lineage(b) : branches[x].reason \in {"human_direction", "human_hypothesis"}
ContentClass(b) ==
    IF Edited(b) THEN "human_edited" ELSE IF Steered(b) THEN "human_steered" ELSE "model_only"

(* A branch is reported model_only only when no human wrote a step of its  *)
(* route and every step was written in a branch no human action created.   *)
ProvenanceSound ==
    \A b \in DOMAIN branches : ContentClass(b) = "model_only" =>
      \A s \in Elems(branches[b].route) :
        /\ steps[s].action = None
        /\ \A x \in Lineage(steps[s].branch) : branches[x].reason \notin HumanReasons

(* The text of a sealed step stays the effective output of the writer call *)
(* it cites: no later normalization of that call can move it.              *)
SealedOutputFixed ==
    \A s \in DOMAIN steps : steps[s].call # None =>
      /\ calls[steps[s].call].state = "finished"
      /\ steps[s].content = WriterOutput(steps[s].call)

(* A writer call seals at most one step of the branch it was started for,  *)
(* and at most one model revision of it.                                   *)
OneStepPerCall ==
    \A s1, s2 \in DOMAIN steps :
      steps[s1].call # None /\ steps[s1].call = steps[s2].call =>
        LET home == calls[steps[s1].call].target[1] IN
        (steps[s1].branch = home) = (steps[s2].branch = home) => s1 = s2

(* No required check escapes a candidate: one whose target step is in the  *)
(* declared transcript, even one requested or released later, is in the    *)
(* list the candidate froze.                                               *)
NoEscapedCheck ==
    \A d \in DOMAIN candidates :
      RequiredChecks(candidates[d].route) \subseteq candidates[d].required

(* What the selection promises a reader (_final_checks): the selected      *)
(* candidate stays eligible and judged pass, and every required check of   *)
(* its transcript is settled - ok in 1.1, at most an objection in v1 -     *)
(* whatever was recorded after the selection.                              *)
SelectedSound ==
    \A j \in selections :
      LET d == judgements[j].candidate IN
      /\ judgements[j].verdict = "pass" /\ CandidateStatus(d) = "eligible"
      /\ \A k \in RequiredChecks(candidates[d].route) :
            checks[k].verdict \in {"ok"} \cup (IF V11 THEN {} ELSE {"objection"})

(* The checks of a candidate, before it is selected and after.             *)
CandidatesSound == NoEscapedCheck /\ SelectedSound

(* A candidate leaves "provisional" once and keeps the status it then      *)
(* gets; its transcript and the verdicts it rests on never change.         *)
CandidateFinal ==
    [][\A d \in DOMAIN candidates :
         /\ candidates'[d] = candidates[d]
         /\ CandidateStatus(d) # "provisional" => CandidateStatus(d)' = CandidateStatus(d)]_vars

(* A route only grows, and the routes other branches inherited from it     *)
(* keep being its prefix.                                                  *)
RoutesOnlyGrow ==
    [][\A b \in DOMAIN branches :
         SubSeq(branches'[b].route, 1, Len(branches[b].route)) = branches[b].route]_vars

(* A killed branch is dead: nothing seals a step in it, completes it,      *)
(* parks it for a revision or brings it back.                              *)
KilledStay == \A b \in DOMAIN branches : branches[b].status = "killed" => branches'[b] = branches[b]

(* What a branch inherits is still true of it: the evidence of the checks  *)
(* it shares, and where the text of its steps came from.                   *)
InheritanceSound == EvidenceVisible /\ ProvenanceSound

(* Revisions, which activate a branch by themselves and use an old output, *)
(* neither use a call twice nor run more branches than the task allows.    *)
RevisionsSound == OneStepPerCall /\ ActiveWithinCap

(* What later calls were given stays as it is, and what was given up is    *)
(* never taken up again.                                                   *)
SettledStays == [][SealedOutputFixed' /\ KilledStay]_vars

=============================================================================
