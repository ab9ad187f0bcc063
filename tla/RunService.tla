------------------------------ MODULE RunService ------------------------------
(***************************************************************************)
(* The runs of one service, derivation_app/service.py: who makes and who   *)
(* closes the runtime of a run (its App Server child), the one driver task *)
(* of a run, its commands, and the start, close and crash of the service.  *)
(* A step ends at an await.  What an operation does to the Record is here  *)
(* only the phase it leaves; module Orchestrator has the rest.             *)
(***************************************************************************)
EXTENDS RunNames, Naturals, FiniteSets

VARIABLES
    service,     \* down, up, settling (close waits for drivers) or closing (it closes runtimes)
    closeFailed, \* _close_failed
    todo,        \* the runtimes this close has not tried yet
    ctx          \* the RunContext of each run, with what is on the disk and its child

serviceVars == <<service, closeFailed, todo, ctx>>

Absent == [known |-> FALSE, saved |-> FALSE, phase |-> "exploring", calling |-> FALSE, pause |-> FALSE,
           error |-> "none", interrupted |-> FALSE, shown |-> "none", runtime |-> FALSE, orch |-> FALSE,
           child |-> FALSE, lock |-> "free", driver |-> "none", op |-> "none", command |-> "none", at |-> "none"]

Commands == {"create", "pause", "resume", "interrupt", "branch"}
Context ==
    [known : BOOLEAN, saved : BOOLEAN, phase : {"exploring", "paused", "review"}, calling : BOOLEAN, pause : BOOLEAN,
     error : {"none", "memory", "manifest"}, interrupted : BOOLEAN,
     shown : {"none", "exploring", "recovering", "interrupted", "error"},
     runtime : BOOLEAN, orch : BOOLEAN, child : BOOLEAN, lock : {"free", "command", "driver"},
     driver : {"none", "scheduled", "ensure", "operation", "typeset", "release", "releasing"},
     op : {"none", "drive", "resume", "branch", "reconcile", "recover", "typeset"},
     command : Commands \cup {"none"}, at : {"none", "ensure", "abort", "wait", "undo"}]

(* The lock is held by one who is where the lock is taken, and an           *)
(* orchestrator never outlives its runtime (the code raises when it does). *)
ServiceTypeOK ==
    /\ service \in {"down", "up", "settling", "closing"} /\ closeFailed \in BOOLEAN
    /\ todo \subseteq Run /\ ctx \in [Run -> Context]
    /\ \A r \in Run : LET c == ctx[r] IN
          /\ c.orch => c.runtime /\ c.known
          /\ c.lock = "command" => c.at = "ensure"
          /\ c.lock = "driver" => c.driver \in {"ensure", "releasing"}
          /\ c.at = "none" <=> c.command = "none"

ServiceInit == service = "up" /\ closeFailed = FALSE /\ todo = {} /\ ctx = [r \in Run |-> Absent]

Put(r, c) == ctx' = [ctx EXCEPT ![r] = c]

\* _phase: what the user is shown.
Phase(c) ==
    IF c.interrupted THEN "interrupted" ELSE IF c.error # "none" THEN "error"
    ELSE IF c.shown # "none" THEN c.shown ELSE c.phase

-----------------------------------------------------------------------------
(* _ensure_orchestrator, for a command or for the driver, and runtime_lock *)

At(c, who) == IF who = "command" THEN c.at = "ensure" ELSE c.driver = "ensure"

\* The lock goes to the one who waits for it.
Unlocked(c) ==
    [c EXCEPT !.lock = IF c.driver = "ensure" THEN "driver" ELSE IF c.at = "ensure" THEN "command" ELSE "free"]

Scheduled(c, op) == [c EXCEPT !.driver = "scheduled", !.op = op]
Stopped(c) == [c EXCEPT !.driver = "none", !.op = "none"]
Failed(c) == [Stopped(c) EXCEPT !.error = "manifest", !.shown = "error"]
Finished(c) == [Stopped(c) EXCEPT !.shown = "none"]

\* A cancelled driver cleans up after its factory and frees the lock; what is shown stays.
Cancelled(c) == IF c.lock = "driver" THEN Unlocked(Stopped(c)) ELSE Stopped(c)

\* What follows once the run has its orchestrator.
Onward(c, who) ==
    IF who = "driver" THEN [c EXCEPT !.driver = IF c.op = "typeset" THEN "typeset" ELSE "operation"]
    ELSE CASE c.command = "create" ->
                 [Scheduled(c, "drive") EXCEPT !.saved = TRUE, !.shown = "exploring", !.command = "none", !.at = "none"]
           [] c.command = "pause"  -> [c EXCEPT !.pause = TRUE, !.command = "none", !.at = "none"]
           [] c.command = "resume" ->
                 [(IF c.driver = "none" THEN Scheduled(c, "resume") ELSE c) EXCEPT !.command = "none", !.at = "none"]
           [] c.command = "branch" ->
                 IF c.driver = "none" THEN [Scheduled(c, "branch") EXCEPT !.at = "wait"]
                 ELSE [c EXCEPT !.command = "none", !.at = "none"]
           [] OTHER -> [c EXCEPT !.at = "abort"]

\* At once with the orchestrator there is, or inside the factory, or waiting for the lock.
Ensure(c, who) ==
    IF c.orch THEN Onward(c, who)
    ELSE [c EXCEPT !.at = IF who = "command" THEN "ensure" ELSE @, !.driver = IF who = "driver" THEN "ensure" ELSE @,
                   !.lock = IF @ = "free" THEN who ELSE @]

\* The exception reaches the command, or the driver; a layer that fails is only logged.
Raised(c, who) ==
    IF who = "driver" THEN IF c.op = "typeset" THEN [c EXCEPT !.driver = "release"] ELSE Failed(c)
    ELSE IF c.command = "create" /\ c.runtime THEN [c EXCEPT !.at = "undo"]
    ELSE [c EXCEPT !.command = "none", !.at = "none", !.known = c.command # "create"]

InFactory(c, who) == At(c, who) /\ c.lock = who /\ ~c.orch

\* The other one made it while this one waited.
HasOrchestrator(r, who) ==
    /\ At(ctx[r], who) /\ ctx[r].lock = who /\ ctx[r].orch
    /\ Put(r, Unlocked(Onward(ctx[r], who)))
    /\ UNCHANGED <<service, closeFailed, todo>>

\* The profile lock lets one child live.
FactoryMakes(r, who) ==
    LET c == [ctx[r] EXCEPT !.runtime = TRUE, !.orch = TRUE, !.child = TRUE] IN
    /\ InFactory(ctx[r], who) /\ \A s \in Run : ~ctx[s].child
    /\ \/ Put(r, Unlocked(Onward(c, who)))
       \* Anything after this may still fail a create, with its manifest written or not.
       \/ /\ who = "command" /\ c.command = "create"
          /\ \E saved \in BOOLEAN : Put(r, Unlocked([Raised(c, who) EXCEPT !.saved = saved]))
    /\ UNCHANGED <<service, closeFailed, todo>>

\* Mutant: a factory that fails keeps the lock.
FactoryFailsHolding(r, who) ==
    /\ InFactory(ctx[r], who)
    /\ Put(r, Raised(ctx[r], who))
    /\ UNCHANGED <<service, closeFailed, todo>>

FactoryFails(r, who) ==
    /\ InFactory(ctx[r], who)
    /\ Put(r, Unlocked(Raised(ctx[r], who)))
    /\ UNCHANGED <<service, closeFailed, todo>>

\* A runtime that cannot be bound and does not close either is kept for the close of the
\* service. (One that closes is a factory that failed.)
BindFails(r, who) ==
    /\ InFactory(ctx[r], who) /\ \A s \in Run : ~ctx[s].child /\ UNCHANGED <<service, todo>>
    /\ Put(r, Unlocked(Raised([ctx[r] EXCEPT !.runtime = TRUE, !.child = TRUE], who))) /\ closeFailed' = TRUE

-----------------------------------------------------------------------------
(* The driver task of a run: _schedule_driver *)

DriverStarts(r) ==
    LET c == ctx[r] IN
    /\ c.driver = "scheduled"
    /\ Put(r, CASE c.op = "reconcile" -> Ensure([c EXCEPT !.shown = "recovering"], "driver")
                [] c.op = "recover"   -> Ensure([c EXCEPT !.shown = "exploring"], "driver")
                [] c.op = "typeset"   -> [c EXCEPT !.shown = "recovering", !.driver = "typeset"]
                [] c.op = "resume"    -> [c EXCEPT !.shown = "exploring", !.driver = "operation",
                                                   !.phase = "exploring", !.pause = FALSE]
                [] OTHER              -> [c EXCEPT !.shown = "exploring", !.driver = "operation"])
    /\ UNCHANGED <<service, closeFailed, todo>>

CallStarts(r) ==
    /\ ctx[r].driver = "operation" /\ ~ctx[r].calling /\ ctx[r].phase = "exploring"
    /\ Put(r, [ctx[r] EXCEPT !.calling = TRUE])
    /\ UNCHANGED <<service, closeFailed, todo>>

CallEnds(r) ==
    /\ ctx[r].driver = "operation" /\ ctx[r].calling
    /\ Put(r, [ctx[r] EXCEPT !.calling = FALSE])
    /\ UNCHANGED <<service, closeFailed, todo>>

\* The Record has its new branch, and the waiting command its answer.
BranchOpens(r) ==
    /\ ctx[r].driver = "operation" /\ ctx[r].op = "branch" /\ ctx[r].phase = "review"
    /\ Put(r, [ctx[r] EXCEPT !.phase = "exploring",
                             !.command = IF @ = "branch" THEN "none" ELSE @, !.at = IF @ = "wait" THEN "none" ELSE @])
    /\ UNCHANGED <<service, closeFailed, todo>>

OperationEnds(r) ==
    /\ ctx[r].driver = "operation" /\ ~ctx[r].calling /\ ctx[r].phase = "exploring"
    /\ \E phase \in {"paused", "review"} : Put(r, [ctx[r] EXCEPT !.driver = "typeset", !.phase = phase])
    /\ UNCHANGED <<service, closeFailed, todo>>

OperationFails(r) ==
    /\ ctx[r].driver = "operation"
    /\ Put(r, Failed(ctx[r]))
    /\ UNCHANGED <<service, closeFailed, todo>>

\* _typeset_completed_routes: nothing to do, or a layer that needs a runtime.
Typesets(r) ==
    LET c == ctx[r] IN
    /\ c.driver = "typeset"
    /\ \/ Put(r, [c EXCEPT !.driver = "release"])
       \/ c.op = "typeset" /\ ~c.runtime /\ service = "up" /\ Put(r, Ensure(c, "driver"))
    /\ UNCHANGED <<service, closeFailed, todo>>

\* _release_review_terminal_runtime, under the runtime lock.
ReleaseBegins(r) ==
    LET c == ctx[r] IN
    /\ c.driver = "release"
    /\ \/ c.phase # "review" /\ Put(r, Finished(c))
       \/ /\ c.phase = "review" /\ c.lock = "free"
          /\ Put(r, IF c.runtime THEN [c EXCEPT !.driver = "releasing", !.lock = "driver"] ELSE Finished(c))
    /\ UNCHANGED <<service, closeFailed, todo>>

ReleaseEnds(r) ==
    LET c == ctx[r] IN
    /\ c.driver = "releasing" /\ UNCHANGED <<service, todo>>
    /\ \/ /\ Put(r, Unlocked([Finished(c) EXCEPT !.runtime = FALSE, !.orch = FALSE, !.child = FALSE]))
          /\ UNCHANGED closeFailed
       \* The run is in error until the service has closed; the manifest does not say so.
       \/ /\ \E child \in BOOLEAN :
                Put(r, Unlocked([Stopped(c) EXCEPT !.error = "memory", !.shown = "error", !.child = child]))
          /\ closeFailed' = TRUE

-----------------------------------------------------------------------------
(* Commands, each under the command lock of its run *)

Idle(r) == service = "up" /\ ~closeFailed /\ ctx[r].command = "none"

Begin(r, command) ==
    /\ Idle(r) /\ ctx[r].known
    /\ Put(r, Ensure([ctx[r] EXCEPT !.command = command], "command"))
    /\ UNCHANGED <<service, closeFailed, todo>>

\* Under the service lock: one create at a time.
CreateRun(r) ==
    /\ Idle(r) /\ ~ctx[r].known /\ ~ctx[r].saved /\ \A s \in Run : ctx[s].command # "create"
    /\ Put(r, Ensure([Absent EXCEPT !.known = TRUE, !.command = "create"], "command"))
    /\ UNCHANGED <<service, closeFailed, todo>>

PauseRun(r)     == Phase(ctx[r]) = "exploring" /\ ~ctx[r].pause /\ Begin(r, "pause")
ResumeRun(r)    == Phase(ctx[r]) = "paused" /\ Begin(r, "resume")
CreateBranch(r) == Phase(ctx[r]) = "review" /\ Begin(r, "branch")

\* The driver is cancelled and waited for.
InterruptRun(r) ==
    /\ Idle(r) /\ ctx[r].known /\ ctx[r].calling
    /\ Put(r, Ensure([Cancelled(ctx[r]) EXCEPT !.command = "interrupt"], "command"))
    /\ UNCHANGED <<service, closeFailed, todo>>

InterruptEnds(r) ==
    LET c == [ctx[r] EXCEPT !.command = "none", !.at = "none"] IN
    /\ ctx[r].at = "abort"
    /\ \/ Put(r, [c EXCEPT !.calling = FALSE, !.interrupted = TRUE, !.shown = "interrupted"])
       \/ Put(r, c)
    /\ UNCHANGED <<service, closeFailed, todo>>

\* The driver ended without a branch.
BranchFails(r) ==
    /\ ctx[r].at = "wait" /\ ctx[r].driver = "none"
    /\ Put(r, [ctx[r] EXCEPT !.command = "none", !.at = "none"])
    /\ UNCHANGED <<service, closeFailed, todo>>

\* A create that failed closes its runtime and forgets the run, or keeps both.
CreateUndone(r) ==
    LET c == [ctx[r] EXCEPT !.command = "none", !.at = "none"] IN
    /\ ctx[r].at = "undo" /\ UNCHANGED <<service, todo>>
    /\ \/ Put(r, [Absent EXCEPT !.saved = c.saved]) /\ UNCHANGED closeFailed
       \/ Put(r, c) /\ closeFailed' = TRUE

-----------------------------------------------------------------------------
(* start, close and the end of the process *)

\* Drivers without an orchestrator are cancelled, the others asked to pause.
Settling(c) ==
    IF c.driver = "none" THEN c ELSE IF c.orch THEN [c EXCEPT !.pause = TRUE] ELSE Cancelled(c)

\* The HTTP server has answered every request before it closes the service.
CloseBegins ==
    /\ service = "up" /\ \A r \in Run : ctx[r].command = "none"
    /\ service' = "settling" /\ ctx' = [r \in Run |-> IF ctx[r].known THEN Settling(ctx[r]) ELSE ctx[r]]
    /\ UNCHANGED <<closeFailed, todo>>

\* All drivers are done, or five seconds are over and the rest is cancelled.
Settled ==
    /\ service = "settling" /\ service' = "closing"
    /\ ctx' = [r \in Run |-> IF ctx[r].driver # "none" THEN Cancelled(ctx[r]) ELSE ctx[r]]
    /\ todo' = {r \in Run : ctx[r].known /\ ctx[r].runtime}
    /\ UNCHANGED closeFailed

ClosesRuntime(r) ==
    /\ service = "closing" /\ r \in todo /\ todo' = todo \ {r} /\ UNCHANGED <<service, closeFailed>>
    /\ \/ Put(r, [ctx[r] EXCEPT !.runtime = FALSE, !.orch = FALSE, !.child = FALSE])
       \/ UNCHANGED ctx

\* Mutant: a close that left a runtime behind counts as done.
CloseEndsAnyway ==
    /\ service = "closing" /\ todo = {} /\ service' = "down" /\ closeFailed' = FALSE
    /\ UNCHANGED <<ctx, todo>>

\* A runtime that did not close keeps the service up, for another close.
CloseEnds ==
    LET left == \E r \in Run : ctx[r].known /\ ctx[r].runtime IN
    /\ service = "closing" /\ todo = {} /\ UNCHANGED <<ctx, todo>>
    /\ service' = (IF left THEN "up" ELSE "down") /\ closeFailed' = left

\* _load_context and _schedule_recovery
Reloaded(c) ==
    [Absent EXCEPT !.known = TRUE, !.saved = TRUE, !.phase = c.phase, !.calling = c.calling, !.pause = c.pause,
                   !.interrupted = c.interrupted, !.error = IF c.error = "manifest" THEN "manifest" ELSE "none"]

Recovered(c) ==
    IF c.interrupted \/ c.error # "none" THEN {c}
    ELSE IF c.calling THEN {Scheduled(c, "reconcile")}
    ELSE IF c.phase = "exploring" THEN {Scheduled(c, "recover")}
    ELSE {c, [Scheduled(c, "typeset") EXCEPT !.shown = "recovering"]}

ServiceStarts ==
    /\ service = "down" /\ service' = "up" /\ UNCHANGED <<closeFailed, todo>>
    /\ \E f \in [Run -> UNION {Recovered(Reloaded(ctx[r])) : r \in Run} \cup {Absent}] :
          /\ \A r \in Run : IF ctx[r].saved THEN f[r] \in Recovered(Reloaded(ctx[r])) ELSE f[r] = Absent
          /\ ctx' = f

\* The children end with the process that holds their pipes.
ServiceCrashes ==
    /\ service # "down" /\ service' = "down" /\ closeFailed' = FALSE /\ todo' = {}
    /\ ctx' = [r \in Run |-> IF ctx[r].saved THEN Reloaded(ctx[r]) ELSE Absent]

RunStep(r) ==
    \/ DriverStarts(r) \/ CallStarts(r) \/ CallEnds(r) \/ BranchOpens(r) \/ OperationEnds(r) \/ OperationFails(r)
    \/ Typesets(r) \/ ReleaseBegins(r) \/ ReleaseEnds(r)
    \/ \E who \in {"command", "driver"} :
          HasOrchestrator(r, who) \/ FactoryMakes(r, who) \/ FactoryFails(r, who) \/ BindFails(r, who)
    \/ CreateRun(r) \/ PauseRun(r) \/ ResumeRun(r) \/ CreateBranch(r) \/ InterruptRun(r)
    \/ InterruptEnds(r) \/ BranchFails(r) \/ CreateUndone(r) \/ ClosesRuntime(r)

ServiceNext == CloseBegins \/ Settled \/ CloseEnds \/ ServiceStarts \/ ServiceCrashes \/ \E r \in Run : RunStep(r)

ServiceSpec == ServiceInit /\ [][ServiceNext]_serviceVars

\* Tasks run, a factory and a close come to an end, and a branch opens or its driver fails.
FactoryEnds(r, who) == FactoryMakes(r, who) \/ FactoryFails(r, who) \/ BindFails(r, who)
Unattended(r) ==
    \/ DriverStarts(r) \/ InterruptEnds(r) \/ BranchFails(r) \/ CreateUndone(r) \/ ReleaseEnds(r)
    \/ (ctx[r].at = "wait" /\ (BranchOpens(r) \/ OperationFails(r)))
    \/ \E who \in {"command", "driver"} : HasOrchestrator(r, who) \/ FactoryEnds(r, who)

-----------------------------------------------------------------------------

Held(c) == c.known /\ (c.runtime \/ c.lock # "free")

(* A child that lives can always be closed: some run of the service refers *)
(* to its runtime, whatever failed while it was made, used or released.    *)
RuntimeReachable == \A r \in Run : ctx[r].child => Held(ctx[r])

(* A service that has closed left no child behind.                         *)
ClosedIsClean == service = "down" => \A r \in Run : ~ctx[r].child /\ ctx[r].driver = "none"

(* The driver never runs an operation whose runtime has been closed: no    *)
(* release, close or failed bind takes it away from under the operation.   *)
OperationHasRuntime ==
    \A r \in Run : ctx[r].driver = "operation" /\ service # "closing" => ctx[r].orch /\ ctx[r].runtime /\ ctx[r].child

\* Nothing is under way for a run.
AtRest(c) == c.known /\ c.driver = "none" /\ c.command = "none"

(* A run that says it is running, while nothing runs it, still has a call  *)
(* that can be interrupted: a failed interrupt strands nobody. (A service  *)
(* in which a close failed takes no commands, so that nobody can act.)     *)
WayOut ==
    \A r \in Run : service = "up" /\ ~closeFailed /\ AtRest(ctx[r]) /\ Phase(ctx[r]) \in {"exploring", "recovering"} => ctx[r].calling

(* A run offered for review has given back its child, and with it the      *)
(* profile that every other run waits for.                                 *)
ReviewReleases == \A r \in Run : ~closeFailed /\ AtRest(ctx[r]) /\ Phase(ctx[r]) = "review" => ~ctx[r].child

(* One driver runs a run, and a command that schedules another has waited  *)
(* for it: what is paused or under review is not being driven.             *)
RestIsRest ==
    \A r \in Run : Phase(ctx[r]) \in {"paused", "review"} => ctx[r].driver \in {"none", "scheduled", "ensure"}

(* Every command is answered, whoever makes or closes the runtime it needs *)
(* in the meantime.                                                        *)
CommandEnds == \A r \in Run : ctx[r].command # "none" ~> ctx[r].command = "none"

(* A runtime is held for as long as anything uses it, and no longer; the   *)
(* phase a user sees is true, and always leaves something to do.           *)
RunsSound ==
    /\ ServiceTypeOK /\ RuntimeReachable /\ OperationHasRuntime /\ ReviewReleases /\ ClosedIsClean
    /\ WayOut /\ RestIsRest

=============================================================================
