---------------------------- MODULE RouteTypeset -----------------------------
(***************************************************************************)
(* The typeset layers of a run's completed routes (route_typeset.py and    *)
(* formula_compiler.py).  After an operation of a run's driver, and again  *)
(* after a restart, the service builds a layer for every completed route   *)
(* that has none a reader would accept: it compiles the formulas, asks the *)
(* Writer to repair those that fail, guards each correction, has the       *)
(* Checker review those beyond the guard, compiles again, and writes what  *)
(* it found.  Until then the run is not shown as ready.                    *)
(*                                                                         *)
(* A formula's text is "recorded", "expanded" (a quotation with the macros *)
(* of its source) or a correction; of the journal of calls only the number *)
(* of its lines is kept, and of a route only how often its steps changed.  *)
(***************************************************************************)
EXTENDS Naturals, FiniteSets

CONSTANTS Route, Formula, Correction,
          Quoted,           \* the formulas of quotations
          Harmless,         \* the corrections within the syntax-only guard
          MaxRepairRounds,  \* MAX_REPAIR_ROUNDS
          CallsLeft,        \* max_model_calls less the calls of the Record
          MaxVersion, MaxSlips  \* bounds: changes of a route; crashes and lost journal lines

ASSUME TypesetAssumption ==
    {CallsLeft, MaxRepairRounds, MaxSlips} \subseteq Nat /\ MaxVersion \in Nat \ {0}

VARIABLES
    version,    \* of each route's recorded steps
    layer,      \* the layer file of each route
    lines,      \* journal lines that can be counted
    tornLine,       \* does the journal end in a part of a line?
    shown,      \* "running", "ready", "down": the run as a client sees it
    gaveUp,     \* did the last attempt end in an error that was only logged?
    typesetAt,         \* where typeset_route stands
    route,      \* the route it works on
    routesLeft,       \* the routes it has still to do
    repairRound, outcome,
    quoted,     \* the formulas it takes for quotations
    copied, status, final, failing,  \* of each formula
    compiling,     \* the formulas still in the document being compiled
    items,      \* the corrections to be reviewed
    changed,    \* was a correction of this round accepted?
    document,   \* the texts that the last verdict saw compile together
    equivalent, \* the corrections the Checker called equivalent
    started, slips  \* calls started, and those the journal missed

layerVars == <<version, layer>>
journalVars == <<lines, tornLine, started, slips>>
runVars == <<shown, gaveUp>>
formulaVars == <<copied, status, final, failing>>
roundVars == <<repairRound, outcome, compiling, items, changed, document, equivalent>>
jobVars == <<typesetAt, route, routesLeft, quoted>>
typesetVars == <<layerVars, journalVars, runVars, formulaVars, roundVars, jobVars>>

NoLayer == [version |-> 0]
NoCorrection == [f \in {} |-> "recorded"]
Substituted == {"ok", "expanded", "repaired", "reviewed"}

\* A reader accepts a layer only for the steps it cites.
Verified(r) == layer[r].version = version[r]
Pending == {r \in Route : ~Verified(r)}

Used == lines + (IF tornLine THEN 1 ELSE 0)
Available == Used < CallsLeft

TypesetInit ==
    /\ version = [r \in Route |-> 1] /\ layer = [r \in Route |-> NoLayer]
    /\ lines = 0 /\ tornLine = FALSE /\ started = 0 /\ slips = 0
    /\ shown = "running" /\ gaveUp = FALSE
    /\ typesetAt = "rest" /\ route \in Route /\ routesLeft = {} /\ quoted = Quoted
    /\ copied = [f \in Formula |-> "recorded"] /\ status = [f \in Formula |-> "ok"]
    /\ final = {} /\ failing = [f \in Formula |-> "recorded"]
    /\ repairRound = 0 /\ outcome = "compiled" /\ compiling = {} /\ items = NoCorrection
    /\ changed = FALSE /\ document = {} /\ equivalent = {}

-----------------------------------------------------------------------------
(* The run around it. *)

\* The driver works again and may change a route it had completed.
Resumes ==
    /\ shown = "ready" /\ shown' = "running" /\ gaveUp' = FALSE
    /\ \E r \in Route : /\ version[r] < MaxVersion
                        /\ version' = [version EXCEPT ![r] = @ + 1]
    /\ UNCHANGED <<layer, journalVars, formulaVars, roundVars, jobVars>>

\* _collect_formulas: without the analysis of its step a formula is taken for
\* a quotation; with it a quotation may be expanded.
Collected(r, rest) ==
    /\ route' = r /\ routesLeft' = rest /\ typesetAt' = "round"
    /\ \E analysed \in BOOLEAN, expands \in SUBSET Quoted :
          /\ ~analysed => expands = {}
          /\ quoted' = IF analysed THEN Quoted ELSE Formula
          /\ copied' = [f \in Formula |-> IF f \in expands THEN "expanded" ELSE "recorded"]
          /\ status' = [f \in Formula |-> IF f \in expands THEN "expanded" ELSE "ok"]
    /\ final' = {} /\ failing' = [f \in Formula |-> "recorded"]
    /\ repairRound' = 0 /\ outcome' = "compiled" /\ compiling' = {} /\ items' = NoCorrection
    /\ changed' = FALSE /\ document' = {} /\ equivalent' = {}

\* The operation, or a restart's recovery, has ended: build what is missing.
WorkEnds ==
    /\ shown = "running" /\ typesetAt = "rest"
    /\ IF Pending = {}
       THEN shown' = "ready" /\ UNCHANGED <<jobVars, formulaVars, roundVars>>
       ELSE UNCHANGED shown /\ \E r \in Pending : Collected(r, Pending \ {r})
    /\ UNCHANGED <<layerVars, journalVars, gaveUp>>

\* An error of an attempt is logged, and the run shown without a layer.
GivesUp ==
    /\ \/ typesetAt = "rest" /\ shown = "running" /\ Pending # {}
       \/ typesetAt \in {"round", "write"}
    /\ typesetAt' = "rest" /\ shown' = "ready" /\ gaveUp' = TRUE
    /\ UNCHANGED <<layerVars, journalVars, route, routesLeft, quoted, formulaVars, roundVars>>

\* A crash, also between the start of a call and its line, or within the line.
Crash ==
    /\ shown # "down" /\ slips < MaxSlips
    /\ shown' = "down" /\ gaveUp' = FALSE /\ typesetAt' = "rest" /\ slips' = slips + 1
    /\ tornLine' \in IF typesetAt \in {"noteRepair", "noteReview"} THEN {tornLine, TRUE} ELSE {tornLine}
    /\ UNCHANGED <<layerVars, lines, started, route, routesLeft, quoted, formulaVars, roundVars>>

\* The phase moves before the task is scheduled.
Restart ==
    /\ shown = "down"
    /\ shown' = IF Pending = {} THEN "ready" ELSE "running"
    /\ UNCHANGED <<layerVars, journalVars, gaveUp, jobVars, formulaVars, roundVars>>

-----------------------------------------------------------------------------
(* Compiling. *)

Compiled == {f \in Formula : status[f] \notin {"failed", "verbatim"}}

\* The formulas with a disabled command are never compiled.
RoundBegins ==
    /\ typesetAt = "round"
    /\ IF Compiled = {} THEN typesetAt' = "finish" /\ UNCHANGED compiling
       ELSE typesetAt' = "compile" /\ \E unsafe \in SUBSET Compiled : compiling' = Compiled \ unsafe
    /\ items' = NoCorrection /\ changed' = FALSE
    /\ UNCHANGED <<layerVars, journalVars, runVars, formulaVars, repairRound, outcome, document,
                   equivalent, route, routesLeft, quoted>>

\* compile_fragments: a failure the log locates, or the bisection finds, drops
\* its formulas, and the others are compiled again.
DropsFormulas ==
    /\ typesetAt = "compile" /\ compiling # {}
    /\ \E f \in compiling : compiling' = compiling \ {f}
    /\ UNCHANGED <<layerVars, journalVars, runVars, formulaVars, jobVars, repairRound, outcome, items,
                   changed, document, equivalent>>

\* Any other failure of the compiler, or one that cannot be attributed.
CompilerFails ==
    /\ typesetAt = "compile" /\ compiling # {}
    /\ typesetAt' = "finish" /\ outcome' = "infrastructure"
    /\ UNCHANGED <<layerVars, journalVars, runVars, formulaVars, repairRound, compiling, items, changed,
                   document, equivalent, route, routesLeft, quoted>>

\* Mutant: a text that failed stays in the copy.
JudgedKeeping(accepted) ==
    LET failed == Compiled \ accepted
    IN /\ failing' = [f \in Formula |-> IF f \in failed THEN copied[f] ELSE failing[f]]
       /\ status' = [f \in Formula |-> IF f \notin failed THEN status[f]
                                       ELSE IF f \in quoted THEN "verbatim" ELSE "ok"]
       /\ final' = (final \ failed) \cup accepted \cup (failed \cap quoted)
       /\ document' = {<<f, copied[f]>> : f \in accepted}
       /\ UNCHANGED copied

\* The texts, statuses and final formulas after a compile that accepted
\* ``accepted``: nothing unverified is left in the copy, and a quotation that
\* fails is shown verbatim.
Judged(accepted) ==
    LET failed == Compiled \ accepted
    IN /\ copied' = [f \in Formula |-> IF f \in failed THEN "recorded" ELSE copied[f]]
       /\ failing' = [f \in Formula |-> IF f \in failed THEN copied[f] ELSE failing[f]]
       /\ status' = [f \in Formula |-> IF f \notin failed THEN status[f]
                                       ELSE IF f \in quoted THEN "verbatim" ELSE "ok"]
       /\ final' = (final \ failed) \cup accepted \cup (failed \cap quoted)
       /\ document' = {<<f, copied[f]>> : f \in accepted}

\* What the Writer can be asked to repair.
Targets == {f \in Formula \ quoted : f \notin final /\ status[f] # "failed"}

DocumentCompiles ==
    /\ typesetAt = "compile" /\ Judged(compiling) /\ UNCHANGED quoted
    /\ typesetAt' = IF Targets' = {} \/ repairRound = MaxRepairRounds THEN "finish" ELSE "repair"
    /\ UNCHANGED <<layerVars, journalVars, runVars, repairRound, outcome, compiling, items, changed,
                   equivalent, route, routesLeft>>

-----------------------------------------------------------------------------
(* Asking for repairs and for reviews: start, journal, collect. *)

\* A correction without a verdict fails, for good.
Refused(fs) ==
    /\ status' = [f \in Formula |-> IF f \in fs THEN "failed" ELSE status[f]]
    /\ final' = final \cup fs

\* The round is over: compile again if a correction was accepted.
RoundEnds(accepted) ==
    IF accepted THEN typesetAt' = "round" /\ repairRound' = repairRound + 1
    ELSE typesetAt' = "finish" /\ UNCHANGED repairRound

\* A repair that is not to be had ends the repairs; a review, its items.
Unanswered(call) ==
    /\ IF call = "Repair"
       THEN typesetAt' = "finish" /\ UNCHANGED <<formulaVars, repairRound>>
       ELSE Refused(DOMAIN items) /\ RoundEnds(changed) /\ UNCHANGED <<copied, failing>>
    /\ UNCHANGED <<outcome, compiling, items, changed, document, equivalent>>

AskingFor == [Repair |-> "repair", Review |-> "review"]
Noting == [Repair |-> "noteRepair", Review |-> "noteReview"]
Collecting == [Repair |-> "collectRepair", Review |-> "collectReview"]
Call == {"Repair", "Review"}

MayAsk(call) == Available

TypesetCallStarts(call) ==
    /\ typesetAt = AskingFor[call] /\ MayAsk(call)
    /\ started' = started + 1 /\ typesetAt' = Noting[call]
    /\ UNCHANGED <<layerVars, lines, tornLine, slips, runVars, formulaVars, roundVars, route, routesLeft, quoted>>

\* No runtime, no budget, or a provider that refuses, after it began or before.
CallRefused(call) ==
    /\ typesetAt = AskingFor[call] /\ Unanswered(call)
    /\ \/ UNCHANGED <<started, slips>>
       \/ /\ MayAsk(call) /\ slips < MaxSlips
          /\ started' = started + 1 /\ slips' = slips + 1
    /\ UNCHANGED <<layerVars, lines, tornLine, runVars, route, routesLeft, quoted>>

\* A line written after a part of one continues it.
CallNoted(call) ==
    /\ typesetAt = Noting[call] /\ typesetAt' = Collecting[call]
    /\ lines' = lines + 1 /\ tornLine' = FALSE
    /\ UNCHANGED <<layerVars, started, slips, runVars, formulaVars, roundVars, route, routesLeft, quoted>>

\* An append that fails is only said in the layer.
CallNotNoted(call) ==
    /\ typesetAt = Noting[call] /\ typesetAt' = Collecting[call] /\ slips < MaxSlips
    /\ tornLine' \in {tornLine, TRUE} /\ slips' = slips + 1
    /\ UNCHANGED <<layerVars, lines, started, runVars, formulaVars, roundVars, route, routesLeft, quoted>>

CallFails(call) ==
    /\ typesetAt = Collecting[call] /\ Unanswered(call)
    /\ UNCHANGED <<layerVars, journalVars, runVars, route, routesLeft, quoted>>

\* A usable correction is a new body: within the guard it is taken, beyond it
\* it goes to the review.  The others change nothing.
Usable(f, c) == c # failing[f]

CorrectionsArrive ==
    /\ typesetAt = "collectRepair"
    /\ \E fs \in SUBSET Targets : \E answer \in [fs -> Correction] :
          LET usable == {f \in fs : Usable(f, answer[f])}
              taken == {f \in usable : answer[f] \in Harmless}
          IN /\ copied' = [f \in Formula |-> IF f \in taken THEN answer[f] ELSE copied[f]]
             /\ status' = [f \in Formula |-> IF f \in taken THEN "repaired" ELSE status[f]]
             /\ items' = [f \in usable \ taken |-> answer[f]]
             /\ changed' = (taken # {})
             /\ IF usable = taken THEN RoundEnds(taken # {})
                ELSE typesetAt' = "review" /\ UNCHANGED repairRound
    /\ UNCHANGED <<layerVars, journalVars, runVars, final, failing, outcome, compiling, document,
                   equivalent, route, routesLeft, quoted>>

VerdictsArrive ==
    /\ typesetAt = "collectReview"
    /\ \E same \in SUBSET DOMAIN items :
          /\ copied' = [f \in Formula |-> IF f \in same THEN items[f] ELSE copied[f]]
          /\ status' = [f \in Formula |-> IF f \in same THEN "reviewed"
                                          ELSE IF f \in DOMAIN items THEN "failed" ELSE status[f]]
          /\ final' = final \cup (DOMAIN items \ same)
          /\ equivalent' = equivalent \cup {<<f, items[f]>> : f \in same}
          /\ RoundEnds(changed \/ same # {})
    /\ UNCHANGED <<layerVars, journalVars, runVars, failing, outcome, compiling, items, changed,
                   document, route, routesLeft, quoted>>

-----------------------------------------------------------------------------
(* The layer. *)

\* What no compile verified is delivered as it was recorded.
Finishes ==
    /\ typesetAt = "finish" /\ typesetAt' = "write"
    /\ LET verified == {f \in final : status[f] # "failed"}
       IN /\ copied' = [f \in Formula |-> IF f \in verified THEN copied[f] ELSE "recorded"]
          /\ status' = [f \in Formula |->
                IF f \in verified THEN status[f]
                ELSE IF f \notin final /\ outcome = "infrastructure" THEN "not_compiled" ELSE "failed"]
    /\ UNCHANGED <<layerVars, journalVars, runVars, final, failing, roundVars, route, routesLeft, quoted>>

\* write_typeset_layer replaces the file in one step; then the next route.
LayerWritten ==
    /\ typesetAt = "write"
    /\ layer' = [layer EXCEPT ![route] = [version |-> version[route]]]
    /\ IF routesLeft = {}
       THEN /\ typesetAt' = "rest" /\ shown' = "ready"
            /\ UNCHANGED <<route, routesLeft, quoted, formulaVars, roundVars>>
       ELSE UNCHANGED shown /\ \E r \in routesLeft : Collected(r, routesLeft \ {r})
    /\ UNCHANGED <<version, journalVars, gaveUp>>

TypesetNext ==
    \/ Resumes \/ WorkEnds \/ GivesUp \/ Crash \/ Restart
    \/ RoundBegins \/ DropsFormulas \/ CompilerFails \/ DocumentCompiles
    \/ \E call \in Call : TypesetCallStarts(call) \/ CallRefused(call) \/ CallNoted(call)
                            \/ CallNotNoted(call) \/ CallFails(call)
    \/ CorrectionsArrive \/ VerdictsArrive \/ Finishes \/ LayerWritten

TypesetSpec == TypesetInit /\ [][TypesetNext]_typesetVars

-----------------------------------------------------------------------------
Place == {"rest", "round", "compile", "repair", "noteRepair", "collectRepair",
          "review", "noteReview", "collectReview", "finish", "write"}

\* The values the variables take.
TypesetTypeOK ==
    /\ version \in [Route -> 1..MaxVersion] /\ layer \in [Route -> [version : 0..MaxVersion]]
    /\ lines \in Nat /\ tornLine \in BOOLEAN /\ started \in Nat /\ slips \in 0..MaxSlips
    /\ shown \in {"running", "ready", "down"} /\ gaveUp \in BOOLEAN /\ typesetAt \in Place
    /\ route \in Route /\ routesLeft \subseteq Route \ {route} /\ repairRound \in 0..MaxRepairRounds
    /\ final \subseteq Formula /\ compiling \subseteq Formula
    /\ copied \in [Formula -> {"recorded", "expanded"} \cup Correction]
    /\ status \in [Formula -> Substituted \cup {"verbatim", "failed", "not_compiled"}]
    /\ typesetAt \in {"review", "noteReview", "collectReview"} => items # NoCorrection

(* What a layer shows in place of what was recorded compiled, together     *)
(* with all else that it typesets, and was expanded from a quotation's own *)
(* source, or lies within the guard, or was reviewed; everything else is   *)
(* as recorded.                                                            *)
DeliversChecked ==
    typesetAt = "write" =>
        \A f \in Formula :
            IF status[f] \in Substituted
            THEN /\ <<f, copied[f]>> \in document
                 /\ \/ copied[f] = "recorded"
                    \/ f \in quoted /\ copied[f] = "expanded"
                    \/ f \notin quoted /\ (copied[f] \in Harmless \/ <<f, copied[f]>> \in equivalent)
            ELSE copied[f] = "recorded"

(* A run is shown as ready only with a layer for the steps its routes have *)
(* now, unless an attempt failed.                                          *)
ReadyIsTypeset == shown = "ready" => gaveUp \/ Pending = {}

(* Over crashes and restarts no more calls are started than the budget     *)
(* leaves, but for those whose line was lost.                              *)
CallsWithinCap == started <= CallsLeft + slips

TypesetSound == TypesetTypeOK /\ DeliversChecked /\ ReadyIsTypeset /\ CallsWithinCap

=============================================================================
