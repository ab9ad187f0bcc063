---------------------------- MODULE FormulaGate ------------------------------
(***************************************************************************)
(* The formula gate between a finished Writer call and the step it becomes *)
(* (orchestrator.py _formula_gate, _formula_gate_v2; control.py            *)
(* record_formula_audit).  Every finished output gets a durable audit.     *)
(* Under formula-v1 a compiler judges it: a rejected one is written again  *)
(* while the slot's budget lasts, and then, or when the compiler fails,    *)
(* the run stops until it is resumed.  Under formula-v2 the output is      *)
(* normalized and judged by rules; it never stops the run, but the service *)
(* may come back from a restart with another normalizer.                   *)
(*                                                                         *)
(* One branch.  An output is what the gate sees in it: does the normalizer *)
(* edit it, and is it wrong?  A form is 0, the text as written, or the     *)
(* version of the normalizer that edited it.  A failed call pauses its     *)
(* branch at once: module Orchestrator has the steps in between.           *)
(***************************************************************************)
EXTENDS Naturals, Sequences, FiniteSets

CONSTANTS FormatRetries,  \* config.retries, the rewrites that formula-v1 allows
          MaxRewrites,    \* FORMULA_V2_MAX_FORMAT_REWRITES
          MaxOutputs, MaxSlot, MaxNormalizer, MaxGateCrashes  \* bounds

ASSUME GateAssumption ==
    FormatRetries \in Nat /\ MaxRewrites \in Nat /\ MaxOutputs \in Nat /\ MaxSlot \in Nat /\ MaxNormalizer \in Nat \ {0}

VARIABLES
    policy,      \* of the run's manifest, "v1" or "v2"
    normalizer,  \* NORMALIZER_VERSION of the code that runs
    writer,      \* the Writer calls of the Record, with the feedback they got
    audits,      \* formula_audits: the first verdict on each call
    rechecks,    \* formula_audit_rechecks: the verdict that replaces it
    normalized,  \* the form recorded by writer_output_normalized
    stepForms,   \* the sealed steps: their calls and forms
    formatStop,  \* stop_reason is formula_validation_failed
    unready,     \* is the branch paused?
    gateAt,      \* where the driver stands
    gateCrashes

gateStore == <<audits, rechecks, normalized, formatStop>>
gateVars == <<policy, normalizer, writer, gateStore, stepForms, unready, gateAt, gateCrashes>>

Output == [edited : BOOLEAN, wrong : BOOLEAN]
NoOutput == [edited |-> FALSE, wrong |-> FALSE]

Slot == Len(stepForms) + 1
OnSlot(s) == {c \in DOMAIN writer : writer[c].slot = s}
Superseded(c) == \E d \in OnSlot(writer[c].slot) : d > c

Disposition(c) == IF c \in DOMAIN rechecks THEN rechecks[c] ELSE audits[c].disposition
Judged(c, d) == c \in DOMAIN audits /\ Disposition(c) = d
Rejections(s) == {c \in OnSlot(s) : Judged(c, "rejected")}
Unavailable == {c \in DOMAIN writer : Judged(c, "infrastructure_failure")}

(* _repair_one_finished_writer: the outputs that are not sealed.           *)
Unsettled ==
    {c \in DOMAIN writer : /\ writer[c].state = "finished"
                           /\ \A s \in DOMAIN stepForms : stepForms[s].call # c}
Accepted(c) ==
    /\ c \in Unsettled
    /\ Judged(c, "accepted") \/ Judged(c, "accepted_with_format_issues")

(* _formula_v2_normalization: only formula-v2 edits an output.             *)
Form(c) == IF policy = "v2" /\ writer[c].output.edited THEN normalizer ELSE 0

(* _formula_feedback: the last rejected output of the slot.                *)
LastOf(calls) == IF calls = {} THEN 0 ELSE CHOOSE c \in calls : \A d \in calls : d <= c
FormatFeedback(s) == LastOf(Rejections(s))

-----------------------------------------------------------------------------
(* The gate, after a call and again in the repair of a restarted driver.   *)

With(table, c, x) == [d \in DOMAIN table \cup {c} |-> IF d = c THEN x ELSE table[d]]

RewriteLeftStill(s) == Cardinality(Rejections(s)) <= MaxRewrites
RewriteLeft(s) == Cardinality(Rejections(s)) < MaxRewrites

StaticVerdict(c) ==
    IF ~writer[c].output.wrong THEN "accepted"
    ELSE IF RewriteLeft(writer[c].slot) THEN "rejected" ELSE "accepted_with_format_issues"

(* What the compiler may say of an output, if it works.                    *)
Verdicts(c) == {"infrastructure_failure", IF writer[c].output.wrong THEN "rejected" ELSE "accepted"}

AuditOutput ==
    /\ gateAt = "loop"
    /\ \E c \in Unsettled \ DOMAIN audits :
         \E d \in IF policy = "v2" THEN {StaticVerdict(c)} ELSE Verdicts(c) :
            audits' = With(audits, c, [disposition |-> d, form |-> Form(c)])
    /\ UNCHANGED <<policy, normalizer, writer, rechecks, normalized, formatStop, stepForms,
                   unready, gateAt, gateCrashes>>

(* The audit was made by another normalizer.                               *)
Irreproducible(c) ==
    Accepted(c) /\ c \notin DOMAIN normalized /\ Form(c) # audits[c].form

NormalizeOutput ==
    /\ gateAt = "loop"
    /\ \E c \in DOMAIN audits :
          /\ Accepted(c) /\ c \notin DOMAIN normalized /\ ~Irreproducible(c)
          /\ Form(c) # 0
          /\ normalized' = With(normalized, c, Form(c))
    /\ UNCHANGED <<policy, normalizer, writer, audits, rechecks, formatStop, stepForms,
                   unready, gateAt, gateCrashes>>

(* Recorded edits are sealed as recorded, whatever the normalizer is now.  *)
SealOutput ==
    /\ gateAt = "loop"
    /\ \E c \in DOMAIN audits :
          /\ Accepted(c) /\ ~Superseded(c) /\ writer[c].slot = Slot
          /\ c \in DOMAIN normalized \/ (~Irreproducible(c) /\ Form(c) = 0)
          /\ stepForms' = Append(stepForms,
                [call |-> c, form |-> IF c \in DOMAIN normalized THEN normalized[c] ELSE 0])
    /\ UNCHANGED <<policy, normalizer, writer, gateStore, unready, gateAt, gateCrashes>>

GateFails ==
    /\ gateAt = "loop"
    /\ \E c \in DOMAIN audits : Irreproducible(c) \/ (Accepted(c) /\ Superseded(c))
    /\ gateAt' = "error"
    /\ UNCHANGED <<policy, normalizer, writer, gateStore, stepForms, unready, gateCrashes>>

(* Of a slot's outputs only the last can stop the run.                     *)
Stopping ==
    policy = "v1" /\ ~unready /\
    \E c \in Unsettled \cap DOMAIN audits :
      /\ ~Superseded(c)
      /\ \/ Disposition(c) = "infrastructure_failure"
         \/ Disposition(c) = "rejected" /\ Cardinality(Rejections(writer[c].slot)) > FormatRetries

StopForFormat ==
    /\ gateAt = "loop" /\ Stopping /\ ~formatStop
    /\ formatStop' = TRUE
    /\ UNCHANGED <<policy, normalizer, writer, audits, rechecks, normalized, stepForms,
                   unready, gateAt, gateCrashes>>

-----------------------------------------------------------------------------
(* The driver around it.                                                   *)

Gated ==
    /\ Unsettled \subseteq DOMAIN audits
    /\ \A c \in DOMAIN audits : ~Accepted(c)
    /\ Stopping => formatStop

CanCall == ~unready /\ Slot <= MaxSlot /\ Len(writer) < MaxOutputs

CallForSlot ==
    /\ gateAt = "loop" /\ Gated /\ ~formatStop /\ CanCall
    /\ writer' = Append(writer, [slot |-> Slot, state |-> "started", output |-> NoOutput,
                                 feedback |-> FormatFeedback(Slot)])
    /\ gateAt' = "calling"
    /\ UNCHANGED <<policy, normalizer, gateStore, stepForms, unready, gateCrashes>>

EndedWith(state, out) ==
    [writer EXCEPT ![Len(writer)] = [slot |-> @.slot, state |-> state, output |-> out, feedback |-> @.feedback]]

CallEnds ==
    /\ gateAt = "calling"
    /\ \/ /\ \E out \in Output :
               writer' = EndedWith("finished", out)
          /\ UNCHANGED unready
       \/ /\ writer' = EndedWith("failed", NoOutput)
          /\ unready' = TRUE
    /\ gateAt' = "loop"
    /\ UNCHANGED <<policy, normalizer, gateStore, stepForms, gateCrashes>>

GateRests ==
    /\ gateAt = "loop" /\ Gated /\ (formatStop \/ ~CanCall)
    /\ gateAt' = "idle"
    /\ UNCHANGED <<policy, normalizer, writer, gateStore, stepForms, unready, gateCrashes>>

(* A resume first asks the compiler again about what it could not judge.   *)
ResumeGate ==
    /\ gateAt = "idle" /\ (formatStop \/ unready)
    /\ gateAt' = IF policy = "v1" /\ Unavailable # {} THEN "recheck" ELSE "resume"
    /\ UNCHANGED <<policy, normalizer, writer, gateStore, stepForms, unready, gateCrashes>>

RecheckOutput ==
    /\ gateAt = "recheck"
    /\ \E c \in Unavailable : \E d \in Verdicts(c) : rechecks' = With(rechecks, c, d)
    /\ gateAt' = "resume"
    /\ UNCHANGED <<policy, normalizer, writer, audits, normalized, formatStop, stepForms,
                   unready, gateCrashes>>

DriveGate ==
    /\ gateAt = "resume"
    /\ formatStop' = FALSE /\ unready' = FALSE /\ gateAt' = "loop"
    /\ UNCHANGED <<policy, normalizer, writer, audits, rechecks, normalized, stepForms, gateCrashes>>

GateCrash ==
    /\ gateAt # "down" /\ gateCrashes < MaxGateCrashes
    /\ gateCrashes' = gateCrashes + 1 /\ gateAt' = "down"
    /\ UNCHANGED <<policy, normalizer, writer, gateStore, stepForms, unready>>

(* A restart, perhaps of a newer release, goes on with a call under way or *)
(* with an active branch, but not with a run that format stopped.          *)
RestartGate ==
    /\ gateAt = "down"
    /\ normalizer' \in {v \in {normalizer, normalizer + 1} : v <= MaxNormalizer}
    /\ gateAt' = IF formatStop \/ unready \/ Slot > MaxSlot THEN "idle"
                 ELSE IF \E c \in DOMAIN writer : writer[c].state = "started" THEN "calling"
                 ELSE "loop"
    /\ UNCHANGED <<policy, writer, gateStore, stepForms, unready, gateCrashes>>

-----------------------------------------------------------------------------
GateInit ==
    /\ policy \in {"v1", "v2"} /\ normalizer = 1
    /\ writer = <<>> /\ audits = <<>> /\ rechecks = <<>> /\ normalized = <<>>
    /\ stepForms = <<>> /\ formatStop = FALSE /\ unready = FALSE
    /\ gateAt = "loop" /\ gateCrashes = 0

GateNext ==
    \/ AuditOutput \/ NormalizeOutput \/ SealOutput \/ GateFails \/ StopForFormat
    \/ CallForSlot \/ CallEnds \/ GateRests
    \/ ResumeGate \/ RecheckOutput \/ DriveGate
    \/ GateCrash \/ RestartGate

GateSpec == GateInit /\ [][GateNext]_gateVars

-----------------------------------------------------------------------------
(* Properties. *)

GateTypeOK ==
    /\ policy \in {"v1", "v2"} /\ normalizer \in 1..MaxNormalizer
    /\ writer \in Seq([slot : 1..MaxSlot, state : {"started", "finished", "failed"},
                       output : Output, feedback : 0..MaxOutputs])
    /\ DOMAIN rechecks \subseteq DOMAIN audits /\ DOMAIN normalized \subseteq DOMAIN audits
    /\ formatStop \in BOOLEAN /\ unready \in BOOLEAN
    /\ gateAt \in {"loop", "calling", "recheck", "resume", "idle", "down", "error"}

(* What is sealed is what its audit accepted, in the form it accepted,     *)
(* whichever normalizer finished the work.                                 *)
SealedAsAudited ==
    \A i \in DOMAIN stepForms :
      LET c == stepForms[i].call
      IN  /\ Judged(c, "accepted") \/ Judged(c, "accepted_with_format_issues")
          /\ stepForms[i].form = audits[c].form

(* No good output, and none that is still to be judged, is written again.  *)
GoodOutputKept ==
    \A c \in DOMAIN writer :
      writer[c].state = "finished" /\ Superseded(c) => Judged(c, "rejected")

(* The rewrites of a slot stay in the frozen budget of its policy, however *)
(* often the run crashes and is resumed, and formula-v2 never stops a run. *)
WithinFormatBudget ==
    /\ \A s \in 1..MaxSlot :
         Cardinality({c \in OnSlot(s) : writer[c].state = "finished"})
           <= 1 + IF policy = "v2" THEN MaxRewrites ELSE FormatRetries
    /\ policy = "v2" => ~formatStop

(* A call was told of the last rejection before it.                        *)
ToldOfRejection ==
    \A c \in DOMAIN writer :
      writer[c].feedback = LastOf({d \in Rejections(writer[c].slot) : d < c})

(* Only a newer normalizer, coming between the audit of an output and the  *)
(* record of its edits, puts the driver in error.                          *)
FailsOnlyAfterUpgrade ==
    gateAt = "error" =>
      \E c \in DOMAIN audits : Accepted(c) /\ 0 < audits[c].form /\ audits[c].form < normalizer

(* The gate keeps its promises in either policy.                           *)
GateSound ==
    /\ GateTypeOK /\ SealedAsAudited /\ GoodOutputKept /\ WithinFormatBudget
    /\ ToldOfRejection /\ FailsOnlyAfterUpgrade

=============================================================================
