----------------------------- MODULE IntakeRound ------------------------------
(***************************************************************************)
(* What one round of the model does to an intake session: the payload is   *)
(* read and repaired (app_server_intake_session.py), audited, graded       *)
(* against the decision log and folded into it                             *)
(* (intake_session_service.py).  Repairs either drop something the user    *)
(* could not have seen or hand the decision back to the user.              *)
(* Left out: semantic keys, dependencies, options and references, whose    *)
(* violations fail the round like any other payload out of contract.       *)
(***************************************************************************)
EXTENDS Naturals, Sequences

CONSTANTS
    Decision,   \* decision ids
    Wording,    \* the questions that can be asked about a decision
    Handed,     \* the wording of a question made from a default
    Reply,      \* answers
    NoReply,
    Convention  \* defaults that are no decision of the user's

ASSUME IntakeAssumption == NoReply \notin Reply /\ Handed \in Wording

Question == [text : Wording, blocking : BOOLEAN]

\* A default that settles a decision is named for it.
Default == Decision \cup Convention

\* Decisions asked at once: the first question per decision is kept.
Asking(kinds) == UNION {[S -> kinds] : S \in SUBSET Decision}

\* What the log holds of a decision: all entries but the last are superseded.
DecisionEntry == [state : {"open", "resolved"}, question : Question, reply : Reply \cup {NoReply}]
Opened(q) == [state |-> "open", question |-> q, reply |-> NoReply]
Settled(q, r) == [state |-> "resolved", question |-> q, reply |-> r]

NewestOf(log, d) == log[d][Len(log[d])]
Raised(log) == {d \in Decision : log[d] # <<>>}
OpenIn(log) == {d \in Raised(log) : NewestOf(log, d).state = "open"}
BlockingIn(log) == {d \in OpenIn(log) : NewestOf(log, d).question.blocking}
Blocks(questions) == {d \in DOMAIN questions : questions[d].blocking}
Without(questions, S) == [d \in DOMAIN questions \ S |-> questions[d]]

-----------------------------------------------------------------------------
(* Reading a payload *)

\* A default that settles a decision the round asks nothing about becomes a question.
HandedBack(questions, defaults) ==
    [d \in DOMAIN questions \cup (defaults \cap Decision) |->
        IF d \in DOMAIN questions THEN questions[d] ELSE [text |-> Handed, blocking |-> TRUE]]

\* parse_intake_round_proposal in a round that advances. One that still asks, or whose seed has no
\* proposition ladder, is no candidate: ready stands for both flags of the payload.
Parsed(questions, reopens, defaults, ready, log) ==
    LET asked == HandedBack(questions, defaults) IN
    [questions |-> asked,
     reopens |-> reopens \cap Raised(log) \cap DOMAIN asked,
     defaults |-> defaults \ Decision,
     ready |-> ready /\ DOMAIN asked = {}]

\* In a finalize round: what it asks becomes a default.
ParsedFinal(questions, defaults) ==
    [questions |-> <<>>, reopens |-> {}, defaults |-> defaults \cup DOMAIN questions, ready |-> TRUE]

\* _audit_candidate: what the audit asks, in place of what a candidate asks, which is nothing.
Audited(p, asked, defaults) ==
    [p EXCEPT !.questions = asked, !.ready = DOMAIN asked = {}, !.defaults = @ \cup defaults]

-----------------------------------------------------------------------------
(* Grading it against the log *)

\* _repair_proposal: an answered question that is repeated is dropped; one that is asked anew is reopened.
RepairedProposal(p, log) ==
    LET reopens == p.reopens \ OpenIn(log)
        answered == (DOMAIN p.questions \cap Raised(log)) \ (OpenIn(log) \cup reopens)
        repeated == {d \in answered : NewestOf(log, d).question = p.questions[d]} IN
    [p EXCEPT !.questions = Without(p.questions, repeated), !.reopens = reopens \cup (answered \ repeated)]

\* What _apply_proposal refuses.
Applicable(p, log) ==
    /\ p.reopens \subseteq DOMAIN p.questions
    /\ p.reopens \subseteq Raised(log) \ OpenIn(log)
    /\ DOMAIN p.questions \cap Raised(log) \subseteq OpenIn(log) \cup p.reopens

\* Mutant: the new question is put over the old answer.
AppliedOver(p, log) ==
    [d \in Decision |->
        IF d \notin DOMAIN p.questions THEN log[d]
        ELSE IF log[d] = <<>> THEN <<Opened(p.questions[d])>>
        ELSE [log[d] EXCEPT ![Len(log[d])].question = p.questions[d]]]

\* The decision log after the round; an open question that is asked anew is reworded in place.
Applied(p, log) ==
    [d \in Decision |->
        IF d \notin DOMAIN p.questions THEN log[d]
        ELSE IF d \in OpenIn(log) THEN [log[d] EXCEPT ![Len(log[d])].question = p.questions[d]]
        ELSE Append(log[d], Opened(p.questions[d]))]

\* _apply_answers
WithReplies(log, replies) ==
    [d \in Decision |->
        IF d \in DOMAIN replies THEN Append(log[d], Settled(NewestOf(log, d).question, replies[d])) ELSE log[d]]

=============================================================================
