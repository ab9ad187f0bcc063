------------------------------- MODULE Reviews --------------------------------
(***************************************************************************)
(* One review of what a Writer produced: the check of a step by a Checker, *)
(* or, in a Record v1 run, the judgement of a candidate by a Judge.  The   *)
(* answer of the reviewer is read three times, by three readers: the       *)
(* runtime parses it, live against the request or after a restart without  *)
(* it; the host validates what it quotes and records the spans it copies;  *)
(* and the Record replays them, or refuses the event.  The process may die *)
(* between any two durable writes, and the provider goes on.               *)
(*                                                                         *)
(* Texts are sequences of characters; the sources a Checker may quote hold *)
(* the one text of the instance.  Left out: the abort of a review and the  *)
(* pause that follows a failed one (module Orchestrator), and reasons,     *)
(* scores and usage.                                                       *)
(***************************************************************************)
EXTENDS Integers, Sequences, FiniteSets

CONSTANTS
    ReviewRetries,    \* retries
    MaxReviewCalls,   \* the calls the run may still start
    (* Model bounds. *)
    MaxText,          \* length of the text
    MaxQuote,         \* length of a quotation
    QuotedKinds,      \* kinds of evidence a Checker tries
    CheckerVerdicts,  \* verdicts a Checker answers with
    MaxReviewCrashes

ASSUME ReviewsAssumption ==
    /\ {ReviewRetries, MaxReviewCalls, MaxText, MaxQuote, MaxReviewCrashes} \subseteq Nat
    /\ CheckerVerdicts \subseteq {"ok", "objection", "hard_defect", "instrument_failure"}

VARIABLES
    review,     \* who reviews, in which version of the Record
    text,       \* what the sources say
    outcome,    \* the check or judgement, as the Record has it
    attempts,   \* its calls: the Record's, the store's row and handle, the provider's turn
    intents,    \* lines of check_completion_intent.jsonl
    reviewAt,   \* where the driver is
    reviewCrashes

reviewVars == <<review, text, outcome, attempts, intents, reviewAt, reviewCrashes>>

V1_1 == review.version = "1.1"
Nothing == [verdict |-> "none", items |-> {}]

-----------------------------------------------------------------------------
(* Texts and the spans quotations copy. *)

Space == {" ", "\n"}
Texts(n) == UNION {[1 .. k -> {"x"} \cup Space] : k \in 1 .. n}
AllSpace(t) == \A i \in DOMAIN t : t[i] \in Space

\* Where the characters of " ".join(t.split()) come from, and the n-th of them.
Written(t) ==
    {i \in DOMAIN t : \/ t[i] \notin Space
                      \/ /\ i < Len(t) /\ t[i + 1] \notin Space
                         /\ \E j \in 1 .. (i - 1) : t[j] \notin Space}
Place(t, n) == CHOOSE i \in Written(t) : Cardinality({j \in Written(t) : j <= i}) = n
Normal(t) ==
    [n \in 1 .. Cardinality(Written(t)) |-> IF t[Place(t, n)] \in Space THEN " " ELSE t[Place(t, n)]]

At(q, t, i) == i + Len(q) <= Len(t) /\ SubSeq(t, i + 1, i + Len(q)) = q
Occurs(q, t) == \E i \in 0 .. Len(t) : At(q, t, i)
First(q, t) == CHOOSE i \in 0 .. Len(t) : At(q, t, i) /\ \A j \in 0 .. (i - 1) : ~At(q, t, j)

\* _quotes_source
Quotes(t, q) == Occurs(q, t) \/ Occurs(Normal(q), Normal(t))

\* _source_span: the quotation as the source has it.
Span(t, q) ==
    LET n == Normal(q)  f == First(n, Normal(t)) IN
    IF Occurs(q, t) THEN q ELSE SubSeq(t, Place(t, f + 1), Place(t, f + Len(n)))

-----------------------------------------------------------------------------
(* The sources: the checked step, the hypothesis of its branch, the task   *)
(* with the requirements of completion, and the papers of a 1.1 run.       *)

Escaped == [i \in DOMAIN text |-> IF text[i] = "\n" THEN "\\n" ELSE text[i]]

\* ancestor_evidence_text: the labelled fields, or their canonical JSON.
AncestorText ==
    IF V1_1 THEN <<"claim:", "\n">> \o text \o <<"\n", "\n", "scope:", "\n">> \o text
            ELSE <<"{">> \o Escaped \o <<",">> \o Escaped \o <<"}">>

CompletionRequirements == <<<<"c", " ", "r">>>>

\* evidence_catalog
Sources(kind, id) ==
    CASE kind = "ancestor_quote" /\ id = "step" -> <<AncestorText>>
      [] kind = "scope_quote" /\ id = "step" -> <<text>>
      [] kind = "hypothesis_quote" /\ id = "branch" -> <<text>>
      [] kind = "task_constraint_quote" /\ id = "task" -> <<text>> \o CompletionRequirements
      [] kind = "literature_quote" /\ id = "paper" /\ V1_1 -> <<text>>
      [] OTHER -> <<>>
InCatalog(i) == Sources(i.kind, i.id) # <<>>

HomeOf(kind) ==
    CASE kind \in {"ancestor_quote", "scope_quote"} -> "step"
      [] kind = "hypothesis_quote" -> "branch"
      [] kind = "task_constraint_quote" -> "task"
      [] OTHER -> "paper"

\* What a Checker quotes: anything of a source, or a text it was not given.
Quotations ==
    [kind : QuotedKinds, id : {"elsewhere"}, quote : {text}]
      \cup UNION {[kind : {k}, id : {HomeOf(k)}, quote : Texts(MaxQuote)] : k \in QuotedKinds}

\* Bound: at most one quotation in an answer.
Answers ==
    IF review.role = "judge" THEN [verdict : {"pass", "near_pass", "fail"}, items : {{}}]
    ELSE [verdict : CheckerVerdicts, items : {{}} \cup {{i} : i \in Quotations}]

\* An answer that is no strict JSON object of the asked shape.
Garbage == [verdict |-> "garbage", items |-> {}]

-----------------------------------------------------------------------------
(* The three readers. *)

\* What the schema of the request lets evidence be of: the kinds of its catalog.
KindsOffered ==
    {k \in {"ancestor_quote", "hypothesis_quote", "scope_quote", "task_constraint_quote"} :
       Sources(k, HomeOf(k)) # <<>>}
Literature == IF V1_1 THEN {"literature_quote"} ELSE {}

ParsedItem(i, requested) ==
    /\ i.kind \in KindsOffered \cup Literature
    /\ ~AllSpace(i.quote)
    /\ V1_1 /\ requested => InCatalog(i)
    /\ i.kind = "literature_quote" => InCatalog(i)

\* _parse_check_output; the request is known to the process that started the turn.
ParsedCheck(a, requested) ==
    /\ a.verdict \in {"ok", "objection", "hard_defect", "instrument_failure"}
    /\ \A i \in a.items : ParsedItem(i, requested)
    /\ a.verdict = "hard_defect" => a.items # {}
ParsedJudgement(a) == a.verdict \in {"pass", "near_pass", "fail"}
Parsed(a, requested) ==
    IF review.role = "judge" THEN ParsedJudgement(a) ELSE ParsedCheck(a, requested)

\* validate_check_output
CopiesASource(i) ==
    ~AllSpace(i.quote) /\ \E n \in DOMAIN Sources(i.kind, i.id) : Quotes(Sources(i.kind, i.id)[n], i.quote)
ValidCheck(a) ==
    /\ a.verdict \in {"ok", "objection", "hard_defect"}
    /\ a.verdict = "hard_defect" => a.items # {}
    /\ \A i \in a.items : InCatalog(i) /\ CopiesASource(i)
Valid(a) == review.role = "judge" \/ ValidCheck(a)

\* Mutant: the quotation is recorded as the Checker gave it.
CopiedAsGiven(i) == i
Copied(i) ==
    LET ts == Sources(i.kind, i.id)
        n  == CHOOSE m \in DOMAIN ts : Quotes(ts[m], i.quote) /\ \A k \in 1 .. (m - 1) : ~Quotes(ts[k], i.quote)
    IN  IF \E m \in DOMAIN ts : Occurs(i.quote, ts[m]) THEN i ELSE [i EXCEPT !.quote = Span(ts[n], i.quote)]

\* _validate_hard_defect_evidence: of a quotation of the task only the id is compared.
ReplayAccepts(i) ==
    \/ i.kind = "task_constraint_quote" /\ i.id = "task"
    \/ /\ i.kind # "task_constraint_quote" /\ InCatalog(i)
       /\ \E n \in DOMAIN Sources(i.kind, i.id) : Occurs(i.quote, Sources(i.kind, i.id)[n])
EvidenceReplays(o) == o.verdict = "hard_defect" \/ V1_1 => \A i \in o.items : ReplayAccepts(i)

-----------------------------------------------------------------------------
(* Calls. *)

Now == Len(attempts)
Latest == attempts[Now]
Asked == outcome.state = "requested"
InFlight == Now > 0 /\ Latest.state = "started"
NewAttempt == [state |-> "started", failure |-> "none", body |-> Nothing,
               row |-> "none", handle |-> FALSE, turn |-> "none", answer |-> Nothing]

Excuse == IF V1_1 /\ \E n \in 1 .. Now : attempts[n].failure = "context" THEN 1 ELSE 0
Capacity == Now < MaxReviewCalls
MayRetry ==
    Latest.failure \in {"retryable", "context"} /\ Now - Excuse <= ReviewRetries /\ Capacity

\* fail_model_call: an answer that is given up is not read again.
Failed(as, why) ==
    [as EXCEPT ![Now].state = "failed", ![Now].failure = why, ![Now].answer = Nothing]
FailsLatest(as, why) == attempts' = Failed(as, why) /\ reviewAt' = "row"

\* The answer is parsed and validated, then finish_model_call keeps it as it came.
Reads(as, requested) ==
    LET a == Latest.answer IN
    IF Parsed(a, requested) /\ Valid(a)
    THEN attempts' = [as EXCEPT ![Now].state = "finished", ![Now].body = a] /\ reviewAt' = "row"
    ELSE FailsLatest(as, "retryable")

Settles(verdict, items) ==
    outcome' = [state |-> "completed", verdict |-> verdict, items |-> items, call |-> Now]

-----------------------------------------------------------------------------
(* The driver. *)

RequestsReview ==
    /\ reviewAt = "loop" /\ outcome.state = "none"
    /\ outcome' = [outcome EXCEPT !.state = "requested"]
    /\ reviewAt' = IF review.role = "checker" THEN "intent" ELSE "loop"
    /\ UNCHANGED <<review, text, attempts, intents, reviewCrashes>>

\* _record_completion_intent, beside the Record.
NotesIntent ==
    /\ reviewAt = "intent" /\ intents' = intents + 1 /\ reviewAt' = "loop"
    /\ UNCHANGED <<review, text, outcome, attempts, reviewCrashes>>

StartsAttempt ==
    /\ reviewAt = "loop" /\ Asked
    /\ IF Now = 0 THEN Capacity ELSE Latest.state = "failed" /\ MayRetry
    /\ attempts' = Append(attempts, NewAttempt) /\ reviewAt' = "mark"
    /\ UNCHANGED <<review, text, outcome, intents, reviewCrashes>>

Marks ==
    /\ reviewAt = "mark" /\ reviewAt' = "start"
    /\ attempts' = [attempts EXCEPT ![Now].row = "open"]
    /\ UNCHANGED <<review, text, outcome, intents, reviewCrashes>>

\* start_checker or start_judge: a new thread, and a turn on it.
TurnAccepted ==
    /\ reviewAt = "start" /\ reviewAt' = "attach"
    /\ attempts' = [attempts EXCEPT ![Now].turn = "running"]
    /\ UNCHANGED <<review, text, outcome, intents, reviewCrashes>>

\* Refused, or accepted and the answer lost.
TurnNotStarted ==
    /\ reviewAt = "start"
    /\ \E turn \in {"none", "running"}, why \in {"retryable", "fatal"} :
          FailsLatest([attempts EXCEPT ![Now].turn = turn], why)
    /\ UNCHANGED <<review, text, outcome, intents, reviewCrashes>>

Attaches ==
    /\ reviewAt = "attach" /\ reviewAt' = "collect"
    /\ attempts' = [attempts EXCEPT ![Now].handle = TRUE]
    /\ UNCHANGED <<review, text, outcome, intents, reviewCrashes>>

CollectsAnswer ==
    /\ reviewAt = "collect"
    /\ \/ Latest.turn = "completed" /\ Reads(attempts, TRUE)
       \/ Latest.turn = "failed" /\ \E why \in {"retryable", "context"} : FailsLatest(attempts, why)
    /\ UNCHANGED <<review, text, outcome, intents, reviewCrashes>>

\* A timeout that is proved to have stopped the turn, and one that is not; a dead router.
CollectGivesUp ==
    /\ reviewAt = "collect"
    /\ \/ Latest.turn = "running" /\ FailsLatest([attempts EXCEPT ![Now].turn = "failed"], "retryable")
       \/ FailsLatest(attempts, "fatal")
    /\ UNCHANGED <<review, text, outcome, intents, reviewCrashes>>

ClosesRow ==
    /\ reviewAt = "row" /\ reviewAt' = "settle"
    /\ attempts' = [attempts EXCEPT ![Now].row = "closed"]
    /\ UNCHANGED <<review, text, outcome, intents, reviewCrashes>>

\* complete_check or complete_judgement, with the spans the evidence copies.
Completes ==
    /\ reviewAt = "settle" /\ Latest.state = "finished" /\ reviewAt' = "loop"
    /\ Settles(Latest.body.verdict, {Copied(i) : i \in Latest.body.items})
    /\ UNCHANGED <<review, text, attempts, intents, reviewCrashes>>

\* _handle_call_failure, once the failed event and its row are written.
LeavesForRetry ==
    /\ reviewAt = "settle" /\ Latest.state = "failed" /\ MayRetry /\ reviewAt' = "loop"
    /\ UNCHANGED <<review, text, outcome, attempts, intents, reviewCrashes>>
GivesUp ==
    /\ reviewAt = "settle" /\ Latest.state = "failed" /\ ~MayRetry /\ reviewAt' = "loop"
    /\ Settles("instrument_failure", {})
    /\ UNCHANGED <<review, text, attempts, intents, reviewCrashes>>

\* At the top of drive(): the event a crash left out, from the durable body.
RepairsCompletion ==
    /\ reviewAt = "loop" /\ Asked /\ Now > 0
    /\ IF \E n \in 1 .. (Now - 1) : attempts[n].state = "finished"
       THEN reviewAt' = "error" /\ UNCHANGED outcome
       ELSE \/ /\ Latest.state = "finished"
               /\ IF Valid(Latest.body)
                  THEN /\ Settles(Latest.body.verdict, {Copied(i) : i \in Latest.body.items})
                       /\ UNCHANGED reviewAt
                  ELSE reviewAt' = "error" /\ UNCHANGED outcome
            \/ /\ Latest.state = "failed" /\ ~MayRetry
               /\ Settles("instrument_failure", {}) /\ UNCHANGED reviewAt
    /\ UNCHANGED <<review, text, attempts, intents, reviewCrashes>>

-----------------------------------------------------------------------------
(* Crashes, and what a new process makes of them. *)

Crashes ==
    /\ reviewAt # "down" /\ reviewCrashes < MaxReviewCrashes
    /\ reviewAt' = "down" /\ reviewCrashes' = reviewCrashes + 1
    /\ UNCHANGED <<review, text, outcome, attempts, intents>>

\* The rows of the store follow the Record.
Merged ==
    [n \in 1 .. Now |->
       [attempts[n] EXCEPT !.row = IF attempts[n].state = "started" THEN "open" ELSE "closed"]]

ForgetsMissing == ~V1_1

\* reconcile_in_flight: a turn that runs, or in 1.1 one that is not known, is left alone.
Recovers ==
    /\ reviewAt = "down"
    /\ \/ ~InFlight /\ attempts' = Merged /\ reviewAt' = "loop"
       \/ InFlight /\ Latest.handle /\ Latest.turn = "completed" /\ Reads(Merged, FALSE)
       \/ InFlight /\ Latest.handle /\ Latest.turn = "failed"
          /\ \E why \in {"retryable", "context"} : FailsLatest(Merged, why)
       \* No handle, or a thread that cannot be read.
       \/ InFlight /\ ForgetsMissing /\ FailsLatest(Merged, "retryable")
    /\ UNCHANGED <<review, text, outcome, intents, reviewCrashes>>

TurnEnds(n) ==
    /\ attempts[n].turn = "running"
    /\ \/ /\ attempts[n].state = "started"
          /\ \E a \in Answers \cup {Garbage} :
                attempts' = [attempts EXCEPT ![n].turn = "completed", ![n].answer = a]
       \/ attempts' = [attempts EXCEPT ![n].turn = "failed"]
    /\ UNCHANGED <<review, text, outcome, intents, reviewAt, reviewCrashes>>

-----------------------------------------------------------------------------

ReviewsInit ==
    /\ review \in {[role |-> "checker", version |-> "1.1"], [role |-> "checker", version |-> "1.0"],
                   [role |-> "judge", version |-> "1.0"]}
    /\ text \in Texts(MaxText) /\ ~AllSpace(text)
    /\ outcome = [state |-> "none", verdict |-> "none", items |-> {}, call |-> 0]
    /\ attempts = <<>> /\ intents = 0 /\ reviewAt = "loop" /\ reviewCrashes = 0

ReviewsNext ==
    \/ RequestsReview \/ NotesIntent \/ StartsAttempt \/ Marks
    \/ TurnAccepted \/ TurnNotStarted \/ Attaches \/ CollectsAnswer \/ CollectGivesUp
    \/ ClosesRow \/ Completes \/ LeavesForRetry \/ GivesUp \/ RepairsCompletion
    \/ Crashes \/ Recovers
    \/ \E n \in 1 .. Now : TurnEnds(n)

ReviewsSpec == ReviewsInit /\ [][ReviewsNext]_reviewVars

-----------------------------------------------------------------------------

ReviewsTypeOK ==
    /\ outcome.state \in {"none", "requested", "completed"} /\ outcome.call \in 0 .. Now
    /\ \A n \in 1 .. Now :
          /\ attempts[n].state \in {"started", "finished", "failed"}
          /\ attempts[n].row \in {"none", "open", "closed"} /\ attempts[n].handle \in BOOLEAN
          /\ attempts[n].turn \in {"none", "running", "completed", "failed"}
          /\ attempts[n].failure \in {"none", "retryable", "context", "fatal"}
    /\ intents \in 0 .. 1
    /\ reviewAt \in {"down", "loop", "intent", "mark", "start", "attach", "collect", "row", "settle", "error"}

HasVerdict == outcome.state = "completed" /\ outcome.verdict # "instrument_failure"

(* The Record accepts the evidence the host completes a check with, live   *)
(* or after a crash: a quotation accepted for its words is recorded with   *)
(* the characters of its source, and says what the Checker said.           *)
EvidenceStands ==
    HasVerdict =>
      /\ EvidenceReplays(outcome)
      /\ outcome.verdict = "hard_defect" => outcome.items # {}
      /\ \A i \in outcome.items :
            /\ \E n \in DOMAIN Sources(i.kind, i.id) : Occurs(i.quote, Sources(i.kind, i.id)[n])
            /\ \E j \in attempts[outcome.call].body.items :
                  j.kind = i.kind /\ j.id = i.id /\ Normal(j.quote) = Normal(i.quote)

(* A durable answer can be completed by whoever reads it again, and no     *)
(* call follows one: the review is settled by the last of its calls.       *)
DurableAnswerSettles ==
    /\ reviewAt # "error"
    /\ \A n \in 1 .. Now :
          /\ attempts[n].state = "finished" => n = Now /\ Valid(attempts[n].body)
          /\ n < Now => attempts[n].state = "failed"
    /\ outcome.state = "completed" =>
          /\ outcome.call = Now
          /\ HasVerdict <=> Latest.state = "finished"

(* A 1.1 run does not review again while a turn whose handle it has kept   *)
(* may still be running: neither a restart that cannot find it nor a       *)
(* timeout without proof lets a second call start.                         *)
NoReviewBesideAnother ==
    V1_1 => \A n \in 1 .. (Now - 1) : attempts[n].handle => attempts[n].turn # "running"

(* Failures are repeated as often as the run allows, one of a full context *)
(* not counted.                                                            *)
RetriesInBudget == Now - Excuse <= ReviewRetries + 1

(* What a reviewer answers reaches the Record once, in a form the Record   *)
(* replays, whatever was lost on the way.                                  *)
ReviewsSound ==
    ReviewsTypeOK /\ EvidenceStands /\ DurableAnswerSettles /\ NoReviewBesideAnother /\ RetriesInBudget

=============================================================================
