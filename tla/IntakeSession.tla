---------------------------- MODULE IntakeSession -----------------------------
(***************************************************************************)
(* One intake session: its row and its held submission in the store        *)
(* (intake_session.py SQLiteIntakeStore), and the commands of              *)
(* PersistentIntakeSessionService on it.  The service of the application   *)
(* runs one command at a time (_intake_lock); a round awaits the model     *)
(* between the row that holds what the user sent and the commit that       *)
(* keeps it, and the process may crash, or the task be cancelled, at any   *)
(* await and between any two transactions.                                 *)
(***************************************************************************)
EXTENDS IntakeRound

CONSTANTS
    IntakeKey,     \* idempotency keys of the commands after the create
    CreatesIt,     \* the key of the create
    NoKey,
    MaxRounds,     \* max_frontier_rounds
    MaxRejections, \* max_audit_rejections
    MaxRevision    \* bound

AnyKey == IntakeKey \cup {CreatesIt}

ASSUME LimitAssumption ==
    /\ MaxRounds \in Nat \ {0} /\ MaxRejections \in Nat \ {0} /\ MaxRevision \in Nat
    /\ NoKey \notin AnyKey /\ CreatesIt \notin IntakeKey

VARIABLES
    intake,   \* the snapshot in intake_sessions
    receipts, \* intake_idempotency: the revision each key produced, or 0
    heldRow,  \* the row of intake_pending_submissions
    round,    \* the command that awaits the model, or has not released its row
    outdated, \* the active thread was started under an older prompt version
    typed,    \* what the user answered, with the question that was shown
    sent,     \* the last submission that was taken
    landed,   \* the base revisions at which each key took effect
    answered  \* the revisions its callers were told

intakeVars == <<intake, receipts, heldRow, round, outdated, typed, sent, landed, answered>>

Resumable == {"active", "convergence_required", "candidate_ready"}
Snapshot ==
    [rev : 0..MaxRevision, status : Resumable \cup {"absent", "confirmed", "cancelled"}, log : [Decision -> Seq(DecisionEntry)],
     frontier : Asking(Question), pending : Asking(Question), defaults : SUBSET Default,
     rounds : Nat, rejections : Nat, reason : {"none", "rounds", "rejections"}, byUser : BOOLEAN, generations : Nat]

Unborn ==
    [rev |-> 0, status |-> "absent", log |-> [d \in Decision |-> <<>>], frontier |-> <<>>, pending |-> <<>>,
     defaults |-> {}, rounds |-> 0, rejections |-> 0, reason |-> "none", byUser |-> FALSE, generations |-> 0]

\* A submission: the row holds one, with the failure of its round.
Submission(kind, key, base, replies, message) ==
    [kind |-> kind, key |-> key, base |-> base, replies |-> replies, message |-> message]
NoSubmission == Submission("none", NoKey, 0, <<>>, FALSE)
Row(s, failure) == [sub |-> s, failed |-> failure]
NoRow == Row(NoSubmission, FALSE)

Rest == [at |-> "idle", sub |-> NoSubmission]
Awaiting(s) == [at |-> "asking", sub |-> s]

IntakeTypeOK ==
    /\ intake \in Snapshot /\ receipts \in [AnyKey -> 0..MaxRevision] /\ outdated \in BOOLEAN
    /\ round.at \in {"idle", "asking", "committed"} /\ (round.at = "asking" => round.sub.base = intake.rev)
    /\ heldRow # NoRow => heldRow.sub.kind \in {"round", "finalize"} /\ heldRow.sub.key \in IntakeKey
    /\ intake.generations <= intake.rev

IntakeInit ==
    /\ intake = Unborn /\ receipts = [k \in AnyKey |-> 0] /\ heldRow = NoRow /\ round = Rest /\ outdated = FALSE
    /\ typed = {} /\ sent = NoSubmission /\ landed = [k \in AnyKey |-> <<>>] /\ answered = [k \in AnyKey |-> {}]

-----------------------------------------------------------------------------
(* The store *)

\* Mutant: no receipt.
CommittedBare(next, s) ==
    /\ intake' = next /\ heldRow' = IF heldRow.sub.base < next.rev THEN NoRow ELSE heldRow
    /\ UNCHANGED receipts /\ landed' = [landed EXCEPT ![s.key] = Append(@, s.base)]

\* commit: the snapshot, its receipt, and no row that is behind it, in one transaction.
Committed(next, s) ==
    /\ intake' = next /\ heldRow' = IF heldRow.sub.base < next.rev THEN NoRow ELSE heldRow
    /\ receipts' = [receipts EXCEPT ![s.key] = next.rev] /\ landed' = [landed EXCEPT ![s.key] = Append(@, s.base)]

\* hold_submission: one row, the last one.
HeldNow(s) == Row(s, FALSE)

\* PendingSubmission.__post_init__
Holdable(replies, message) == DOMAIN replies # {} \/ message

-----------------------------------------------------------------------------
(* Commands *)

AtRest == round = Rest
MoreRevisions == intake.rev < MaxRevision
Unused(k) == receipts[k] = 0

\* start: the session at revision 0, and the same again for as long as no round has landed.
StartIntake ==
    /\ AtRest /\ MoreRevisions /\ intake.rev = 0
    /\ intake' = [intake EXCEPT !.status = "active"]
    /\ round' = Awaiting(Submission("start", CreatesIt, 0, <<>>, TRUE))
    /\ UNCHANGED <<receipts, heldRow, outdated, typed, sent, landed, answered>>

\* replay_create: a create that is sent again is answered with the session as it is now.
CreateAgain ==
    /\ AtRest /\ intake.rev > 0 /\ answered' = [answered EXCEPT ![CreatesIt] = @ \cup {intake.rev}]
    /\ UNCHANGED <<intake, receipts, heldRow, round, outdated, typed, sent, landed>>

\* replay: the key of a command that has landed is answered with what it produced then.
AnswerAgain(k) ==
    /\ AtRest /\ ~Unused(k) /\ answered' = [answered EXCEPT ![k] = @ \cup {receipts[k]}]
    /\ UNCHANGED <<intake, receipts, heldRow, round, outdated, typed, sent, landed>>

\* What the user sent is on disk before the model is asked.
Take(s) ==
    /\ heldRow' = HeldNow(s) /\ round' = Awaiting(s) /\ sent' = s
    /\ typed' = typed \cup {<<d, NewestOf(intake.log, d).question, s.replies[d]>> : d \in DOMAIN s.replies \cap OpenIn(intake.log)}
    /\ UNCHANGED <<intake, receipts, outdated, landed, answered>>

\* submit_round
SubmitRound(k, replies, message) ==
    /\ AtRest /\ MoreRevisions /\ Unused(k) /\ Holdable(replies, message)
    /\ intake.status \in {"active", "candidate_ready"}
    /\ intake.status = "candidate_ready" => DOMAIN replies = {}
    /\ Blocks(intake.frontier) \subseteq DOMAIN replies
    /\ Take(Submission("round", k, intake.rev, replies, message))

\* finalize: what is pending is answered, and what was asked becomes a default.
CanFinalize(replies) ==
    intake.status = "convergence_required" /\ DOMAIN intake.pending \subseteq DOMAIN replies /\ Holdable(replies, FALSE)

Finalize(k, replies) ==
    /\ AtRest /\ MoreRevisions /\ Unused(k) /\ CanFinalize(replies)
    /\ Take(Submission("finalize", k, intake.rev, replies, FALSE))

\* replace_thread: nothing is held, and nothing but the thread changes.
ReplaceThread(k) ==
    /\ AtRest /\ MoreRevisions /\ Unused(k) /\ intake.status \in Resumable /\ intake.generations > 0
    /\ round' = Awaiting(Submission("replace", k, intake.rev, <<>>, FALSE))
    /\ UNCHANGED <<intake, receipts, heldRow, outdated, typed, sent, landed, answered>>

\* confirm and cancel do not await.
Conclude(k, status) ==
    /\ AtRest /\ MoreRevisions /\ Unused(k)
    /\ LET s == Submission("conclude", k, intake.rev, <<>>, FALSE) IN
       /\ Committed([intake EXCEPT !.rev = @ + 1, !.status = status, !.frontier = <<>>,
                                   !.pending = IF status = "cancelled" THEN <<>> ELSE @], s)
       /\ round' = [at |-> "committed", sub |-> s]
    /\ UNCHANGED <<outdated, typed, sent, answered>>

Confirm(k) == intake.status = "candidate_ready" /\ Conclude(k, "confirmed")
CancelIntake(k) == intake.status \in Resumable /\ Conclude(k, "cancelled")

-----------------------------------------------------------------------------
(* Rounds *)

\* convergence.rounds is the number of user_answers events.
RoundNumber == IF round.sub.kind = "round" THEN intake.rounds + 1 ELSE intake.rounds

\* Why the questioning stops with this round.
Stops(ready, rejections) ==
    IF rejections > intake.rejections /\ rejections >= MaxRejections THEN "rejections"
    ELSE IF ~ready /\ RoundNumber >= MaxRounds THEN "rounds" ELSE "none"

\* _upgrade_legacy_thread, or the thread the first round creates.
Generations == intake.generations + (IF intake.generations = 0 \/ outdated THEN 1 ELSE 0)

\* Declared defaults accumulate.
MergedDefaults(p) == intake.defaults \cup p.defaults

\* _apply_round and _apply_proposal: a round that stops the questioning leaves its questions pending.
Advanced(p, log, rejections) ==
    LET reason == Stops(p.ready, rejections) IN
    [intake EXCEPT
        !.rev = @ + 1, !.log = Applied(p, log), !.defaults = MergedDefaults(p),
        !.status = IF reason # "none" THEN "convergence_required" ELSE IF p.ready THEN "candidate_ready" ELSE "active",
        !.frontier = IF reason # "none" THEN <<>> ELSE p.questions,
        !.pending = IF reason # "none" THEN p.questions ELSE <<>>,
        !.rounds = RoundNumber, !.rejections = rejections, !.reason = reason, !.generations = Generations]

\* A finalize round ends ready, whatever is asked in it.
FinallyAdvanced(p, log) ==
    [intake EXCEPT
        !.rev = @ + 1, !.log = Applied(p, log), !.defaults = MergedDefaults(p),
        !.status = "candidate_ready", !.frontier = p.questions, !.pending = <<>>, !.byUser = TRUE,
        !.generations = Generations]

\* The payloads the model can give, within their contract, at once or after one correction.
Proposals(log) ==
    {Parsed(questions, reopens, defaults, ready, log) :
        questions \in Asking(Question), reopens \in SUBSET Decision, defaults \in SUBSET Default, ready \in BOOLEAN}

FinalProposals ==
    {ParsedFinal(questions, defaults) : questions \in Asking(Question), defaults \in SUBSET Default}

\* The round as it is graded, if the log takes it.
Lands(p, log, next) == Applicable(p, log) /\ Committed(next, round.sub)

\* A round that advances; a candidate is audited first, and the audit may ask.
Advances(p, log) ==
    \/ /\ ~p.ready
       /\ LET graded == RepairedProposal(p, log) IN Lands(graded, log, Advanced(graded, log, intake.rejections))
    \/ /\ p.ready
       /\ \E more \in SUBSET Convention, found \in Asking([text : Wording, blocking : {TRUE}]) :
            LET graded == RepairedProposal(Audited(p, found, more), log)
                rejections == intake.rejections + (IF DOMAIN found = {} THEN 0 ELSE 1) IN
            Lands(graded, log, Advanced(graded, log, rejections))

Finalizes(p, log) ==
    LET graded == RepairedProposal(p, log) IN Lands(graded, log, FinallyAdvanced(graded, log))

\* _apply_answers: the answers are to decisions that are open.
Fits(replies) == DOMAIN replies \subseteq OpenIn(intake.log)

RoundLands ==
    /\ round.at = "asking" /\ Fits(round.sub.replies)
    /\ LET log == WithReplies(intake.log, round.sub.replies) IN
       \/ /\ round.sub.kind \in {"start", "round"}
          /\ \E p \in Proposals(log) : Advances(p, log)
       \/ round.sub.kind = "finalize" /\ \E p \in FinalProposals : Finalizes(p, log)
       \/ /\ round.sub.kind = "replace"
          /\ Committed([intake EXCEPT !.rev = @ + 1, !.generations = @ + 1], round.sub)
    /\ outdated' = FALSE /\ round' = [round EXCEPT !.at = "committed"]
    /\ UNCHANGED <<typed, sent, answered>>

\* Any exception: out of contract, no provider, an answer that does not fit. The held row says why.
RoundFails ==
    /\ round.at = "asking" /\ round' = Rest
    /\ heldRow' = IF heldRow.sub.key = round.sub.key THEN [heldRow EXCEPT !.failed = TRUE] ELSE heldRow
    /\ UNCHANGED <<intake, receipts, outdated, typed, sent, landed, answered>>

\* release_submission, where one was held, and the answer.
RoundReleases ==
    /\ round.at = "committed" /\ round' = Rest
    /\ heldRow' = IF heldRow.sub.key = round.sub.key THEN NoRow ELSE heldRow
    /\ answered' = [answered EXCEPT ![round.sub.key] = @ \cup {intake.rev}]
    /\ UNCHANGED <<intake, receipts, outdated, typed, sent, landed>>

\* The task is cancelled, or the process ends; the next one may have newer prompts.
RoundAbandoned ==
    /\ round # Rest /\ round' = Rest /\ outdated' \in {outdated, intake.generations > 0}
    /\ UNCHANGED <<intake, receipts, heldRow, typed, sent, landed, answered>>

IntakeNext ==
    \/ StartIntake \/ CreateAgain \/ RoundLands \/ RoundFails \/ RoundReleases \/ RoundAbandoned
    \/ \E k \in IntakeKey :
          \/ AnswerAgain(k)
          \/ \E replies \in Asking(Reply), message \in BOOLEAN : SubmitRound(k, replies, message)
          \/ \E replies \in Asking(Reply) : Finalize(k, replies)
          \/ ReplaceThread(k) \/ Confirm(k) \/ CancelIntake(k)

IntakeSpec == IntakeInit /\ [][IntakeNext]_intakeVars

-----------------------------------------------------------------------------

(* Every round that is applied gives a session its own constructor takes:  *)
(* every blocking decision that is open is asked, in its present words, on *)
(* the frontier or among what is pending; none is left when the session is *)
(* ready or confirmed; a stopped session has no frontier and has a reason. *)
AllIsAsked ==
    /\ DOMAIN intake.frontier \cap DOMAIN intake.pending = {}
    /\ DOMAIN intake.frontier \cup DOMAIN intake.pending \subseteq OpenIn(intake.log)
    /\ intake.status \in Resumable =>
         \A d \in BlockingIn(intake.log) :
           \/ d \in DOMAIN intake.frontier /\ intake.frontier[d] = NewestOf(intake.log, d).question
           \/ d \in DOMAIN intake.pending /\ intake.pending[d] = NewestOf(intake.log, d).question
    /\ intake.status \in {"candidate_ready", "confirmed"} => BlockingIn(intake.log) = {} /\ intake.pending = <<>>
    /\ intake.status = "convergence_required" => intake.frontier = <<>> /\ intake.reason # "none"

\* No session goes on asking past its rounds or its rejected audits, but one that the user finalized
\* and corrects, which an audit has rejected too often before.
AskingEnds ==
    intake.status = "active" => /\ intake.rounds < MaxRounds
                                /\ intake.rejections < MaxRejections \/ intake.byUser

(* An answer stands under the question it was given to, in the words the   *)
(* user saw; it is only set aside by asking the user again; and a default  *)
(* that was declared stays declared.                                       *)
AnswersAreTyped ==
    \A d \in Decision : \A i \in DOMAIN intake.log[d] :
        LET e == intake.log[d][i] IN e.state = "resolved" => <<d, e.question, e.reply>> \in typed

SettledStaysSettled ==
    /\ intake.defaults \subseteq intake'.defaults
    /\ \A d \in Decision : Len(intake.log[d]) <= Len(intake'.log[d])
    /\ \A d \in Raised(intake.log) \ OpenIn(intake.log) :
          intake'.log[d] # intake.log[d] =>
            d \in OpenIn(intake'.log) /\ d \in DOMAIN intake'.frontier \cup DOMAIN intake'.pending


(* What the user sent last is there for as long as the session is where it *)
(* was sent, whatever failed; nothing is kept once the session is past it; *)
(* and no row says that a round failed which is still asked.               *)
HeldWhileItFits ==
    /\ sent # NoSubmission /\ intake.rev = sent.base => heldRow.sub = sent
    /\ heldRow # NoRow => heldRow.sub.base = intake.rev
    /\ heldRow.failed /\ round.at = "asking" => heldRow.sub # round.sub

(* What a user is asked is all that is open, in its present words, for as  *)
(* long as the limits allow and no longer; what the user sent is held; and *)
(* what was answered stands.                                               *)
IntakeSound ==
    /\ [](IntakeTypeOK /\ AllIsAsked /\ AskingEnds /\ HeldWhileItFits /\ AnswersAreTyped)
    /\ [][SettledStaysSettled]_intakeVars

(* The key of a command takes effect once, and its callers are told of one *)
(* revision, that which it made.  The key of the create makes one first    *)
(* round; its callers are told of the session as it is when they ask, and  *)
(* none of an earlier session than one before was told of.                 *)
IntakeOnce == INSTANCE OnceOnly
    WITH Key <- IntakeKey, Payload <- 0..MaxRevision,
         applied <- [k \in IntakeKey |-> landed[k]], told <- [k \in IntakeKey |-> answered[k]]

CreatedOnce == Len(landed[CreatesIt]) <= 1
ToldInOrder == \A b \in answered'[CreatesIt] \ answered[CreatesIt] : \A a \in answered[CreatesIt] : a < b
IntakeIsOnce == IntakeOnce!OnceSpec /\ []CreatedOnce /\ [][ToldInOrder]_intakeVars

-----------------------------------------------------------------------------
(* What the repository says and the program does not do *)

(* derivation_web's RunStartForm.test.tsx: "finalizes a capped session     *)
(* with no pending questions".  Whoever answers what is pending can start. *)
StoppedCanStart ==
    intake.status = "convergence_required" =>
        \E replies \in Asking(Reply) : DOMAIN replies \subseteq OpenIn(intake.log) /\ CanFinalize(replies)

=============================================================================
