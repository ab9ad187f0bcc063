----------------------------- MODULE IntakeProofs -----------------------------
(***************************************************************************)
(* What holds of every intake session, for any decisions, questions,       *)
(* answers, keys and limits, and of a page that shows one.                 *)
(***************************************************************************)
EXTENDS IntakeSession, PageIntake, SequenceTheorems, TLAPS

-----------------------------------------------------------------------------
(* Questions, and the decision log                                         *)

LEMMA AskingIs ==
  ASSUME NEW K, NEW f
  PROVE  f \in Asking(K) <=>
           DOMAIN f \subseteq Decision /\ f = [d \in DOMAIN f |-> f[d]] /\ \A d \in DOMAIN f : f[d] \in K
<1>1. ASSUME f \in Asking(K)
      PROVE  DOMAIN f \subseteq Decision /\ f = [d \in DOMAIN f |-> f[d]] /\ \A d \in DOMAIN f : f[d] \in K
  <2>1. PICK S \in SUBSET Decision : f \in [S -> K] BY <1>1 DEF Asking
  <2> QED BY <2>1
<1>2. ASSUME DOMAIN f \subseteq Decision, f = [d \in DOMAIN f |-> f[d]], \A d \in DOMAIN f : f[d] \in K
      PROVE  f \in Asking(K)
  <2>1. DOMAIN f \in SUBSET Decision /\ f \in [DOMAIN f -> K] BY <1>2
  <2> QED BY <2>1 DEF Asking
<1> QED BY <1>1, <1>2

LEMMA NothingAsked == ASSUME NEW K PROVE <<>> \in Asking(K) /\ DOMAIN <<>> = {}
<1>1. DOMAIN <<>> = {} OBVIOUS
<1>2. <<>> = [d \in DOMAIN <<>> |-> <<>>[d]] OBVIOUS
<1> QED BY <1>1, <1>2, AskingIs

Logs == [Decision -> Seq(DecisionEntry)]

\* An entry is open or resolved, and a decision that is raised has a newest entry.
LEMMA NewestIs ==
  ASSUME NEW log \in Logs, NEW d \in Decision, log[d] # <<>>
  PROVE  Len(log[d]) \in 1..Len(log[d]) /\ NewestOf(log, d) \in DecisionEntry /\ d \in Raised(log)
<1>1. log[d] \in Seq(DecisionEntry) BY DEF Logs
<1>2. Len(log[d]) \in Nat /\ Len(log[d]) # 0 BY <1>1
<1> QED BY <1>1, <1>2 DEF NewestOf, Raised

\* What the answers leave of the log.
LEMMA RepliesSettle ==
  ASSUME NEW log \in Logs, NEW replies \in Asking(Reply), DOMAIN replies \subseteq OpenIn(log)
  PROVE  LET new == WithReplies(log, replies)
         IN  /\ new \in Logs
             /\ \A d \in Decision : d \notin DOMAIN replies => new[d] = log[d]
             /\ \A d \in DOMAIN replies : new[d] = Append(log[d], Settled(NewestOf(log, d).question, replies[d]))
             /\ OpenIn(new) = OpenIn(log) \ DOMAIN replies
             /\ Raised(new) = Raised(log)
<1> DEFINE new == WithReplies(log, replies)
<1>1. DOMAIN replies \subseteq Decision /\ \A d \in DOMAIN replies : replies[d] \in Reply BY AskingIs
<1>2. \A d \in Decision : d \notin DOMAIN replies => new[d] = log[d] BY DEF WithReplies
<1>3. \A d \in DOMAIN replies : new[d] = Append(log[d], Settled(NewestOf(log, d).question, replies[d]))
  BY <1>1 DEF WithReplies
<1>4. new = [d \in Decision |-> new[d]] BY DEF WithReplies
<1>5. ASSUME NEW d \in DOMAIN replies
      PROVE  /\ new[d] \in Seq(DecisionEntry) /\ new[d] # <<>> /\ log[d] # <<>>
             /\ NewestOf(new, d).state = "resolved"
  <2> DEFINE e == Settled(NewestOf(log, d).question, replies[d])
  <2>1. log[d] \in Seq(DecisionEntry) /\ log[d] # <<>> /\ d \in Decision BY <1>1 DEF Logs, OpenIn, Raised
  <2>2. e \in DecisionEntry /\ e.state = "resolved"
    <3>1. NewestOf(log, d).question \in Question BY <2>1, NewestIs DEF DecisionEntry
    <3> QED BY <1>1, <3>1 DEF DecisionEntry, Settled
  <2> HIDE DEF e
  <2>3. new[d] = Append(log[d], e) BY <1>3 DEF e
  <2> HIDE DEF new
  <2>4. new[d] \in Seq(DecisionEntry) /\ Len(new[d]) = Len(log[d]) + 1 /\ new[d][Len(log[d]) + 1] = e
    BY <2>1, <2>2, <2>3
  <2> QED BY <2>1, <2>2, <2>4 DEF NewestOf
<1> HIDE DEF new
<1>6. new \in Logs
  <2>1. ASSUME NEW d \in Decision PROVE new[d] \in Seq(DecisionEntry)
    <3>1. CASE d \in DOMAIN replies BY <3>1, <1>5
    <3>2. CASE d \notin DOMAIN replies BY <3>2, <1>2 DEF Logs
    <3> QED BY <3>1, <3>2
  <2> QED BY <2>1, <1>4 DEF Logs
<1>7. Raised(new) = Raised(log) BY <1>1, <1>2, <1>5 DEF Raised
<1>8. OpenIn(new) = OpenIn(log) \ DOMAIN replies
  <2>1. ASSUME NEW d \in Decision PROVE d \in OpenIn(new) <=> d \in OpenIn(log) \ DOMAIN replies
    <3>1. CASE d \in DOMAIN replies BY <3>1, <1>5 DEF OpenIn
    <3>2. CASE d \notin DOMAIN replies BY <3>2, <1>2, <1>7 DEF OpenIn, NewestOf
    <3> QED BY <3>1, <3>2
  <2> QED BY <2>1 DEF OpenIn, Raised
<1> QED BY <1>1, <1>2, <1>3, <1>6, <1>7, <1>8 DEF new

\* What the questions of a round leave of it.
LEMMA QuestionsOpen ==
  ASSUME NEW log \in Logs, NEW p, p.questions \in Asking(Question)
  PROVE  LET new == Applied(p, log)
         IN  /\ new \in Logs
             /\ \A d \in Decision : d \notin DOMAIN p.questions => new[d] = log[d]
             /\ \A d \in DOMAIN p.questions :
                   /\ NewestOf(new, d).state = "open" /\ NewestOf(new, d).question = p.questions[d]
                   /\ Len(new[d]) = IF d \in OpenIn(log) THEN Len(log[d]) ELSE Len(log[d]) + 1
                   /\ \A i \in 1..Len(new[d]) : i # Len(new[d]) => new[d][i] = log[d][i]
             /\ OpenIn(new) = OpenIn(log) \cup DOMAIN p.questions
<1> DEFINE new == Applied(p, log)
<1>1. DOMAIN p.questions \subseteq Decision /\ \A d \in DOMAIN p.questions : p.questions[d] \in Question BY AskingIs
<1>2. \A d \in Decision : d \notin DOMAIN p.questions => new[d] = log[d] BY DEF Applied
<1>3. new = [d \in Decision |-> new[d]] BY DEF Applied
<1>4. ASSUME NEW d \in DOMAIN p.questions
      PROVE  /\ new[d] \in Seq(DecisionEntry) /\ new[d] # <<>>
             /\ NewestOf(new, d).state = "open" /\ NewestOf(new, d).question = p.questions[d]
             /\ Len(new[d]) = IF d \in OpenIn(log) THEN Len(log[d]) ELSE Len(log[d]) + 1
             /\ \A i \in 1..Len(new[d]) : i # Len(new[d]) => new[d][i] = log[d][i]
  <2> DEFINE q == p.questions[d]  s == log[d]  n == Len(s)
  <2>1. d \in Decision /\ s \in Seq(DecisionEntry) /\ q \in Question /\ n \in Nat BY <1>1 DEF Logs
  <2>2. CASE d \in OpenIn(log)
    <3> DEFINE e == [s[n] EXCEPT !.question = q]
    <3>1. s # <<>> /\ s[n].state = "open" /\ n \in 1..n /\ s[n] \in DecisionEntry
      BY <2>1, <2>2, NewestIs DEF OpenIn, Raised, NewestOf
    <3>2. new[d] = [s EXCEPT ![n] = e] BY <2>1, <2>2 DEF Applied
    <3>3. e \in DecisionEntry /\ e.state = "open" /\ e.question = q BY <2>1, <3>1 DEF DecisionEntry
    <3> HIDE DEF e, new, q
    <3>4. new[d] \in Seq(DecisionEntry) /\ Len(new[d]) = n /\ new[d][n] = e
          /\ \A i \in 1..n : i # n => new[d][i] = s[i]
      BY <2>1, <3>1, <3>2, <3>3, ExceptSeq
    <3>5. new[d] # <<>> BY <3>1, <3>4
    <3> QED BY <2>2, <3>3, <3>4, <3>5 DEF NewestOf, q
  <2>3. CASE d \notin OpenIn(log)
    <3> DEFINE e == Opened(q)
    <3>1. new[d] = Append(s, e) BY <2>1, <2>3 DEF Applied
    <3>2. e \in DecisionEntry /\ e.state = "open" /\ e.question = q BY <2>1 DEF DecisionEntry, Opened
    <3> HIDE DEF e, new, q
    <3>3. new[d] \in Seq(DecisionEntry) /\ Len(new[d]) = n + 1 /\ new[d][n + 1] = e
          /\ \A i \in 1..(n + 1) : i # n + 1 => new[d][i] = s[i]
      BY <2>1, <3>1, <3>2
    <3>4. new[d] # <<>> BY <2>1, <3>3
    <3> QED BY <2>3, <3>2, <3>3, <3>4 DEF NewestOf, q
  <2> QED BY <2>2, <2>3
<1> HIDE DEF new
<1>5. new \in Logs
  <2>1. ASSUME NEW d \in Decision PROVE new[d] \in Seq(DecisionEntry)
    <3>1. CASE d \in DOMAIN p.questions BY <3>1, <1>4
    <3>2. CASE d \notin DOMAIN p.questions BY <3>2, <1>2 DEF Logs
    <3> QED BY <3>1, <3>2
  <2> QED BY <2>1, <1>3 DEF Logs
<1>6. OpenIn(new) = OpenIn(log) \cup DOMAIN p.questions
  <2>1. ASSUME NEW d \in Decision PROVE d \in OpenIn(new) <=> d \in OpenIn(log) \cup DOMAIN p.questions
    <3>1. CASE d \in DOMAIN p.questions BY <3>1, <1>4 DEF OpenIn, Raised
    <3>2. CASE d \notin DOMAIN p.questions BY <3>2, <1>2 DEF OpenIn, NewestOf, Raised
    <3> QED BY <3>1, <3>2
  <2> QED BY <2>1, <1>1 DEF OpenIn, Raised
<1> QED BY <1>2, <1>4, <1>5, <1>6 DEF new

-----------------------------------------------------------------------------
(* What a round proposes, once it is read, audited and graded              *)

Payload == {"questions", "reopens", "defaults", "ready"}

\* It asks questions, and none when it is ready; and it declares defaults.
Proposed(p) ==
    /\ p = [x \in Payload |-> p[x]]
    /\ p.questions \in Asking(Question) /\ p.ready \in BOOLEAN /\ p.defaults \subseteq Default
    /\ p.ready => DOMAIN p.questions = {}

LEMMA ParsedIsProposed ==
  ASSUME NEW questions \in Asking(Question), NEW reopens, NEW defaults \in SUBSET Default, NEW ready \in BOOLEAN, NEW log
  PROVE  Proposed(Parsed(questions, reopens, defaults, ready, log))
<1> DEFINE asked == HandedBack(questions, defaults)
<1>1. asked \in Asking(Question)
  <2>1. DOMAIN questions \subseteq Decision /\ \A d \in DOMAIN questions : questions[d] \in Question BY AskingIs
  <2>2. DOMAIN asked = DOMAIN questions \cup (defaults \cap Decision) BY DEF HandedBack
  <2>3. asked = [d \in DOMAIN asked |-> asked[d]] BY DEF HandedBack
  <2>4. [text |-> Handed, blocking |-> TRUE] \in Question BY IntakeAssumption DEF Question
  <2>5. \A d \in DOMAIN asked : asked[d] \in Question BY <2>1, <2>4 DEF HandedBack
  <2> QED BY <2>1, <2>2, <2>3, <2>5, AskingIs
<1> HIDE DEF asked
<1> DEFINE p == [questions |-> asked, reopens |-> reopens \cap Raised(log) \cap DOMAIN asked,
                 defaults |-> defaults \ Decision, ready |-> ready /\ DOMAIN asked = {}]
<1>2. Proposed(p)
  <2>1. p = [x \in Payload |-> p[x]] BY DEF Payload
  <2>2. p.questions = asked /\ p.ready \in BOOLEAN /\ (p.ready => DOMAIN asked = {}) /\ p.defaults \subseteq defaults
    OBVIOUS
  <2> QED BY <1>1, <2>1, <2>2 DEF Proposed
<1>3. Parsed(questions, reopens, defaults, ready, log) = p BY DEF Parsed, asked
<1> QED BY <1>2, <1>3

LEMMA FinalIsProposed ==
  ASSUME NEW questions \in Asking(Question), NEW defaults \in SUBSET Default
  PROVE  Proposed(ParsedFinal(questions, defaults))
<1> DEFINE p == ParsedFinal(questions, defaults)
<1>1. p = [x \in Payload |-> p[x]] /\ p.questions = <<>> /\ p.ready = TRUE /\ p.defaults = defaults \cup DOMAIN questions
  BY DEF ParsedFinal, Payload
<1>2. DOMAIN questions \subseteq Default BY AskingIs DEF Default
<1>3. <<>> \in Asking(Question) /\ DOMAIN <<>> = {} BY NothingAsked
<1> HIDE DEF p
<1> QED BY <1>1, <1>2, <1>3 DEF Proposed, p

LEMMA AuditedIsProposed ==
  ASSUME NEW p, Proposed(p), NEW asked \in Asking(Question), NEW defaults \in SUBSET Convention
  PROVE  Proposed(Audited(p, asked, defaults))
<1> DEFINE q == Audited(p, asked, defaults)
<1>1. q = [x \in Payload |-> q[x]] /\ q.questions = asked /\ q.ready = (DOMAIN asked = {})
      /\ q.defaults = p.defaults \cup defaults
  BY DEF Audited, Proposed, Payload
<1> HIDE DEF q
<1>3. q.defaults \subseteq Default BY <1>1 DEF Proposed, Default
<1>2. q.ready \in BOOLEAN /\ (q.ready => DOMAIN asked = {}) BY <1>1
<1> QED BY <1>1, <1>2, <1>3 DEF Proposed, q

LEMMA RepairedIsProposed ==
  ASSUME NEW p, Proposed(p), NEW log
  PROVE  Proposed(RepairedProposal(p, log)) /\ RepairedProposal(p, log).ready = p.ready
<1> DEFINE reopens == p.reopens \ OpenIn(log)
           settled == (DOMAIN p.questions \cap Raised(log)) \ (OpenIn(log) \cup reopens)
           repeated == {d \in settled : NewestOf(log, d).question = p.questions[d]}
           asked == Without(p.questions, repeated)
           more == reopens \cup (settled \ repeated)
           q == RepairedProposal(p, log)
<1>1. q = [p EXCEPT !.questions = asked, !.reopens = more] BY DEF RepairedProposal
<1>2. asked \in Asking(Question) /\ DOMAIN asked \subseteq DOMAIN p.questions
  <2>1. p.questions \in Asking(Question) BY DEF Proposed
  <2>2. DOMAIN p.questions \subseteq Decision /\ \A d \in DOMAIN p.questions : p.questions[d] \in Question
    BY <2>1, AskingIs
  <2> HIDE DEF repeated
  <2>3. DOMAIN asked = DOMAIN p.questions \ repeated /\ asked = [d \in DOMAIN asked |-> asked[d]]
        /\ \A d \in DOMAIN asked : asked[d] = p.questions[d]
    BY DEF Without
  <2> HIDE DEF asked
  <2> QED BY <2>2, <2>3, AskingIs
<1> HIDE DEF asked, more, q
<1>3. q = [x \in Payload |-> q[x]] /\ q.questions = asked /\ q.ready = p.ready /\ q.defaults = p.defaults
  BY <1>1 DEF Proposed, Payload
<1> QED BY <1>2, <1>3 DEF Proposed, q

-----------------------------------------------------------------------------
(* The inductive invariant                                                 *)

SessionField == {"rev", "status", "log", "frontier", "pending", "defaults", "rounds", "rejections", "reason", "byUser",
                 "generations"}

SessionShape ==
    /\ intake = [x \in SessionField |-> intake[x]]
    /\ intake.rev \in 0..MaxRevision /\ intake.rounds \in Nat /\ intake.rejections \in Nat /\ intake.byUser \in BOOLEAN
    /\ intake.log \in Logs /\ intake.frontier \in Asking(Question) /\ intake.pending \in Asking(Question)
    /\ round = [at |-> round.at, sub |-> round.sub] /\ round.at \in {"idle", "asking", "committed"}

\* Only a user who finalized a session is asked more after its last rejection; and before its first
\* round a session has nothing.
LimitsKept ==
    /\ intake.status \in {"absent", "active", "candidate_ready"} => intake.rejections < MaxRejections \/ intake.byUser
    /\ intake.status \in {"active", "candidate_ready"} => DOMAIN intake.pending = {}
    /\ intake.rev = 0 => /\ intake.status \in {"absent", "active"} /\ intake.rounds = 0 /\ intake.rejections = 0
                         /\ OpenIn(intake.log) = {} /\ DOMAIN intake.frontier = {} /\ DOMAIN intake.pending = {}

\* What a round that awaits the model was checked for, which holds until it lands.
RoundKept ==
    LET s == round.sub IN
    /\ round.at = "asking" =>
          /\ intake.rev < MaxRevision /\ s.key \in AnyKey /\ receipts[s.key] = 0 /\ s.base = intake.rev
          /\ s.replies \in Asking(Reply)
          /\ \A d \in DOMAIN s.replies \cap OpenIn(intake.log) :
                <<d, NewestOf(intake.log, d).question, s.replies[d]>> \in typed
          /\ \/ s.kind = "start" /\ intake.rev = 0 /\ intake.status = "active" /\ s.replies = <<>>
             \/ s.kind = "round" /\ intake.status \in {"active", "candidate_ready"}
                  /\ Blocks(intake.frontier) \subseteq DOMAIN s.replies
             \/ s.kind = "finalize" /\ intake.status = "convergence_required"
                  /\ DOMAIN intake.pending \subseteq DOMAIN s.replies
             \/ s.kind = "replace" /\ intake.status \in Resumable
    /\ round.at = "committed" =>
          s.key \in AnyKey /\ 0 < intake.rev /\ receipts[s.key] = intake.rev /\ heldRow = NoRow /\ sent.base < intake.rev

\* The row of the store, and the submission in it.
RowKept ==
    /\ heldRow = [sub |-> heldRow.sub, failed |-> heldRow.failed]
    /\ heldRow = NoRow \/ (heldRow.sub.kind \in {"round", "finalize"} /\ heldRow.sub.key # NoKey)
    /\ sent.base <= intake.rev /\ sent.base \in Nat /\ heldRow.sub.base \in Nat
    /\ round.at = "asking" /\ round.sub.kind \in {"round", "finalize"} => heldRow = Row(round.sub, FALSE) /\ sent = round.sub

\* A key has a receipt when it has landed, and the callers of a command are told what is on it.
KeysKept ==
    /\ receipts \in [AnyKey -> 0..MaxRevision]
    /\ landed = [k \in AnyKey |-> landed[k]] /\ answered = [k \in AnyKey |-> answered[k]]
    /\ \A k \in AnyKey : /\ receipts[k] <= intake.rev
                         /\ receipts[k] = 0 <=> landed[k] = <<>>
                         /\ landed[k] = <<>> \/ Len(landed[k]) = 1
    /\ \A k \in IntakeKey : answered[k] \subseteq {receipts[k]} \ {0}
    /\ answered[CreatesIt] \subseteq 1..intake.rev

IntakeInv ==
    /\ SessionShape /\ AllIsAsked /\ AskingEnds /\ LimitsKept
    /\ AnswersAreTyped /\ RoundKept /\ RowKept /\ HeldWhileItFits /\ KeysKept

-----------------------------------------------------------------------------
(* What a commit and a round do to the session                             *)

Rec(c) == c = [x \in SessionField |-> c[x]]
Like(c, d, S) == \A x \in SessionField \ S : c[x] = d[x]

LEMMA AdvancedIs ==
  ASSUME Rec(intake), NEW p, NEW log, NEW rejections
  PROVE  LET n == Advanced(p, log, rejections)  reason == Stops(p.ready, rejections)
         IN  /\ Rec(n) /\ n.rev = intake.rev + 1 /\ n.log = Applied(p, log) /\ n.byUser = intake.byUser
             /\ n.defaults = MergedDefaults(p) /\ n.rounds = RoundNumber /\ n.rejections = rejections
             /\ n.reason = reason /\ n.generations = Generations
             /\ n.status = IF reason # "none" THEN "convergence_required"
                           ELSE IF p.ready THEN "candidate_ready" ELSE "active"
             /\ n.frontier = IF reason # "none" THEN <<>> ELSE p.questions
             /\ n.pending = IF reason # "none" THEN p.questions ELSE <<>>
BY DEF Rec, SessionField, Advanced

LEMMA FinallyAdvancedIs ==
  ASSUME Rec(intake), NEW p, NEW log
  PROVE  LET n == FinallyAdvanced(p, log)
         IN  /\ Rec(n) /\ n.rev = intake.rev + 1 /\ n.log = Applied(p, log) /\ n.byUser = TRUE
             /\ n.defaults = MergedDefaults(p) /\ n.rounds = intake.rounds /\ n.rejections = intake.rejections
             /\ n.status = "candidate_ready" /\ n.frontier = p.questions /\ n.pending = <<>>
             /\ n.reason = intake.reason /\ n.generations = Generations
BY DEF Rec, SessionField, FinallyAdvanced

LEMMA ReplacedIs ==
  ASSUME Rec(intake)
  PROVE  LET n == [intake EXCEPT !.rev = @ + 1, !.generations = @ + 1]
         IN  Rec(n) /\ n.rev = intake.rev + 1 /\ Like(n, intake, {"rev", "generations"})
BY DEF Rec, SessionField, Like

LEMMA StartedIs ==
  ASSUME Rec(intake)
  PROVE  LET n == [intake EXCEPT !.status = "active"]
         IN  Rec(n) /\ n.status = "active" /\ Like(n, intake, {"status"})
BY DEF Rec, SessionField, Like

LEMMA ConcludedIs ==
  ASSUME Rec(intake), NEW status
  PROVE  LET n == [intake EXCEPT !.rev = @ + 1, !.status = status, !.frontier = <<>>,
                                 !.pending = IF status = "cancelled" THEN <<>> ELSE @]
         IN  /\ Rec(n) /\ n.rev = intake.rev + 1 /\ n.status = status /\ n.frontier = <<>>
             /\ n.pending = IF status = "cancelled" THEN <<>> ELSE intake.pending
             /\ Like(n, intake, {"rev", "status", "frontier", "pending"})
BY DEF Rec, SessionField, Like

\* A commit gives its key its receipt and leaves no row, since a row is of the revision it moves on from.
LEMMA CommitKeeps ==
  ASSUME IntakeInv, NEW n, n.rev = intake.rev + 1, intake.rev < MaxRevision, NEW s, s.key \in AnyKey, receipts[s.key] = 0,
         Committed(n, s), round' = [at |-> "committed", sub |-> s], UNCHANGED <<sent, answered>>
  PROVE  RoundKept' /\ RowKept' /\ HeldWhileItFits' /\ KeysKept'
<1>1. intake' = n /\ intake'.rev = intake.rev + 1 /\ intake.rev \in Nat /\ MaxRevision \in Nat
      /\ round'.at = "committed" /\ round'.sub = s /\ sent' = sent
  BY LimitAssumption DEF Committed, IntakeInv, SessionShape
<1>2. heldRow' = NoRow
  <2>1. heldRow.sub.base < n.rev
    <3>1. CASE heldRow = NoRow BY <1>1, <3>1 DEF NoRow, Row, NoSubmission, Submission
    <3>2. CASE heldRow # NoRow BY <1>1, <3>2 DEF IntakeInv, HeldWhileItFits
    <3> QED BY <3>1, <3>2
  <2> QED BY <2>1 DEF Committed
<1>3. NoRow = [sub |-> NoRow.sub, failed |-> NoRow.failed] /\ NoRow.sub.base = 0 /\ NoRow.failed = FALSE
  BY DEF NoRow, Row, NoSubmission, Submission
<1>4. sent.base <= intake.rev /\ sent.base \in Nat BY DEF IntakeInv, RowKept
<1>5. receipts' = [receipts EXCEPT ![s.key] = n.rev] /\ receipts \in [AnyKey -> 0..MaxRevision]
  BY DEF Committed, IntakeInv, KeysKept
<1>6. receipts' \in [AnyKey -> 0..MaxRevision] /\ receipts'[s.key] = intake'.rev
      /\ \A k \in AnyKey : k # s.key => receipts'[k] = receipts[k]
  BY <1>1, <1>5
<1>7. RoundKept' BY <1>1, <1>2, <1>4, <1>6 DEF RoundKept
<1>8. RowKept' BY <1>1, <1>2, <1>3, <1>4 DEF RowKept
<1>9. HeldWhileItFits' BY <1>1, <1>2, <1>3, <1>4 DEF HeldWhileItFits
<1>10. landed' = [landed EXCEPT ![s.key] = Append(@, s.base)] /\ landed = [k \in AnyKey |-> landed[k]]
       /\ answered' = answered /\ answered = [k \in AnyKey |-> answered[k]]
  BY DEF Committed, IntakeInv, KeysKept
<1>11. landed[s.key] = <<>> BY DEF IntakeInv, KeysKept
<1>12. landed'[s.key] = <<s.base>> /\ landed' = [k \in AnyKey |-> landed'[k]]
       /\ \A k \in AnyKey : k # s.key => landed'[k] = landed[k]
  <2>1. Append(<<>>, s.base) = <<s.base>> OBVIOUS
  <2> QED BY <1>10, <1>11, <2>1
<1>13. ASSUME NEW k \in AnyKey
       PROVE  /\ receipts'[k] <= intake'.rev /\ (receipts'[k] = 0 <=> landed'[k] = <<>>)
              /\ landed'[k] = <<>> \/ Len(landed'[k]) = 1
              /\ k \in IntakeKey => answered'[k] \subseteq {receipts'[k]} \ {0}
  <2>1. /\ receipts[k] <= intake.rev /\ (receipts[k] = 0 <=> landed[k] = <<>>)
        /\ landed[k] = <<>> \/ Len(landed[k]) = 1
        /\ k \in IntakeKey => answered[k] \subseteq {receipts[k]} \ {0}
    BY DEF IntakeInv, KeysKept
  <2>2. CASE k = s.key
    <3>1. k \in IntakeKey => answered'[k] = {} BY <1>10, <2>1, <2>2
    <3>2. landed'[k] # <<>> /\ Len(landed'[k]) = 1
      <4>1. \A x : <<x>> # <<>> /\ Len(<<x>>) = 1 OBVIOUS
      <4> QED BY <1>12, <2>2, <4>1
    <3>3. receipts'[k] = intake.rev + 1 BY <1>1, <1>6, <2>2
    <3> QED BY <1>1, <3>1, <3>2, <3>3
  <2>3. CASE k # s.key BY <1>1, <1>5, <1>6, <1>10, <1>12, <2>1, <2>3
  <2> QED BY <2>2, <2>3
<1>14. KeysKept'
  <2>1. answered'[CreatesIt] \subseteq 1..intake'.rev
    <3>1. answered[CreatesIt] \subseteq 1..intake.rev BY DEF IntakeInv, KeysKept
    <3>2. 1..intake.rev \subseteq 1..(intake.rev + 1) BY <1>1
    <3> QED BY <1>1, <1>10, <3>1, <3>2
  <2>2. \A k \in IntakeKey : k \in AnyKey BY DEF AnyKey
  <2> QED BY <1>6, <1>10, <1>12, <1>13, <2>1, <2>2 DEF KeysKept
<1> QED BY <1>7, <1>8, <1>9, <1>14

\* Once the answers are in the log, nothing that blocks is open.
LEMMA NothingBlocks ==
  ASSUME IntakeInv, round.at = "asking", round.sub.kind # "replace", Fits(round.sub.replies)
  PROVE  BlockingIn(WithReplies(intake.log, round.sub.replies)) = {}
<1> DEFINE s == round.sub  old == intake.log  log == WithReplies(old, s.replies)
<1>1. old \in Logs /\ s.replies \in Asking(Reply) /\ DOMAIN s.replies \subseteq OpenIn(old)
  BY DEF IntakeInv, SessionShape, RoundKept, Fits
<1>2. OpenIn(log) = OpenIn(old) \ DOMAIN s.replies /\ \A d \in Decision : d \notin DOMAIN s.replies => log[d] = old[d]
  BY <1>1, RepliesSettle
<1> HIDE DEF log
<1> SUFFICES ASSUME NEW d \in BlockingIn(log) PROVE FALSE BY DEF log
<1>3. d \in Decision /\ d \in OpenIn(old) /\ d \notin DOMAIN s.replies BY <1>2 DEF BlockingIn, OpenIn, Raised
<1>4. NewestOf(old, d) = NewestOf(log, d) BY <1>2, <1>3 DEF NewestOf
<1>5. d \in BlockingIn(old) /\ NewestOf(old, d).question.blocking BY <1>3, <1>4 DEF BlockingIn
<1>6. \/ s.kind = "start" /\ OpenIn(old) = {}
      \/ intake.status \in {"active", "candidate_ready"} /\ DOMAIN intake.pending = {} /\ Blocks(intake.frontier) \subseteq DOMAIN s.replies
      \/ intake.status = "convergence_required" /\ intake.frontier = <<>> /\ DOMAIN intake.pending \subseteq DOMAIN s.replies
  BY DEF IntakeInv, RoundKept, LimitsKept, AllIsAsked
<1>7. \/ d \in DOMAIN intake.frontier /\ intake.frontier[d] = NewestOf(old, d).question
      \/ d \in DOMAIN intake.pending
      \/ intake.status \notin Resumable
  BY <1>5 DEF IntakeInv, AllIsAsked
<1>8. d \in DOMAIN intake.frontier /\ intake.frontier[d].blocking => d \in Blocks(intake.frontier) BY DEF Blocks
<1>9. DOMAIN <<>> = {} OBVIOUS
<1> QED BY <1>3, <1>5, <1>6, <1>7, <1>8, <1>9 DEF Resumable

-----------------------------------------------------------------------------
(* A round that lands                                                      *)

\* What the session is once it has asked p: stopped, asking, ready, or ready by the user's wish.
Outcome(n, p) ==
    /\ n.rounds \in Nat /\ n.rejections \in Nat /\ n.byUser \in BOOLEAN
    /\ \/ n.status = "convergence_required" /\ n.reason # "none" /\ n.frontier = <<>> /\ n.pending = p.questions
       \/ /\ n.frontier = p.questions /\ n.pending = <<>> /\ (n.rejections < MaxRejections \/ n.byUser)
          /\ \/ n.status = "candidate_ready" /\ p.ready
             \/ n.status = "active" /\ n.rounds < MaxRounds

LEMMA LogKeepsAnswers ==
  ASSUME IntakeInv, round.at = "asking", Fits(round.sub.replies), NEW p, p.questions \in Asking(Question),
         NEW d \in Decision,
         NEW i \in DOMAIN Applied(p, WithReplies(intake.log, round.sub.replies))[d],
         Applied(p, WithReplies(intake.log, round.sub.replies))[d][i].state = "resolved"
  PROVE  LET e == Applied(p, WithReplies(intake.log, round.sub.replies))[d][i]
         IN  <<d, e.question, e.reply>> \in typed
<1> DEFINE replies == round.sub.replies  old == intake.log  log == WithReplies(old, replies)  new == Applied(p, log)
<1>1. old \in Logs /\ replies \in Asking(Reply) /\ DOMAIN replies \subseteq OpenIn(old)
  BY DEF IntakeInv, SessionShape, RoundKept, Fits
<1>2. /\ log \in Logs /\ \A x \in Decision : x \notin DOMAIN replies => log[x] = old[x]
      /\ \A x \in DOMAIN replies : log[x] = Append(old[x], Settled(NewestOf(old, x).question, replies[x]))
  BY <1>1, RepliesSettle
<1> HIDE DEF log
<1>3. /\ new \in Logs /\ \A x \in Decision : x \notin DOMAIN p.questions => new[x] = log[x]
      /\ \A x \in DOMAIN p.questions :
            /\ NewestOf(new, x).state = "open"
            /\ \A j \in 1..Len(new[x]) : j # Len(new[x]) => new[x][j] = log[x][j]
            /\ Len(new[x]) = IF x \in OpenIn(log) THEN Len(log[x]) ELSE Len(log[x]) + 1
  BY <1>2, QuestionsOpen
<1> HIDE DEF new
<1>4. /\ new[d] \in Seq(DecisionEntry) /\ log[d] \in Seq(DecisionEntry) /\ old[d] \in Seq(DecisionEntry)
      /\ i \in 1..Len(new[d]) /\ new[d][i].state = "resolved"
  <2>1. i \in DOMAIN new[d] /\ new[d][i].state = "resolved" BY DEF new, log
  <2> QED BY <1>1, <1>2, <1>3, <2>1 DEF Logs
<1>5. i \in 1..Len(log[d]) /\ new[d][i] = log[d][i]
  <2>1. CASE d \notin DOMAIN p.questions BY <1>3, <1>4, <2>1
  <2>2. CASE d \in DOMAIN p.questions
    <3>1. i # Len(new[d]) BY <1>3, <1>4, <2>2 DEF NewestOf
    <3>2. new[d][i] = log[d][i] BY <1>3, <1>4, <2>2, <3>1
    <3>3. Len(new[d]) = Len(log[d]) \/ Len(new[d]) = Len(log[d]) + 1 BY <1>3, <2>2
    <3>4. Len(log[d]) \in Nat /\ Len(new[d]) \in Nat BY <1>4
    <3> QED BY <1>4, <3>1, <3>2, <3>3, <3>4
  <2> QED BY <2>1, <2>2
<1>6. \A j \in DOMAIN old[d] : old[d][j].state = "resolved" => <<d, old[d][j].question, old[d][j].reply>> \in typed
  BY DEF IntakeInv, AnswersAreTyped
<1>7. <<d, log[d][i].question, log[d][i].reply>> \in typed
  <2>1. CASE d \notin DOMAIN replies
    <3>1. log[d] = old[d] BY <1>2, <2>1
    <3>2. i \in DOMAIN old[d] /\ old[d][i].state = "resolved" BY <1>4, <1>5, <3>1
    <3>3. <<d, old[d][i].question, old[d][i].reply>> \in typed BY <1>6, <3>2
    <3> QED BY <3>1, <3>3
  <2>2. CASE d \in DOMAIN replies
    <3> DEFINE e == Settled(NewestOf(old, d).question, replies[d])
    <3>1. log[d] = Append(old[d], e) BY <1>2, <2>2
    <3>2. <<d, e.question, e.reply>> \in typed
      <4>1. e.question = NewestOf(old, d).question /\ e.reply = replies[d] BY DEF Settled
      <4>2. \A x \in DOMAIN replies \cap OpenIn(old) : <<x, NewestOf(old, x).question, replies[x]>> \in typed
        BY DEF IntakeInv, RoundKept
      <4> HIDE DEF e
      <4>3. d \in DOMAIN replies \cap OpenIn(old) BY <1>1, <2>2
      <4> QED BY <4>1, <4>2, <4>3
    <3> HIDE DEF e
    <3>3. Len(old[d]) \in Nat /\ Len(log[d]) = Len(old[d]) + 1 /\ log[d][Len(old[d]) + 1] = e
          /\ \A j \in 1..Len(old[d]) : log[d][j] = old[d][j]
      BY <1>4, <3>1
    <3>4. CASE i = Len(old[d]) + 1 BY <3>2, <3>3, <3>4
    <3>5. CASE i # Len(old[d]) + 1
      <4>1. i \in 1..Len(old[d]) /\ i \in DOMAIN old[d] BY <1>4, <1>5, <3>3, <3>5
      <4>2. log[d][i] = old[d][i] BY <3>3, <4>1
      <4> QED BY <1>4, <1>5, <1>6, <4>1, <4>2
    <3> QED BY <3>4, <3>5
  <2> QED BY <2>1, <2>2
<1> QED BY <1>5, <1>7 DEF new, log

LEMMA RoundAppliedKeeps ==
  ASSUME IntakeInv, round.at = "asking", round.sub.kind # "replace", Fits(round.sub.replies),
         NEW p, Proposed(p), NEW n, Rec(n), Outcome(n, p), n.rev = intake.rev + 1,
         n.log = Applied(p, WithReplies(intake.log, round.sub.replies)),
         Committed(n, round.sub), round' = [round EXCEPT !.at = "committed"], UNCHANGED <<typed, sent, answered>>
  PROVE  IntakeInv'
<1> DEFINE replies == round.sub.replies  old == intake.log  log == WithReplies(old, replies)  new == n.log
<1>0. p.questions \in Asking(Question) /\ (p.ready => DOMAIN p.questions = {}) /\ DOMAIN p.questions \subseteq Decision
  BY AskingIs DEF Proposed
<1>1. old \in Logs /\ replies \in Asking(Reply) /\ DOMAIN replies \subseteq OpenIn(old)
  BY DEF IntakeInv, SessionShape, RoundKept, Fits
<1>2. log \in Logs BY <1>1, RepliesSettle
<1>3. BlockingIn(log) = {} BY NothingBlocks
<1> HIDE DEF log
<1>4. new = Applied(p, log) BY DEF log
<1>5. /\ new \in Logs /\ \A x \in Decision : x \notin DOMAIN p.questions => new[x] = log[x]
      /\ \A x \in DOMAIN p.questions : NewestOf(new, x).state = "open" /\ NewestOf(new, x).question = p.questions[x]
      /\ OpenIn(new) = OpenIn(log) \cup DOMAIN p.questions
  BY <1>0, <1>2, <1>4, QuestionsOpen
<1>6. ASSUME NEW d \in BlockingIn(new)
      PROVE  d \in DOMAIN p.questions /\ p.questions[d] = NewestOf(new, d).question
  <2>1. d \in OpenIn(new) /\ NewestOf(new, d).question.blocking /\ d \in Decision BY DEF BlockingIn, OpenIn, Raised
  <2>2. CASE d \in DOMAIN p.questions BY <1>5, <2>2
  <2>3. CASE d \notin DOMAIN p.questions
    <3>1. NewestOf(new, d) = NewestOf(log, d) BY <1>5, <2>1, <2>3 DEF NewestOf
    <3> QED BY <1>3, <1>5, <2>1, <2>3, <3>1 DEF BlockingIn
  <2> QED BY <2>2, <2>3
<1>7. intake' = n /\ intake.rev \in Nat /\ intake.rev < MaxRevision /\ MaxRevision \in Nat
      /\ round.sub.key \in AnyKey /\ receipts[round.sub.key] = 0 /\ typed' = typed
  BY LimitAssumption DEF Committed, IntakeInv, SessionShape, RoundKept
<1>8. round' = [at |-> "committed", sub |-> round.sub] BY DEF IntakeInv, SessionShape
<1>9. RoundKept' /\ RowKept' /\ HeldWhileItFits' /\ KeysKept' BY <1>7, <1>8, CommitKeeps
<1>10. DOMAIN <<>> = {} /\ <<>> \in Asking(Question) BY NothingAsked
<1> HIDE DEF new
<1>11. SessionShape'
  <2>1. n.rev \in 0..MaxRevision BY <1>7
  <2>2. n.frontier \in Asking(Question) /\ n.pending \in Asking(Question) /\ n.rounds \in Nat /\ n.rejections \in Nat
        /\ n.byUser \in BOOLEAN
    BY <1>0, <1>10 DEF Outcome
  <2>3. n.log \in Logs BY <1>5 DEF new
  <2>4. round' = [at |-> round'.at, sub |-> round'.sub] /\ round'.at = "committed" BY <1>8
  <2> QED BY <1>7, <2>1, <2>2, <2>3, <2>4 DEF SessionShape, Rec
<1>12. AllIsAsked'
  <2>1. /\ DOMAIN n.frontier \cap DOMAIN n.pending = {}
        /\ DOMAIN n.frontier \cup DOMAIN n.pending \subseteq OpenIn(new)
    BY <1>5, <1>10 DEF Outcome
  <2>2. \A d \in BlockingIn(new) : \/ d \in DOMAIN n.frontier /\ n.frontier[d] = NewestOf(new, d).question
                                   \/ d \in DOMAIN n.pending /\ n.pending[d] = NewestOf(new, d).question
    BY <1>6, <1>10 DEF Outcome
  <2>3. n.status \in {"candidate_ready", "confirmed"} => BlockingIn(new) = {} /\ n.pending = <<>>
    <3>1. n.status \in {"candidate_ready", "confirmed"} => p.ready /\ n.pending = <<>> BY DEF Outcome
    <3>2. p.ready => BlockingIn(new) = {} BY <1>0, <1>6
    <3> QED BY <3>1, <3>2
  <2>4. n.status = "convergence_required" => n.frontier = <<>> /\ n.reason # "none" BY DEF Outcome
  <2>5. intake'.log = new BY <1>7 DEF new
  <2> QED BY <1>7, <2>1, <2>2, <2>3, <2>4, <2>5 DEF AllIsAsked
<1>13. AskingEnds' BY <1>7 DEF Outcome, AskingEnds
<1>14. LimitsKept' BY <1>7, <1>10 DEF Outcome, LimitsKept
<1>15. AnswersAreTyped'
  <2>1. \A d \in Decision : \A i \in DOMAIN new[d] :
           new[d][i].state = "resolved" => <<d, new[d][i].question, new[d][i].reply>> \in typed
    BY <1>0, <1>4, LogKeepsAnswers DEF log
  <2>2. intake'.log = new BY <1>7 DEF new
  <2> QED BY <1>7, <2>1, <2>2 DEF AnswersAreTyped
<1> QED BY <1>9, <1>11, <1>12, <1>13, <1>14, <1>15 DEF IntakeInv

\* A round that lands is one of three: it advances, it finalizes, or it only replaces the thread.
Landed(p, n) ==
    /\ Proposed(p) /\ Rec(n) /\ Outcome(n, p) /\ n.rev = intake.rev + 1
    /\ n.log = Applied(p, WithReplies(intake.log, round.sub.replies)) /\ n.defaults = MergedDefaults(p)
    /\ n.reason \in {intake.reason, "none", "rounds", "rejections"} /\ n.generations = Generations
    /\ Committed(n, round.sub)

LEMMA AdvancedLands ==
  ASSUME IntakeInv, round.at = "asking", round.sub.kind \in {"start", "round"}, NEW p, Proposed(p),
         NEW rejections \in {intake.rejections, intake.rejections + 1},
         Committed(Advanced(p, WithReplies(intake.log, round.sub.replies), rejections), round.sub)
  PROVE  Landed(p, Advanced(p, WithReplies(intake.log, round.sub.replies), rejections))
<1> DEFINE log == WithReplies(intake.log, round.sub.replies)  n == Advanced(p, log, rejections)
           reason == Stops(p.ready, rejections)
<1> HIDE DEF log
<1>1. Rec(intake) BY DEF IntakeInv, SessionShape, Rec
<1>2. /\ Rec(n) /\ n.rev = intake.rev + 1 /\ n.log = Applied(p, log) /\ n.byUser = intake.byUser
      /\ n.defaults = MergedDefaults(p) /\ n.rounds = RoundNumber /\ n.rejections = rejections
      /\ n.reason = reason /\ n.generations = Generations
      /\ n.status = IF reason # "none" THEN "convergence_required" ELSE IF p.ready THEN "candidate_ready" ELSE "active"
      /\ n.frontier = IF reason # "none" THEN <<>> ELSE p.questions
      /\ n.pending = IF reason # "none" THEN p.questions ELSE <<>>
  BY <1>1, AdvancedIs
<1>3. intake.rounds \in Nat /\ intake.rejections \in Nat /\ intake.byUser \in BOOLEAN BY DEF IntakeInv, SessionShape
<1>4. RoundNumber \in Nat BY <1>3 DEF RoundNumber
<1>5. intake.rejections < MaxRejections \/ intake.byUser BY DEF IntakeInv, RoundKept, LimitsKept
<1>6. MaxRounds \in Nat /\ MaxRejections \in Nat BY LimitAssumption
<1>11. reason \in {"none", "rounds", "rejections"} BY DEF Stops
<1>7. reason = "none" => /\ rejections < MaxRejections \/ intake.byUser
                         /\ p.ready \/ RoundNumber < MaxRounds
  BY <1>3, <1>4, <1>5, <1>6 DEF Stops
<1> HIDE DEF n, reason
<1>8. Outcome(n, p) BY <1>2, <1>3, <1>4, <1>7 DEF Outcome
<1>9. Committed(n, round.sub) BY DEF n, log
<1>10. Landed(p, n) BY <1>2, <1>8, <1>9, <1>11 DEF Landed, log
<1> QED BY <1>10 DEF n, log

LEMMA FinalLands ==
  ASSUME IntakeInv, NEW p, Proposed(p), p.ready,
         Committed(FinallyAdvanced(p, WithReplies(intake.log, round.sub.replies)), round.sub)
  PROVE  Landed(p, FinallyAdvanced(p, WithReplies(intake.log, round.sub.replies)))
<1> DEFINE log == WithReplies(intake.log, round.sub.replies)  n == FinallyAdvanced(p, log)
<1> HIDE DEF log
<1>1. Rec(intake) BY DEF IntakeInv, SessionShape, Rec
<1>2. /\ Rec(n) /\ n.rev = intake.rev + 1 /\ n.log = Applied(p, log) /\ n.byUser = TRUE
      /\ n.defaults = MergedDefaults(p) /\ n.rounds = intake.rounds /\ n.rejections = intake.rejections
      /\ n.status = "candidate_ready" /\ n.frontier = p.questions /\ n.pending = <<>>
      /\ n.reason = intake.reason /\ n.generations = Generations
  BY <1>1, FinallyAdvancedIs
<1>3. intake.rounds \in Nat /\ intake.rejections \in Nat BY DEF IntakeInv, SessionShape
<1> HIDE DEF n
<1>4. Outcome(n, p) BY <1>2, <1>3 DEF Outcome
<1>5. Committed(n, round.sub) BY DEF n, log
<1>6. Landed(p, n) BY <1>2, <1>4, <1>5 DEF Landed, log
<1> QED BY <1>6 DEF n, log

LEMMA RoundsLand ==
  ASSUME IntakeInv, RoundLands, round.sub.kind # "replace"
  PROVE  \E p, n : Landed(p, n)
<1> DEFINE log == WithReplies(intake.log, round.sub.replies)
<1>1. round.at = "asking" BY DEF RoundLands
<1>2. CASE round.sub.kind \in {"start", "round"} /\ \E p \in Proposals(log) : Advances(p, log)
  <2>1. PICK p \in Proposals(log) : Advances(p, log) BY <1>2
  <2> HIDE DEF log
  <2>2. PICK qs \in Asking(Question), rs \in SUBSET Decision, ds \in SUBSET Default, ready \in BOOLEAN :
           p = Parsed(qs, rs, ds, ready, log)
    BY DEF Proposals
  <2>3. Proposed(p) BY <2>2, ParsedIsProposed
  <2>4. CASE ~p.ready
    <3> DEFINE graded == RepairedProposal(p, log)
    <3>1. Proposed(graded) BY <2>3, RepairedIsProposed
    <3>2. Committed(Advanced(graded, log, intake.rejections), round.sub) BY <2>1, <2>4 DEF Advances, Lands
    <3> HIDE DEF graded
    <3>3. Landed(graded, Advanced(graded, log, intake.rejections)) BY <1>1, <1>2, <3>1, <3>2, AdvancedLands DEF log
    <3> QED BY <3>3
  <2>5. CASE p.ready
    <3>1. PICK more \in SUBSET Convention, found \in Asking([text : Wording, blocking : {TRUE}]) :
             LET graded == RepairedProposal(Audited(p, found, more), log)
                 rejections == intake.rejections + (IF DOMAIN found = {} THEN 0 ELSE 1) IN
             Lands(graded, log, Advanced(graded, log, rejections))
      BY <2>1, <2>5 DEF Advances
    <3> DEFINE graded == RepairedProposal(Audited(p, found, more), log)
               rejections == intake.rejections + (IF DOMAIN found = {} THEN 0 ELSE 1)
    <3>2. found \in Asking(Question)
      <4>1. [text : Wording, blocking : {TRUE}] \subseteq Question BY DEF Question
      <4> HIDE DEF graded
      <4>2. /\ DOMAIN found \subseteq Decision /\ found = [d \in DOMAIN found |-> found[d]]
            /\ \A d \in DOMAIN found : found[d] \in [text : Wording, blocking : {TRUE}]
        BY AskingIs
      <4>3. \A d \in DOMAIN found : found[d] \in Question BY <4>1, <4>2
      <4> QED BY <4>2, <4>3, AskingIs
    <3>3. Proposed(Audited(p, found, more)) BY <2>3, <3>2, AuditedIsProposed
    <3>4. Proposed(graded) BY <3>3, RepairedIsProposed
    <3>5. Committed(Advanced(graded, log, rejections), round.sub) BY <3>1 DEF Lands
    <3>6. rejections \in {intake.rejections, intake.rejections + 1} BY DEF IntakeInv, SessionShape
    <3> HIDE DEF graded, rejections
    <3>7. Landed(graded, Advanced(graded, log, rejections))
      BY <1>1, <1>2, <3>4, <3>5, <3>6, AdvancedLands DEF log
    <3> QED BY <3>7
  <2> QED BY <2>4, <2>5
<1>3. CASE round.sub.kind = "finalize" /\ \E p \in FinalProposals : Finalizes(p, log)
  <2>1. PICK p \in FinalProposals : Finalizes(p, log) BY <1>3
  <2> HIDE DEF log
  <2>2. PICK qs \in Asking(Question), ds \in SUBSET Default : p = ParsedFinal(qs, ds) BY DEF FinalProposals
  <2>3. Proposed(p) /\ p.ready
    <3>1. ParsedFinal(qs, ds).ready BY DEF ParsedFinal
    <3> QED BY <2>2, <3>1, FinalIsProposed
  <2> DEFINE graded == RepairedProposal(p, log)
  <2>4. Proposed(graded) /\ graded.ready BY <2>3, RepairedIsProposed
  <2>5. Committed(FinallyAdvanced(graded, log), round.sub) BY <2>1 DEF Finalizes, Lands
  <2> HIDE DEF graded
  <2>6. Landed(graded, FinallyAdvanced(graded, log)) BY <2>4, <2>5, FinalLands DEF log
  <2> QED BY <2>6
<1> QED BY <1>2, <1>3 DEF RoundLands

LEMMA RoundLandsKeeps == ASSUME IntakeInv, RoundLands PROVE IntakeInv'
<1>1. /\ round.at = "asking" /\ Fits(round.sub.replies) /\ round' = [round EXCEPT !.at = "committed"]
      /\ UNCHANGED <<typed, sent, answered>>
  BY DEF RoundLands
<1>2. CASE round.sub.kind # "replace"
  <2>1. PICK p, n : Landed(p, n) BY <1>2, RoundsLand
  <2> QED BY <1>1, <1>2, <2>1, RoundAppliedKeeps DEF Landed
<1>3. CASE round.sub.kind = "replace"
  <2> DEFINE n == [intake EXCEPT !.rev = @ + 1, !.generations = @ + 1]
  <2>1. Committed(n, round.sub) BY <1>3 DEF RoundLands
  <2>2. Rec(intake) BY DEF IntakeInv, SessionShape, Rec
  <2>3. Rec(n) /\ n.rev = intake.rev + 1 /\ Like(n, intake, {"rev", "generations"}) BY <2>2, ReplacedIs
  <2>4. /\ n.status = intake.status /\ n.log = intake.log /\ n.frontier = intake.frontier
        /\ n.pending = intake.pending /\ n.rounds = intake.rounds /\ n.rejections = intake.rejections
        /\ n.reason = intake.reason /\ n.byUser = intake.byUser
    BY <2>3 DEF Like, SessionField
  <2> HIDE DEF n
  <2>5. /\ intake' = n /\ intake.rev \in Nat /\ intake.rev < MaxRevision /\ MaxRevision \in Nat
        /\ round.sub.key \in AnyKey /\ receipts[round.sub.key] = 0
    BY <1>1, <2>1, LimitAssumption DEF Committed, IntakeInv, SessionShape, RoundKept
  <2>6. round' = [at |-> "committed", sub |-> round.sub] BY <1>1 DEF IntakeInv, SessionShape
  <2>7. RoundKept' /\ RowKept' /\ HeldWhileItFits' /\ KeysKept' BY <1>1, <2>1, <2>3, <2>5, <2>6, CommitKeeps
  <2>8. SessionShape'
    <3>1. round' = [at |-> round'.at, sub |-> round'.sub] /\ round'.at = "committed" BY <2>6
    <3>2. n.rev \in 0..MaxRevision BY <2>3, <2>5
    <3> QED BY <2>3, <2>4, <2>5, <3>1, <3>2 DEF IntakeInv, SessionShape, Rec
  <2>9. AllIsAsked' BY <2>4, <2>5 DEF IntakeInv, AllIsAsked
  <2>10. AskingEnds' /\ LimitsKept' BY <2>3, <2>4, <2>5 DEF IntakeInv, AskingEnds, LimitsKept
  <2>11. AnswersAreTyped' BY <1>1, <2>4, <2>5 DEF IntakeInv, AnswersAreTyped
  <2> QED BY <2>7, <2>8, <2>9, <2>10, <2>11 DEF IntakeInv
<1> QED BY <1>2, <1>3

LEMMA ConcludeKeeps ==
  ASSUME IntakeInv, NEW k \in IntakeKey, NEW status \in {"confirmed", "cancelled"}, Conclude(k, status),
         intake.status \in Resumable, status = "confirmed" => intake.status = "candidate_ready"
  PROVE  IntakeInv'
<1> DEFINE s == Submission("conclude", k, intake.rev, <<>>, FALSE)
           n == [intake EXCEPT !.rev = @ + 1, !.status = status, !.frontier = <<>>,
                               !.pending = IF status = "cancelled" THEN <<>> ELSE @]
<1>1. /\ Committed(n, s) /\ round' = [at |-> "committed", sub |-> s] /\ UNCHANGED <<typed, sent, answered>>
      /\ receipts[k] = 0 /\ intake.rev < MaxRevision
  BY DEF Conclude, MoreRevisions, Unused
<1>2. Rec(intake) BY DEF IntakeInv, SessionShape, Rec
<1>3. /\ Rec(n) /\ n.rev = intake.rev + 1 /\ n.status = status /\ n.frontier = <<>>
      /\ n.pending = IF status = "cancelled" THEN <<>> ELSE intake.pending
      /\ Like(n, intake, {"rev", "status", "frontier", "pending"})
  BY <1>2, ConcludedIs
<1> HIDE DEF n
<1>4. /\ n.log = intake.log /\ n.rounds = intake.rounds /\ n.rejections = intake.rejections
      /\ n.reason = intake.reason /\ n.byUser = intake.byUser
  BY <1>3 DEF Like, SessionField
<1>5. s.key = k /\ k \in AnyKey BY DEF Submission, AnyKey
<1>6. intake' = n /\ intake.rev \in Nat /\ MaxRevision \in Nat
  BY <1>1, LimitAssumption DEF Committed, IntakeInv, SessionShape
<1> HIDE DEF s
<1>7. RoundKept' /\ RowKept' /\ HeldWhileItFits' /\ KeysKept' BY <1>1, <1>3, <1>5, CommitKeeps
<1>8. DOMAIN <<>> = {} /\ <<>> \in Asking(Question) BY NothingAsked
<1>9. SessionShape'
  <2>1. round' = [at |-> round'.at, sub |-> round'.sub] /\ round'.at = "committed" BY <1>1
  <2>2. n.rev \in 0..MaxRevision BY <1>1, <1>3, <1>6
  <2> QED BY <1>3, <1>4, <1>6, <1>8, <2>1, <2>2 DEF IntakeInv, SessionShape, Rec
<1>10. AllIsAsked'
  <2>1. DOMAIN n.pending \subseteq DOMAIN intake.pending BY <1>3, <1>8
  <2>2. status = "confirmed" => BlockingIn(intake.log) = {} /\ n.pending = <<>> BY <1>3 DEF IntakeInv, AllIsAsked
  <2>3. DOMAIN intake.pending \subseteq OpenIn(intake.log) BY DEF IntakeInv, AllIsAsked
  <2> QED BY <1>3, <1>4, <1>6, <1>8, <2>1, <2>2, <2>3 DEF AllIsAsked, Resumable
<1>11. AskingEnds' /\ LimitsKept' BY <1>3, <1>6 DEF AskingEnds, LimitsKept
<1>12. AnswersAreTyped' BY <1>1, <1>4, <1>6 DEF IntakeInv, AnswersAreTyped
<1> QED BY <1>7, <1>9, <1>10, <1>11, <1>12 DEF IntakeInv

\* Steps that touch neither the session nor what was typed.
LEMMA SameSession ==
  ASSUME IntakeInv, UNCHANGED <<intake, typed>>, round' = [at |-> round'.at, sub |-> round'.sub],
         round'.at \in {"idle", "asking", "committed"}
  PROVE  SessionShape' /\ AllIsAsked' /\ AskingEnds' /\ LimitsKept' /\ AnswersAreTyped'
<1>1. SessionShape' BY DEF IntakeInv, SessionShape
<1>2. AllIsAsked' BY DEF IntakeInv, AllIsAsked
<1>3. AskingEnds' /\ LimitsKept' BY DEF IntakeInv, AskingEnds, LimitsKept
<1>4. AnswersAreTyped' BY DEF IntakeInv, AnswersAreTyped
<1> QED BY <1>1, <1>2, <1>3, <1>4

LEMMA TakeKeeps ==
  ASSUME IntakeInv, NEW s, Take(s), AtRest, MoreRevisions, s.key \in IntakeKey, Unused(s.key), s.base = intake.rev,
         s.replies \in Asking(Reply),
         \/ s.kind = "round" /\ intake.status \in {"active", "candidate_ready"}
              /\ Blocks(intake.frontier) \subseteq DOMAIN s.replies
         \/ s.kind = "finalize" /\ intake.status = "convergence_required"
              /\ DOMAIN intake.pending \subseteq DOMAIN s.replies
  PROVE  IntakeInv'
<1>1. /\ heldRow' = Row(s, FALSE) /\ round' = [at |-> "asking", sub |-> s] /\ sent' = s
      /\ typed' = typed \cup {<<d, NewestOf(intake.log, d).question, s.replies[d]>> : d \in DOMAIN s.replies \cap OpenIn(intake.log)}
      /\ UNCHANGED <<intake, receipts, outdated, landed, answered>>
  BY DEF Take, HeldNow, Awaiting
<1>2. round'.at = "asking" /\ round'.sub = s /\ round' = [at |-> round'.at, sub |-> round'.sub] BY <1>1
<1>3. heldRow'.sub = s /\ heldRow'.failed = FALSE /\ heldRow' = [sub |-> heldRow'.sub, failed |-> heldRow'.failed]
  BY <1>1 DEF Row
<1>4. s.key \in AnyKey /\ s.key # NoKey /\ intake.rev < MaxRevision /\ receipts[s.key] = 0 /\ intake.rev \in Nat
  BY LimitAssumption DEF AnyKey, MoreRevisions, Unused, IntakeInv, SessionShape
<1>5. SessionShape' BY <1>1, <1>2 DEF IntakeInv, SessionShape
<1>6. AllIsAsked' BY <1>1 DEF IntakeInv, AllIsAsked
<1>7. AskingEnds' /\ LimitsKept' BY <1>1 DEF IntakeInv, AskingEnds, LimitsKept
<1>8. AnswersAreTyped'
  <2>1. typed \subseteq typed' BY <1>1
  <2> QED BY <1>1, <2>1 DEF IntakeInv, AnswersAreTyped
<1>9. RoundKept'
  <2>1. \A d \in DOMAIN s.replies \cap OpenIn(intake.log) :
           <<d, NewestOf(intake.log, d).question, s.replies[d]>> \in typed'
    BY <1>1
  <2>2. intake' = intake /\ receipts' = receipts BY <1>1
  <2> QED BY <1>2, <1>4, <2>1, <2>2 DEF RoundKept
<1>10. RowKept'
  <2>1. intake'.rev = intake.rev /\ sent'.base = intake.rev /\ heldRow'.sub.base = intake.rev BY <1>1, <1>3
  <2>2. heldRow'.sub.kind \in {"round", "finalize"} /\ heldRow'.sub.key # NoKey BY <1>3, <1>4
  <2>3. heldRow' = Row(round'.sub, FALSE) /\ sent' = round'.sub BY <1>1, <1>2
  <2>4. sent'.base <= intake'.rev /\ sent'.base \in Nat /\ heldRow'.sub.base \in Nat BY <1>4, <2>1
  <2> QED BY <1>3, <2>2, <2>3, <2>4 DEF RowKept
<1>11. HeldWhileItFits' BY <1>1, <1>2, <1>3 DEF HeldWhileItFits
<1>12. KeysKept' BY <1>1 DEF IntakeInv, KeysKept
<1> QED BY <1>5, <1>6, <1>7, <1>8, <1>9, <1>10, <1>11, <1>12 DEF IntakeInv

\* Steps that leave the session where it is, with nothing under way.
LEMMA RestSteps ==
  ASSUME IntakeInv, UNCHANGED <<intake, typed, sent>>, round' = Rest,
         heldRow' = heldRow \/ (heldRow' = [heldRow EXCEPT !.failed = TRUE] /\ heldRow # NoRow)
  PROVE  SessionShape' /\ AllIsAsked' /\ AskingEnds' /\ LimitsKept' /\ AnswersAreTyped' /\ RoundKept' /\ RowKept'
         /\ HeldWhileItFits'
<1>1. round'.at = "idle" /\ round' = [at |-> round'.at, sub |-> round'.sub] BY DEF Rest
<1>2. SessionShape' /\ AllIsAsked' /\ AskingEnds' /\ LimitsKept' /\ AnswersAreTyped' BY <1>1, SameSession
<1>3. RoundKept' BY <1>1 DEF RoundKept
<1>4. heldRow = [sub |-> heldRow.sub, failed |-> heldRow.failed] BY DEF IntakeInv, RowKept
<1>5. /\ heldRow' = [sub |-> heldRow'.sub, failed |-> heldRow'.failed] /\ heldRow'.sub = heldRow.sub
      /\ heldRow' = NoRow \/ heldRow # NoRow
  BY <1>4
<1>6. RowKept' BY <1>1, <1>5 DEF IntakeInv, RowKept
<1>7. HeldWhileItFits' BY <1>1, <1>5 DEF IntakeInv, HeldWhileItFits
<1> QED BY <1>2, <1>3, <1>6, <1>7

LEMMA RoundFailsKeeps == ASSUME IntakeInv, RoundFails PROVE IntakeInv'
<1>1. round.at = "asking" /\ round.sub.key \in AnyKey BY DEF RoundFails, IntakeInv, RoundKept
<1>2. NoRow.sub.key = NoKey BY DEF NoRow, Row, NoSubmission, Submission
<1>3. heldRow' = heldRow \/ (heldRow' = [heldRow EXCEPT !.failed = TRUE] /\ heldRow # NoRow)
  BY <1>1, <1>2, LimitAssumption DEF RoundFails
<1>4. round' = Rest /\ UNCHANGED <<intake, receipts, outdated, typed, sent, landed, answered>> BY DEF RoundFails
<1>5. KeysKept' BY <1>4 DEF IntakeInv, KeysKept
<1> QED BY <1>3, <1>4, <1>5, RestSteps DEF IntakeInv

\* What a caller is told of a command is the revision on its receipt, and of the create that of the session.
LEMMA ToldIsKept ==
  ASSUME IntakeInv, NEW k \in AnyKey, NEW a, a \in 1..intake.rev, k \in IntakeKey => a = receipts[k],
         answered' = [answered EXCEPT ![k] = @ \cup {a}], UNCHANGED <<intake, receipts, landed>>
  PROVE  KeysKept'
<1>1. answered = [x \in AnyKey |-> answered[x]] BY DEF IntakeInv, KeysKept
<1>2. answered' = [x \in AnyKey |-> answered'[x]] /\ answered'[k] = answered[k] \cup {a}
      /\ \A x \in AnyKey : x # k => answered'[x] = answered[x]
  BY <1>1
<1>3. ASSUME NEW x \in IntakeKey PROVE answered'[x] \subseteq {receipts[x]} \ {0}
  <2>1. answered[x] \subseteq {receipts[x]} \ {0} BY DEF IntakeInv, KeysKept
  <2>2. x \in AnyKey BY DEF AnyKey
  <2>3. a # 0 BY DEF IntakeInv, SessionShape
  <2> QED BY <1>2, <2>1, <2>2, <2>3
<1>4. answered'[CreatesIt] \subseteq 1..intake.rev
  <2>1. answered[CreatesIt] \subseteq 1..intake.rev /\ CreatesIt \in AnyKey BY DEF IntakeInv, KeysKept, AnyKey
  <2> QED BY <1>2, <2>1
<1> QED BY <1>2, <1>3, <1>4 DEF IntakeInv, KeysKept

LEMMA CreateAgainKeeps == ASSUME IntakeInv, CreateAgain PROVE IntakeInv'
<1>1. /\ round = Rest /\ intake.rev > 0 /\ answered' = [answered EXCEPT ![CreatesIt] = @ \cup {intake.rev}]
      /\ UNCHANGED <<intake, receipts, heldRow, round, outdated, typed, sent, landed>>
  BY DEF CreateAgain, AtRest
<1>2. KeysKept'
  <2>1. CreatesIt \in AnyKey /\ CreatesIt \notin IntakeKey BY LimitAssumption DEF AnyKey
  <2>2. intake.rev \in 1..intake.rev BY <1>1 DEF IntakeInv, SessionShape
  <2> QED BY <1>1, <2>1, <2>2, ToldIsKept
<1> QED BY <1>1, <1>2, RestSteps DEF IntakeInv

LEMMA AnswerAgainKeeps == ASSUME IntakeInv, NEW k \in IntakeKey, AnswerAgain(k) PROVE IntakeInv'
<1>1. /\ round = Rest /\ receipts[k] # 0 /\ answered' = [answered EXCEPT ![k] = @ \cup {receipts[k]}]
      /\ UNCHANGED <<intake, receipts, heldRow, round, outdated, typed, sent, landed>>
  BY DEF AnswerAgain, AtRest, Unused
<1>2. KeysKept'
  <2>1. k \in AnyKey BY DEF AnyKey
  <2>2. receipts[k] \in 1..intake.rev
    <3>1. receipts[k] \in 0..MaxRevision /\ receipts[k] <= intake.rev BY <2>1 DEF IntakeInv, KeysKept
    <3>2. intake.rev \in Nat /\ MaxRevision \in Nat BY LimitAssumption DEF IntakeInv, SessionShape
    <3> QED BY <1>1, <3>1, <3>2
  <2> QED BY <1>1, <2>1, <2>2, ToldIsKept
<1> QED BY <1>1, <1>2, RestSteps DEF IntakeInv

LEMMA RoundReleasesKeeps == ASSUME IntakeInv, RoundReleases PROVE IntakeInv'
<1>1. /\ round.at = "committed" /\ round' = Rest
      /\ answered' = [answered EXCEPT ![round.sub.key] = @ \cup {intake.rev}]
      /\ UNCHANGED <<intake, receipts, outdated, typed, sent, landed>>
  BY DEF RoundReleases
<1>2. round.sub.key \in AnyKey /\ 0 < intake.rev /\ receipts[round.sub.key] = intake.rev /\ heldRow = NoRow
  BY <1>1 DEF IntakeInv, RoundKept
<1>3. heldRow' = heldRow BY <1>2 DEF RoundReleases
<1>4. KeysKept'
  <2>1. intake.rev \in 1..intake.rev BY <1>2 DEF IntakeInv, SessionShape
  <2> QED BY <1>1, <1>2, <2>1, ToldIsKept
<1> QED BY <1>1, <1>3, <1>4, RestSteps DEF IntakeInv

LEMMA RoundAbandonedKeeps == ASSUME IntakeInv, RoundAbandoned PROVE IntakeInv'
<1>1. round' = Rest /\ UNCHANGED <<intake, receipts, heldRow, typed, sent, landed, answered>> BY DEF RoundAbandoned
<1>2. KeysKept' BY <1>1 DEF IntakeInv, KeysKept
<1> QED BY <1>1, <1>2, RestSteps DEF IntakeInv

LEMMA ReplaceThreadKeeps == ASSUME IntakeInv, NEW k \in IntakeKey, ReplaceThread(k) PROVE IntakeInv'
<1> DEFINE s == Submission("replace", k, intake.rev, <<>>, FALSE)
<1>1. /\ round' = [at |-> "asking", sub |-> s] /\ intake.rev < MaxRevision /\ receipts[k] = 0 /\ intake.status \in Resumable
      /\ UNCHANGED <<intake, receipts, heldRow, outdated, typed, sent, landed, answered>>
  BY DEF ReplaceThread, Awaiting, MoreRevisions, Unused
<1>2. s.kind = "replace" /\ s.key = k /\ k \in AnyKey /\ s.base = intake.rev /\ s.replies = <<>>
  BY DEF Submission, AnyKey
<1> HIDE DEF s
<1>3. round'.at = "asking" /\ round'.sub = s /\ round' = [at |-> round'.at, sub |-> round'.sub] BY <1>1
<1>4. SessionShape' /\ AllIsAsked' /\ AskingEnds' /\ LimitsKept' /\ AnswersAreTyped' BY <1>1, <1>3, SameSession
<1>5. <<>> \in Asking(Reply) /\ DOMAIN <<>> = {} BY NothingAsked
<1>6. RoundKept' BY <1>1, <1>2, <1>3, <1>5 DEF RoundKept
<1>7. RowKept' BY <1>1, <1>2, <1>3 DEF IntakeInv, RowKept
<1>8. HeldWhileItFits'
  <2>1. heldRow.failed => heldRow.sub # s
    <3>1. heldRow # NoRow => heldRow.sub.kind # "replace" BY DEF IntakeInv, RowKept
    <3>2. NoRow.failed = FALSE BY DEF NoRow, Row
    <3> QED BY <1>2, <3>1, <3>2
  <2> QED BY <1>1, <1>3, <2>1 DEF IntakeInv, HeldWhileItFits
<1>9. KeysKept' BY <1>1 DEF IntakeInv, KeysKept
<1> QED BY <1>4, <1>6, <1>7, <1>8, <1>9 DEF IntakeInv

LEMMA StartIntakeKeeps == ASSUME IntakeInv, StartIntake PROVE IntakeInv'
<1> DEFINE s == Submission("start", CreatesIt, 0, <<>>, TRUE)  n == [intake EXCEPT !.status = "active"]
<1>1. /\ intake' = n /\ round' = [at |-> "asking", sub |-> s] /\ intake.rev = 0 /\ intake.rev < MaxRevision
      /\ UNCHANGED <<receipts, heldRow, outdated, typed, sent, landed, answered>>
  BY DEF StartIntake, Awaiting, MoreRevisions
<1>2. s.kind = "start" /\ s.key = CreatesIt /\ CreatesIt \in AnyKey /\ s.base = 0 /\ s.replies = <<>>
  BY DEF Submission, AnyKey
<1>3. Rec(n) /\ n.status = "active" /\ Like(n, intake, {"status"})
  <2>1. Rec(intake) BY DEF IntakeInv, SessionShape, Rec
  <2> QED BY <2>1, StartedIs
<1>4. /\ n.rev = intake.rev /\ n.log = intake.log /\ n.frontier = intake.frontier
      /\ n.pending = intake.pending /\ n.rounds = intake.rounds /\ n.rejections = intake.rejections
      /\ n.reason = intake.reason /\ n.byUser = intake.byUser
  BY <1>3 DEF Like, SessionField
<1> HIDE DEF s, n
<1>5. round'.at = "asking" /\ round'.sub = s /\ round' = [at |-> round'.at, sub |-> round'.sub] BY <1>1
<1>6. /\ intake.status \in {"absent", "active"} /\ intake.rounds = 0 /\ intake.rejections = 0
      /\ OpenIn(intake.log) = {} /\ DOMAIN intake.frontier = {} /\ DOMAIN intake.pending = {}
  BY <1>1 DEF IntakeInv, LimitsKept
<1>7. SessionShape' BY <1>1, <1>3, <1>4, <1>5 DEF IntakeInv, SessionShape, Rec
<1>8. AllIsAsked'
  <2>1. BlockingIn(intake.log) = {} BY <1>6 DEF BlockingIn
  <2> QED BY <1>1, <1>3, <1>4, <1>6, <2>1 DEF AllIsAsked
<1>9. MaxRounds \in Nat /\ MaxRejections \in Nat /\ 0 < MaxRounds /\ 0 < MaxRejections BY LimitAssumption
<1>10. AskingEnds' /\ LimitsKept' BY <1>1, <1>3, <1>4, <1>6, <1>9 DEF AskingEnds, LimitsKept
<1>11. AnswersAreTyped' BY <1>1, <1>4 DEF IntakeInv, AnswersAreTyped
<1>12. receipts[CreatesIt] = 0
  <2>1. receipts[CreatesIt] \in 0..MaxRevision /\ receipts[CreatesIt] <= intake.rev BY <1>2 DEF IntakeInv, KeysKept
  <2> QED BY <1>1, <2>1
<1>13. <<>> \in Asking(Reply) /\ DOMAIN <<>> = {} BY NothingAsked
<1>14. RoundKept' BY <1>1, <1>2, <1>3, <1>4, <1>5, <1>12, <1>13 DEF RoundKept
<1>15. RowKept' BY <1>1, <1>2, <1>4, <1>5 DEF IntakeInv, RowKept
<1>16. HeldWhileItFits'
  <2>1. heldRow.failed => heldRow.sub # s
    <3>1. heldRow # NoRow => heldRow.sub.kind # "start" BY DEF IntakeInv, RowKept
    <3>2. NoRow.failed = FALSE BY DEF NoRow, Row
    <3> QED BY <1>2, <3>1, <3>2
  <2> QED BY <1>1, <1>4, <1>5, <2>1 DEF IntakeInv, HeldWhileItFits
<1>17. KeysKept' BY <1>1, <1>4 DEF IntakeInv, KeysKept
<1> QED BY <1>7, <1>8, <1>10, <1>11, <1>14, <1>15, <1>16, <1>17 DEF IntakeInv

-----------------------------------------------------------------------------
(* Every step                                                              *)

LEMMA InitHolds == IntakeInit => IntakeInv
<1> SUFFICES ASSUME IntakeInit PROVE IntakeInv OBVIOUS
<1>1. <<>> \in Asking(Question) /\ DOMAIN <<>> = {} BY NothingAsked
<1>2. /\ intake = Unborn /\ receipts = [k \in AnyKey |-> 0] /\ heldRow = NoRow /\ round = Rest
      /\ typed = {} /\ sent = NoSubmission /\ landed = [k \in AnyKey |-> <<>>] /\ answered = [k \in AnyKey |-> {}]
  BY DEF IntakeInit
<1>3. /\ intake = [x \in SessionField |-> intake[x]] /\ intake.rev = 0 /\ intake.status = "absent"
      /\ intake.log = [d \in Decision |-> <<>>] /\ intake.frontier = <<>> /\ intake.pending = <<>>
      /\ intake.rounds = 0 /\ intake.rejections = 0 /\ intake.byUser = FALSE
  BY <1>2 DEF Unborn, SessionField
<1>4. round.at = "idle" /\ round = [at |-> round.at, sub |-> round.sub] BY <1>2 DEF Rest
<1>5. MaxRevision \in Nat /\ MaxRejections \in Nat /\ 0 < MaxRejections BY LimitAssumption
<1>6. intake.log \in Logs /\ Raised(intake.log) = {}
  <2>1. <<>> \in Seq(DecisionEntry) OBVIOUS
  <2> QED BY <1>3, <2>1 DEF Logs, Raised
<1>7. OpenIn(intake.log) = {} /\ BlockingIn(intake.log) = {} BY <1>6 DEF OpenIn, BlockingIn
<1>8. SessionShape
  <2>1. intake.rev \in 0..MaxRevision /\ intake.rounds \in Nat /\ intake.rejections \in Nat BY <1>3, <1>5
  <2>2. intake.frontier \in Asking(Question) /\ intake.pending \in Asking(Question) BY <1>1, <1>3
  <2>3. intake.byUser \in BOOLEAN BY <1>3
  <2>4. intake = [x \in SessionField |-> intake[x]] BY <1>3
  <2> QED BY <1>4, <1>6, <2>1, <2>2, <2>3, <2>4 DEF SessionShape
<1>9. AllIsAsked BY <1>1, <1>3, <1>7 DEF AllIsAsked
<1>10. AskingEnds /\ LimitsKept BY <1>1, <1>3, <1>5, <1>7 DEF AskingEnds, LimitsKept
<1>11. AnswersAreTyped BY <1>1, <1>3 DEF AnswersAreTyped
<1>12. RoundKept BY <1>4 DEF RoundKept
<1>13. NoRow = [sub |-> NoRow.sub, failed |-> NoRow.failed] /\ NoRow.sub = NoSubmission /\ NoSubmission.base = 0
  BY DEF NoRow, Row, NoSubmission, Submission
<1>14. RowKept BY <1>2, <1>3, <1>4, <1>13 DEF RowKept
<1>15. HeldWhileItFits BY <1>2, <1>4, <1>13 DEF HeldWhileItFits
<1>16. KeysKept
  <2>1. CreatesIt \in AnyKey /\ IntakeKey \subseteq AnyKey BY DEF AnyKey
  <2>2. \A k \in AnyKey : receipts[k] = 0 /\ landed[k] = <<>> /\ answered[k] = {} BY <1>2
  <2>3. receipts \in [AnyKey -> 0..MaxRevision] BY <1>2, <1>5
  <2> QED BY <1>2, <1>3, <2>1, <2>2, <2>3 DEF KeysKept
<1> QED BY <1>8, <1>9, <1>10, <1>11, <1>12, <1>14, <1>15, <1>16 DEF IntakeInv

LEMMA StepHolds == IntakeInv /\ [IntakeNext]_intakeVars => IntakeInv'
<1> SUFFICES ASSUME IntakeInv, [IntakeNext]_intakeVars PROVE IntakeInv' OBVIOUS
<1>1. CASE StartIntake BY <1>1, StartIntakeKeeps
<1>2. CASE RoundLands BY <1>2, RoundLandsKeeps
<1>3. CASE RoundFails BY <1>3, RoundFailsKeeps
<1>4. CASE RoundReleases BY <1>4, RoundReleasesKeeps
<1>5. CASE RoundAbandoned BY <1>5, RoundAbandonedKeeps
<1>6. ASSUME NEW k \in IntakeKey, AnswerAgain(k) PROVE IntakeInv' BY <1>6, AnswerAgainKeeps
<1>7. ASSUME NEW k \in IntakeKey, NEW replies \in Asking(Reply), NEW message \in BOOLEAN, SubmitRound(k, replies, message)
      PROVE  IntakeInv'
  <2> DEFINE s == Submission("round", k, intake.rev, replies, message)
  <2>1. s.kind = "round" /\ s.key = k /\ s.base = intake.rev /\ s.replies = replies BY DEF Submission
  <2> HIDE DEF s
  <2>2. /\ Take(s) /\ AtRest /\ MoreRevisions /\ Unused(k) /\ intake.status \in {"active", "candidate_ready"}
        /\ Blocks(intake.frontier) \subseteq DOMAIN replies
    BY <1>7 DEF SubmitRound, s
  <2> QED BY <1>7, <2>1, <2>2, TakeKeeps
<1>8. ASSUME NEW k \in IntakeKey, NEW replies \in Asking(Reply), Finalize(k, replies) PROVE IntakeInv'
  <2> DEFINE s == Submission("finalize", k, intake.rev, replies, FALSE)
  <2>1. s.kind = "finalize" /\ s.key = k /\ s.base = intake.rev /\ s.replies = replies BY DEF Submission
  <2> HIDE DEF s
  <2>2. /\ Take(s) /\ AtRest /\ MoreRevisions /\ Unused(k) /\ intake.status = "convergence_required"
        /\ DOMAIN intake.pending \subseteq DOMAIN replies
    BY <1>8 DEF Finalize, CanFinalize, s
  <2> QED BY <1>8, <2>1, <2>2, TakeKeeps
<1>9. ASSUME NEW k \in IntakeKey, ReplaceThread(k) PROVE IntakeInv' BY <1>9, ReplaceThreadKeeps
<1>10. ASSUME NEW k \in IntakeKey, Confirm(k) PROVE IntakeInv'
  <2>1. Conclude(k, "confirmed") /\ intake.status = "candidate_ready" BY <1>10 DEF Confirm
  <2> QED BY <2>1, ConcludeKeeps DEF Resumable
<1>11. ASSUME NEW k \in IntakeKey, CancelIntake(k) PROVE IntakeInv'
  <2>1. Conclude(k, "cancelled") /\ intake.status \in Resumable BY <1>11 DEF CancelIntake
  <2> QED BY <2>1, ConcludeKeeps
<1>12. CASE UNCHANGED intakeVars
  <2>1. UNCHANGED <<intake, receipts, heldRow, round, typed, sent, landed, answered>> BY <1>12 DEF intakeVars
  <2>2. SessionShape' /\ AllIsAsked' /\ AskingEnds' /\ LimitsKept' /\ AnswersAreTyped'
    BY <2>1, SameSession DEF IntakeInv, SessionShape
  <2>3. RoundKept' BY <2>1 DEF IntakeInv, RoundKept
  <2>4. RowKept' BY <2>1 DEF IntakeInv, RowKept
  <2>5. HeldWhileItFits' BY <2>1 DEF IntakeInv, HeldWhileItFits
  <2>6. KeysKept' BY <2>1 DEF IntakeInv, KeysKept
  <2> QED BY <2>2, <2>3, <2>4, <2>5, <2>6 DEF IntakeInv
<1>13. CASE CreateAgain BY <1>13, CreateAgainKeeps
<1> QED BY <1>1, <1>2, <1>3, <1>4, <1>5, <1>6, <1>7, <1>8, <1>9, <1>10, <1>11, <1>12, <1>13 DEF IntakeNext

-----------------------------------------------------------------------------
(* What was settled                                                        *)

\* Steps that change neither the log nor the defaults.
LEMMA SameLogSettles ==
  ASSUME IntakeInv, intake'.log = intake.log, intake'.defaults = intake.defaults
  PROVE  SettledStaysSettled
<1>1. \A d \in Decision : Len(intake.log[d]) \in Nat BY DEF IntakeInv, SessionShape, Logs
<1> QED BY <1>1 DEF SettledStaysSettled

LEMMA RoundSettles ==
  ASSUME IntakeInv, RoundLands, round.sub.kind # "replace"
  PROVE  SettledStaysSettled
<1> DEFINE replies == round.sub.replies  old == intake.log  log == WithReplies(old, replies)
<1>1. PICK p, n : Landed(p, n) BY RoundsLand
<1>2. old \in Logs /\ replies \in Asking(Reply) /\ DOMAIN replies \subseteq OpenIn(old)
  BY DEF IntakeInv, SessionShape, RoundKept, Fits, RoundLands
<1>3. /\ log \in Logs /\ \A d \in Decision : d \notin DOMAIN replies => log[d] = old[d]
      /\ \A d \in DOMAIN replies : log[d] = Append(old[d], Settled(NewestOf(old, d).question, replies[d]))
      /\ OpenIn(log) = OpenIn(old) \ DOMAIN replies
  BY <1>2, RepliesSettle
<1>4. /\ p.questions \in Asking(Question) /\ Outcome(n, p) /\ intake' = n /\ n.defaults = intake.defaults \cup p.defaults
      /\ n.log = Applied(p, log)
  BY <1>1 DEF Landed, Proposed, Committed, MergedDefaults
<1> DEFINE new == n.log
<1> HIDE DEF log
<1>5. /\ new \in Logs /\ \A d \in Decision : d \notin DOMAIN p.questions => new[d] = log[d]
      /\ \A d \in DOMAIN p.questions :
            /\ NewestOf(new, d).state = "open"
            /\ Len(new[d]) = IF d \in OpenIn(log) THEN Len(log[d]) ELSE Len(log[d]) + 1
      /\ OpenIn(new) = OpenIn(log) \cup DOMAIN p.questions
  BY <1>3, <1>4, QuestionsOpen
<1> HIDE DEF new
<1>6. ASSUME NEW d \in Decision PROVE Len(old[d]) <= Len(new[d])
  <2>1. /\ old[d] \in Seq(DecisionEntry) /\ log[d] \in Seq(DecisionEntry) /\ new[d] \in Seq(DecisionEntry)
    BY <1>2, <1>3, <1>5 DEF Logs
  <2>2. Len(old[d]) \in Nat /\ Len(log[d]) \in Nat /\ Len(new[d]) \in Nat BY <2>1
  <2>3. Len(log[d]) = Len(old[d]) \/ Len(log[d]) = Len(old[d]) + 1
    <3> DEFINE e == Settled(NewestOf(old, d).question, replies[d])
    <3> HIDE DEF e
    <3>1. Len(Append(old[d], e)) = Len(old[d]) + 1 BY <2>1
    <3> QED BY <1>3, <3>1 DEF e
  <2>4. Len(new[d]) = Len(log[d]) \/ Len(new[d]) = Len(log[d]) + 1 BY <1>5
  <2> QED BY <2>2, <2>3, <2>4
<1>7. ASSUME NEW d \in Raised(old) \ OpenIn(old), new[d] # old[d]
      PROVE  d \in OpenIn(new) /\ d \in DOMAIN n.frontier \cup DOMAIN n.pending
  <2>1. d \in Decision /\ d \notin DOMAIN replies BY <1>2 DEF Raised
  <2>2. d \in DOMAIN p.questions BY <1>3, <1>5, <1>7, <2>1
  <2>3. DOMAIN p.questions \subseteq DOMAIN n.frontier \cup DOMAIN n.pending BY <1>4 DEF Outcome
  <2> QED BY <1>5, <2>2, <2>3
<1>8. intake.defaults \subseteq n.defaults BY <1>4
<1>9. intake'.log = new /\ intake'.defaults = n.defaults /\ intake'.frontier = n.frontier /\ intake'.pending = n.pending
  BY <1>4 DEF new
<1> QED BY <1>6, <1>7, <1>8, <1>9 DEF SettledStaysSettled

LEMMA StepSettles == IntakeInv /\ [IntakeNext]_intakeVars => [SettledStaysSettled]_intakeVars
<1> SUFFICES ASSUME IntakeInv, IntakeNext PROVE SettledStaysSettled BY DEF intakeVars
<1>0. Rec(intake) BY DEF IntakeInv, SessionShape, Rec
<1>1. CASE RoundLands /\ round.sub.kind # "replace" BY <1>1, RoundSettles
<1>2. CASE RoundLands /\ round.sub.kind = "replace"
  <2> DEFINE n == [intake EXCEPT !.rev = @ + 1, !.generations = @ + 1]
  <2>1. intake' = n BY <1>2 DEF RoundLands, Committed
  <2>2. Like(n, intake, {"rev", "generations"}) BY <1>0, ReplacedIs
  <2> HIDE DEF n
  <2>3. n.log = intake.log /\ n.defaults = intake.defaults BY <2>2 DEF Like, SessionField
  <2> QED BY <2>1, <2>3, SameLogSettles
<1>3. CASE StartIntake
  <2> DEFINE n == [intake EXCEPT !.status = "active"]
  <2>1. intake' = n BY <1>3 DEF StartIntake
  <2>2. Like(n, intake, {"status"}) BY <1>0, StartedIs
  <2> HIDE DEF n
  <2>3. n.log = intake.log /\ n.defaults = intake.defaults BY <2>2 DEF Like, SessionField
  <2> QED BY <2>1, <2>3, SameLogSettles
<1>4. ASSUME NEW k \in IntakeKey, NEW status, Conclude(k, status) PROVE SettledStaysSettled
  <2> DEFINE n == [intake EXCEPT !.rev = @ + 1, !.status = status, !.frontier = <<>>,
                                 !.pending = IF status = "cancelled" THEN <<>> ELSE @]
  <2>1. intake' = n BY <1>4 DEF Conclude, Committed
  <2>2. Like(n, intake, {"rev", "status", "frontier", "pending"}) BY <1>0, ConcludedIs
  <2> HIDE DEF n
  <2>3. n.log = intake.log /\ n.defaults = intake.defaults BY <2>2 DEF Like, SessionField
  <2> QED BY <2>1, <2>3, SameLogSettles
<1>5. CASE UNCHANGED intake BY <1>5, SameLogSettles
<1>6. RoundFails \/ RoundReleases \/ RoundAbandoned => UNCHANGED intake BY DEF RoundFails, RoundReleases, RoundAbandoned
<1>7. /\ \A k \in IntakeKey : AnswerAgain(k) => UNCHANGED intake
      /\ CreateAgain => UNCHANGED intake
  BY DEF AnswerAgain, CreateAgain
<1>8. \A k \in IntakeKey : /\ \A replies, message : SubmitRound(k, replies, message) => UNCHANGED intake
                           /\ \A replies : Finalize(k, replies) => UNCHANGED intake
                           /\ ReplaceThread(k) => UNCHANGED intake
  BY DEF SubmitRound, Finalize, Take, ReplaceThread
<1>9. \A k \in IntakeKey : Confirm(k) \/ CancelIntake(k) => \E status : Conclude(k, status) BY DEF Confirm, CancelIntake
<1> QED BY <1>1, <1>2, <1>3, <1>4, <1>5, <1>6, <1>7, <1>8, <1>9 DEF IntakeNext

-----------------------------------------------------------------------------
(* The rest of the session's type                                          *)

IntakeStatus == Resumable \cup {"absent", "confirmed", "cancelled"}
Reasons == {"none", "rounds", "rejections"}

IntakeTypes ==
    /\ intake.status \in IntakeStatus /\ intake.defaults \subseteq Default /\ intake.reason \in Reasons
    /\ intake.generations \in Nat /\ intake.generations <= intake.rev /\ outdated \in BOOLEAN
    /\ heldRow # NoRow => heldRow.sub.key \in IntakeKey

\* Every step that does not give the session its revision.
LEMMA QuietKeepsTypes ==
  ASSUME IntakeInv, IntakeTypes, intake'.status \in {intake.status, "active"}, intake'.defaults = intake.defaults,
         intake'.reason = intake.reason, intake'.generations = intake.generations, intake'.rev = intake.rev,
         outdated' \in BOOLEAN, heldRow'.sub.key = heldRow.sub.key, heldRow' # NoRow => heldRow # NoRow
  PROVE  IntakeTypes'
BY DEF IntakeTypes, IntakeStatus, Resumable

\* A commit leaves no row.
LEMMA CommitKeepsTypes ==
  ASSUME IntakeInv, IntakeTypes, NEW n, n.rev = intake.rev + 1, NEW s, Committed(n, s),
         n.status \in IntakeStatus, n.defaults \subseteq Default, n.reason \in Reasons,
         n.generations \in {intake.generations, intake.generations + 1}, outdated' \in BOOLEAN
  PROVE  IntakeTypes'
<1>1. intake' = n /\ intake.rev \in Nat BY DEF Committed, IntakeInv, SessionShape
<1>2. n.generations \in Nat /\ n.generations <= n.rev BY <1>1 DEF IntakeTypes
<1>3. heldRow' = NoRow
  <2>1. heldRow.sub.base < n.rev
    <3>1. CASE heldRow = NoRow BY <1>1, <3>1 DEF NoRow, Row, NoSubmission, Submission
    <3>2. CASE heldRow # NoRow BY <1>1, <3>2 DEF IntakeInv, HeldWhileItFits
    <3> QED BY <3>1, <3>2
  <2> QED BY <2>1 DEF Committed
<1> QED BY <1>1, <1>2, <1>3 DEF IntakeTypes

LEMMA RoundKeepsTypes == ASSUME IntakeInv, IntakeTypes, RoundLands PROVE IntakeTypes'
<1>0. Rec(intake) /\ outdated' \in BOOLEAN BY DEF IntakeInv, SessionShape, Rec, RoundLands
<1>1. CASE round.sub.kind # "replace"
  <2>1. PICK p, n : Landed(p, n) BY <1>1, RoundsLand
  <2>2. n.status \in IntakeStatus BY <2>1 DEF Landed, Outcome, IntakeStatus, Resumable
  <2>3. n.defaults \subseteq Default BY <2>1 DEF Landed, Proposed, MergedDefaults, IntakeTypes
  <2>4. n.reason \in Reasons BY <2>1 DEF Landed, IntakeTypes, Reasons
  <2>5. n.generations \in {intake.generations, intake.generations + 1} BY <2>1 DEF Landed, Generations, IntakeTypes
  <2>6. n.rev = intake.rev + 1 /\ Committed(n, round.sub) BY <2>1 DEF Landed
  <2> QED BY <1>0, <2>2, <2>3, <2>4, <2>5, <2>6, CommitKeepsTypes
<1>2. CASE round.sub.kind = "replace"
  <2> DEFINE n == [intake EXCEPT !.rev = @ + 1, !.generations = @ + 1]
  <2>1. Committed(n, round.sub) BY <1>2 DEF RoundLands
  <2>2. n.rev = intake.rev + 1 /\ Like(n, intake, {"rev", "generations"}) BY <1>0, ReplacedIs
  <2>3. n.generations = intake.generations + 1 BY <1>0 DEF Rec, SessionField
  <2> HIDE DEF n
  <2>4. n.status = intake.status /\ n.defaults = intake.defaults /\ n.reason = intake.reason
    BY <2>2 DEF Like, SessionField
  <2> QED BY <1>0, <2>1, <2>2, <2>3, <2>4, CommitKeepsTypes DEF IntakeTypes
<1> QED BY <1>1, <1>2

LEMMA ConcludeKeepsTypes ==
  ASSUME IntakeInv, IntakeTypes, NEW k \in IntakeKey, NEW status \in {"confirmed", "cancelled"}, Conclude(k, status)
  PROVE  IntakeTypes'
<1> DEFINE n == [intake EXCEPT !.rev = @ + 1, !.status = status, !.frontier = <<>>,
                               !.pending = IF status = "cancelled" THEN <<>> ELSE @]
           s == Submission("conclude", k, intake.rev, <<>>, FALSE)
<1>1. Rec(intake) /\ outdated' \in BOOLEAN BY DEF IntakeInv, SessionShape, Rec, Conclude, IntakeTypes
<1>2. Committed(n, s) BY DEF Conclude
<1>3. n.rev = intake.rev + 1 /\ n.status = status /\ Like(n, intake, {"rev", "status", "frontier", "pending"})
  BY <1>1, ConcludedIs
<1> HIDE DEF n, s
<1>4. n.defaults = intake.defaults /\ n.reason = intake.reason /\ n.generations = intake.generations
  BY <1>3 DEF Like, SessionField
<1>5. n.status \in IntakeStatus BY <1>3 DEF IntakeStatus
<1> QED BY <1>1, <1>2, <1>3, <1>4, <1>5, CommitKeepsTypes DEF IntakeTypes

LEMMA TakeKeepsTypes ==
  ASSUME IntakeInv, IntakeTypes, NEW s, s.key \in IntakeKey, Take(s)
  PROVE  IntakeTypes'
<1>1. heldRow' = Row(s, FALSE) /\ UNCHANGED <<intake, outdated>> BY DEF Take, HeldNow
<1>2. heldRow'.sub = s BY <1>1 DEF Row
<1> QED BY <1>1, <1>2 DEF IntakeTypes

LEMMA FailureKeepsTypes ==
  ASSUME IntakeInv, IntakeTypes, RoundFails \/ RoundReleases \/ RoundAbandoned
  PROVE  IntakeTypes'
<1>0. UNCHANGED intake /\ (UNCHANGED outdated \/ outdated' \in {outdated, intake.generations > 0})
  BY DEF RoundFails, RoundReleases, RoundAbandoned
<1>1. UNCHANGED intake /\ outdated' \in BOOLEAN
  <2>1. (intake.generations > 0) \in BOOLEAN BY DEF IntakeTypes
  <2>2. outdated \in BOOLEAN BY DEF IntakeTypes
  <2> QED BY <1>0, <2>1, <2>2, Zenon
<1>2. \/ heldRow' = NoRow \/ heldRow' = heldRow
      \/ heldRow' = [heldRow EXCEPT !.failed = TRUE] /\ heldRow.sub.key = round.sub.key /\ round.at = "asking"
  BY DEF RoundFails, RoundReleases, RoundAbandoned
<1>3. CASE heldRow' = NoRow BY <1>1, <1>3 DEF IntakeTypes
<1>4. CASE heldRow' = heldRow BY <1>1, <1>4 DEF IntakeTypes
<1>5. CASE heldRow' = [heldRow EXCEPT !.failed = TRUE] /\ heldRow.sub.key = round.sub.key /\ round.at = "asking"
  <2>1. heldRow = [sub |-> heldRow.sub, failed |-> heldRow.failed] BY DEF IntakeInv, RowKept
  <2>2. heldRow'.sub = heldRow.sub BY <1>5, <2>1
  <2>3. round.sub.key # NoKey BY <1>5, LimitAssumption DEF IntakeInv, RoundKept
  <2>4. NoRow.sub.key = NoKey BY DEF NoRow, Row, NoSubmission, Submission
  <2>5. heldRow # NoRow BY <1>5, <2>3, <2>4
  <2> QED BY <1>1, <2>2, <2>5 DEF IntakeTypes
<1> QED BY <1>2, <1>3, <1>4, <1>5

LEMMA StepKeepsTypes == IntakeInv /\ IntakeTypes /\ [IntakeNext]_intakeVars => IntakeTypes'
<1> SUFFICES ASSUME IntakeInv, IntakeTypes, [IntakeNext]_intakeVars PROVE IntakeTypes' OBVIOUS
<1>1. CASE StartIntake
  <2> DEFINE n == [intake EXCEPT !.status = "active"]
  <2>1. intake' = n /\ UNCHANGED <<heldRow, outdated>> BY <1>1 DEF StartIntake
  <2>2. Rec(intake) BY DEF IntakeInv, SessionShape, Rec
  <2>3. n.status = "active" /\ Like(n, intake, {"status"}) BY <2>2, StartedIs
  <2> HIDE DEF n
  <2>4. /\ n.defaults = intake.defaults /\ n.reason = intake.reason /\ n.generations = intake.generations
        /\ n.rev = intake.rev
    BY <2>3 DEF Like, SessionField
  <2> QED BY <2>1, <2>3, <2>4 DEF IntakeTypes, IntakeStatus, Resumable
<1>2. CASE RoundLands BY <1>2, RoundKeepsTypes
<1>3. CASE RoundFails \/ RoundReleases \/ RoundAbandoned BY <1>3, FailureKeepsTypes
<1>4. CASE UNCHANGED <<intake, heldRow, outdated>> BY <1>4 DEF IntakeTypes
<1>5. /\ \A k \in IntakeKey : AnswerAgain(k) => UNCHANGED <<intake, heldRow, outdated>>
      /\ CreateAgain => UNCHANGED <<intake, heldRow, outdated>>
  BY DEF AnswerAgain, CreateAgain
<1>6. ASSUME NEW k \in IntakeKey, NEW replies, NEW message, SubmitRound(k, replies, message) PROVE IntakeTypes'
  <2> DEFINE s == Submission("round", k, intake.rev, replies, message)
  <2>1. s.key = k BY DEF Submission
  <2>2. Take(s) BY <1>6 DEF SubmitRound
  <2> HIDE DEF s
  <2> QED BY <2>1, <2>2, TakeKeepsTypes
<1>7. ASSUME NEW k \in IntakeKey, NEW replies, Finalize(k, replies) PROVE IntakeTypes'
  <2> DEFINE s == Submission("finalize", k, intake.rev, replies, FALSE)
  <2>1. s.key = k BY DEF Submission
  <2>2. Take(s) BY <1>7 DEF Finalize
  <2> HIDE DEF s
  <2> QED BY <2>1, <2>2, TakeKeepsTypes
<1>8. \A k \in IntakeKey : ReplaceThread(k) => UNCHANGED <<intake, heldRow, outdated>> BY DEF ReplaceThread
<1>9. ASSUME NEW k \in IntakeKey, Confirm(k) \/ CancelIntake(k) PROVE IntakeTypes'
  <2>1. PICK status \in {"confirmed", "cancelled"} : Conclude(k, status) BY <1>9 DEF Confirm, CancelIntake
  <2> QED BY <2>1, ConcludeKeepsTypes
<1>10. CASE UNCHANGED intakeVars BY <1>4, <1>10 DEF intakeVars
<1> QED BY <1>1, <1>2, <1>3, <1>4, <1>5, <1>6, <1>7, <1>8, <1>9, <1>10 DEF IntakeNext

LEMMA TypesHold == IntakeInv /\ IntakeTypes => IntakeTypeOK
<1> SUFFICES ASSUME IntakeInv, IntakeTypes PROVE IntakeTypeOK OBVIOUS
<1>1. intake \in Snapshot
  <2>1. intake = [x \in SessionField |-> intake[x]] BY DEF IntakeInv, SessionShape
  <2>2. /\ intake.rev \in 0..MaxRevision /\ intake.rounds \in Nat /\ intake.rejections \in Nat
        /\ intake.byUser \in BOOLEAN /\ intake.log \in [Decision -> Seq(DecisionEntry)]
        /\ intake.frontier \in Asking(Question) /\ intake.pending \in Asking(Question)
    BY DEF IntakeInv, SessionShape, Logs
  <2>3. /\ intake.status \in Resumable \cup {"absent", "confirmed", "cancelled"}
        /\ intake.defaults \in SUBSET Default /\ intake.reason \in {"none", "rounds", "rejections"}
        /\ intake.generations \in Nat
    BY DEF IntakeTypes, IntakeStatus, Reasons
  <2> QED BY <2>1, <2>2, <2>3 DEF Snapshot, SessionField
<1>2. receipts \in [AnyKey -> 0..MaxRevision] BY DEF IntakeInv, KeysKept
<1>3. round.at \in {"idle", "asking", "committed"} /\ (round.at = "asking" => round.sub.base = intake.rev)
  BY DEF IntakeInv, SessionShape, RoundKept
<1>4. heldRow # NoRow => heldRow.sub.kind \in {"round", "finalize"} /\ heldRow.sub.key \in IntakeKey
  BY DEF IntakeInv, RowKept, IntakeTypes
<1> QED BY <1>1, <1>2, <1>3, <1>4 DEF IntakeTypeOK, IntakeTypes

LEMMA InitTypes == IntakeInit => IntakeTypes
<1> SUFFICES ASSUME IntakeInit PROVE IntakeTypes OBVIOUS
<1>1. intake = Unborn /\ heldRow = NoRow /\ outdated = FALSE BY DEF IntakeInit
<1>2. /\ intake.status = "absent" /\ intake.defaults = {} /\ intake.reason = "none" /\ intake.generations = 0
      /\ intake.rev = 0
  BY <1>1 DEF Unborn
<1>3. intake.generations \in Nat /\ intake.generations <= intake.rev BY <1>2
<1>4. outdated \in BOOLEAN BY <1>1
<1>5. intake.status \in IntakeStatus /\ intake.reason \in Reasons BY <1>2 DEF IntakeStatus, Reasons
<1>6. intake.defaults \subseteq Default BY <1>2
<1> QED BY <1>1, <1>3, <1>4, <1>5, <1>6 DEF IntakeTypes

(* What a user is asked is all that is open, in its present words, within  *)
(* the limits; what the user sent is held for as long as it fits; an       *)
(* answer stands under the question it was given to, and is only set aside *)
(* by asking again.                                                        *)
THEOREM IntakeThm == IntakeSpec => IntakeSound
<1>1. IntakeInv => AllIsAsked /\ AskingEnds /\ HeldWhileItFits /\ AnswersAreTyped BY DEF IntakeInv
<1> QED BY <1>1, InitHolds, InitTypes, StepHolds, StepKeepsTypes, TypesHold, StepSettles, PTL
  DEF IntakeSpec, IntakeSound

-----------------------------------------------------------------------------
(* A key takes effect once                                                 *)

Told == <<[k \in IntakeKey |-> landed[k]], [k \in IntakeKey |-> answered[k]]>>

LEMMA CommitDoes ==
  ASSUME IntakeInv, NEW s, s.key \in AnyKey, receipts[s.key] = 0, s.base = intake.rev, UNCHANGED answered,
         landed' = [landed EXCEPT ![s.key] = Append(@, s.base)]
  PROVE  IntakeOnce!OnceNext \/ UNCHANGED Told
<1>1. landed[s.key] = <<>> /\ landed = [k \in AnyKey |-> landed[k]] BY DEF IntakeInv, KeysKept
<1>2. Append(<<>>, s.base) = <<s.base>> OBVIOUS
<1>3. landed'[s.key] = <<s.base>> /\ \A k \in AnyKey : k # s.key => landed'[k] = landed[k] BY <1>1, <1>2
<1>4. s.base \in 0..MaxRevision BY DEF IntakeInv, SessionShape
<1>5. \A k \in IntakeKey : k \in AnyKey BY DEF AnyKey
<1>6. CASE s.key \in IntakeKey
  <2>1. [k \in IntakeKey |-> landed'[k]] = [[k \in IntakeKey |-> landed[k]] EXCEPT ![s.key] = <<s.base>>]
    BY <1>3, <1>5, <1>6
  <2>2. IntakeOnce!Do(s.key, s.base) BY <1>1, <1>6, <2>1 DEF IntakeOnce!Do
  <2> QED BY <1>4, <1>6, <2>2 DEF IntakeOnce!OnceNext
<1>7. CASE s.key \notin IntakeKey
  <2>1. [k \in IntakeKey |-> landed'[k]] = [k \in IntakeKey |-> landed[k]] BY <1>3, <1>5, <1>7
  <2> QED BY <2>1 DEF Told
<1> QED BY <1>6, <1>7

LEMMA AnswerTells ==
  ASSUME IntakeInv, NEW k \in IntakeKey, NEW a, a = receipts[k], a # 0, UNCHANGED landed,
         answered' = [answered EXCEPT ![k] = @ \cup {a}]
  PROVE  IntakeOnce!OnceNext
<1>1. /\ landed[k] # <<>> /\ answered[k] \subseteq {a} /\ answered = [x \in AnyKey |-> answered[x]]
      /\ IntakeKey \subseteq AnyKey
  BY DEF IntakeInv, KeysKept, AnyKey
<1>2. answered[k] \cup {a} = {a} BY <1>1
<1>3. answered'[k] = {a} /\ \A x \in IntakeKey : x # k => answered'[x] = answered[x] BY <1>1, <1>2
<1>4. [x \in IntakeKey |-> answered'[x]] = [[x \in IntakeKey |-> answered[x]] EXCEPT ![k] = {a}]
  BY <1>3
<1>5. IntakeOnce!Tell(k, a) BY <1>1, <1>4 DEF IntakeOnce!Tell
<1>6. a \in [x \in IntakeKey |-> answered'[x]][k] BY <1>3
<1> QED BY <1>5, <1>6 DEF IntakeOnce!OnceNext

\* The answer to a create tells the keys of the commands nothing.
LEMMA CreateTells ==
  ASSUME IntakeInv, NEW a, UNCHANGED landed, answered' = [answered EXCEPT ![CreatesIt] = @ \cup {a}]
  PROVE  UNCHANGED Told
<1>1. answered = [x \in AnyKey |-> answered[x]] /\ IntakeKey \subseteq AnyKey /\ CreatesIt \notin IntakeKey
  BY LimitAssumption DEF IntakeInv, KeysKept, AnyKey
<1>2. \A x \in IntakeKey : answered'[x] = answered[x] BY <1>1
<1> QED BY <1>2 DEF Told

LEMMA StepIsOnce == IntakeInv /\ [IntakeNext]_intakeVars => [IntakeOnce!OnceNext]_Told
<1> SUFFICES ASSUME IntakeInv, IntakeNext PROVE IntakeOnce!OnceNext \/ UNCHANGED Told BY DEF intakeVars, Told
<1>1. CASE RoundLands
  <2>1. PICK n : Committed(n, round.sub)
    <3>1. CASE round.sub.kind # "replace" BY <1>1, <3>1, RoundsLand DEF Landed
    <3>2. CASE round.sub.kind = "replace" BY <1>1, <3>2 DEF RoundLands
    <3> QED BY <3>1, <3>2
  <2>2. /\ round.sub.key \in AnyKey /\ receipts[round.sub.key] = 0 /\ round.sub.base = intake.rev
        /\ UNCHANGED answered
    BY <1>1 DEF RoundLands, IntakeInv, RoundKept
  <2> QED BY <2>1, <2>2, CommitDoes DEF Committed
<1>2. ASSUME NEW k \in IntakeKey, NEW status, Conclude(k, status) PROVE IntakeOnce!OnceNext \/ UNCHANGED Told
  <2> DEFINE s == Submission("conclude", k, intake.rev, <<>>, FALSE)
  <2>1. PICK n : Committed(n, s) BY <1>2 DEF Conclude
  <2>2. s.key = k /\ k \in AnyKey /\ s.base = intake.rev BY DEF Submission, AnyKey
  <2>3. receipts[k] = 0 /\ UNCHANGED answered BY <1>2 DEF Conclude, Unused
  <2> HIDE DEF s
  <2> QED BY <2>1, <2>2, <2>3, CommitDoes DEF Committed
<1>3. CASE RoundReleases
  <2>1. /\ round.at = "committed" /\ answered' = [answered EXCEPT ![round.sub.key] = @ \cup {intake.rev}]
        /\ UNCHANGED landed
    BY <1>3 DEF RoundReleases
  <2>2. round.sub.key \in AnyKey /\ 0 < intake.rev /\ receipts[round.sub.key] = intake.rev
    BY <2>1 DEF IntakeInv, RoundKept
  <2>3. intake.rev # 0 BY <2>2 DEF IntakeInv, SessionShape
  <2>4. CASE round.sub.key \in IntakeKey BY <2>1, <2>2, <2>3, <2>4, AnswerTells
  <2>5. CASE round.sub.key = CreatesIt BY <2>1, <2>5, CreateTells
  <2> QED BY <2>2, <2>4, <2>5 DEF AnyKey
<1>4. ASSUME NEW k \in IntakeKey, AnswerAgain(k) PROVE IntakeOnce!OnceNext
  <2>1. receipts[k] # 0 /\ answered' = [answered EXCEPT ![k] = @ \cup {receipts[k]}] /\ UNCHANGED landed
    BY <1>4 DEF AnswerAgain, Unused
  <2> QED BY <2>1, AnswerTells
<1>5. RoundFails \/ RoundAbandoned \/ StartIntake => UNCHANGED Told BY DEF RoundFails, RoundAbandoned, StartIntake, Told
<1>6. \A k \in IntakeKey : /\ \A replies, message : SubmitRound(k, replies, message) => UNCHANGED Told
                           /\ \A replies : Finalize(k, replies) => UNCHANGED Told
                           /\ ReplaceThread(k) => UNCHANGED Told
  BY DEF SubmitRound, Finalize, Take, ReplaceThread, Told
<1>7. \A k \in IntakeKey : Confirm(k) \/ CancelIntake(k) => \E status : Conclude(k, status) BY DEF Confirm, CancelIntake
<1>8. CreateAgain => UNCHANGED Told BY CreateTells DEF CreateAgain
<1> QED BY <1>1, <1>2, <1>3, <1>4, <1>5, <1>6, <1>7, <1>8 DEF IntakeNext

\* What the callers of the create are told of, a revision of the session, only grows.
LEMMA StepTellsInOrder == IntakeInv /\ [IntakeNext]_intakeVars => [ToldInOrder]_intakeVars
<1> SUFFICES ASSUME IntakeInv, IntakeNext PROVE ToldInOrder OBVIOUS
<1>1. /\ answered = [x \in AnyKey |-> answered[x]] /\ answered[CreatesIt] \subseteq 1..intake.rev
      /\ intake.rev \in Nat /\ CreatesIt \in AnyKey
  BY DEF IntakeInv, KeysKept, SessionShape, AnyKey
<1>2. ASSUME answered'[CreatesIt] \subseteq answered[CreatesIt] \cup {intake.rev} PROVE ToldInOrder
  <2> SUFFICES ASSUME NEW b \in answered'[CreatesIt] \ answered[CreatesIt], NEW a \in answered[CreatesIt] PROVE a < b
    BY DEF ToldInOrder
  <2>1. b = intake.rev /\ a # b BY <1>2
  <2>2. a \in 1..intake.rev BY <1>1
  <2> QED BY <1>1, <2>1, <2>2
<1>3. CASE UNCHANGED answered BY <1>2, <1>3
<1>4. ASSUME NEW k \in AnyKey, NEW a, answered' = [answered EXCEPT ![k] = @ \cup {a}], k = CreatesIt => a = intake.rev
      PROVE  ToldInOrder
  <2>1. answered'[CreatesIt] \subseteq answered[CreatesIt] \cup {intake.rev}
    <3>1. CASE k = CreatesIt BY <1>1, <1>4, <3>1
    <3>2. CASE k # CreatesIt BY <1>1, <1>4, <3>2
    <3> QED BY <3>1, <3>2
  <2> QED BY <1>2, <2>1
<1>5. CASE CreateAgain BY <1>1, <1>4, <1>5 DEF CreateAgain
<1>6. CASE RoundReleases
  <2>1. round.sub.key \in AnyKey BY <1>6 DEF RoundReleases, IntakeInv, RoundKept
  <2> QED BY <1>4, <1>6, <2>1 DEF RoundReleases
<1>7. ASSUME NEW k \in IntakeKey, AnswerAgain(k) PROVE ToldInOrder
  <2>1. k \in AnyKey /\ k # CreatesIt BY LimitAssumption DEF AnyKey
  <2> QED BY <1>4, <1>7, <2>1 DEF AnswerAgain
<1>8. StartIntake \/ RoundLands \/ RoundFails \/ RoundAbandoned => UNCHANGED answered
  BY DEF StartIntake, RoundLands, RoundFails, RoundAbandoned
<1>9. \A k \in IntakeKey : /\ \A replies, message : SubmitRound(k, replies, message) => UNCHANGED answered
                           /\ \A replies : Finalize(k, replies) => UNCHANGED answered
                           /\ ReplaceThread(k) \/ Confirm(k) \/ CancelIntake(k) => UNCHANGED answered
  BY DEF SubmitRound, Finalize, Take, ReplaceThread, Confirm, CancelIntake, Conclude
<1> QED BY <1>3, <1>5, <1>6, <1>7, <1>8, <1>9 DEF IntakeNext

(* The key of a command takes effect once, at the revision it was sent at, *)
(* and every caller of it is told of the revision that made; the key of    *)
(* the create makes one first round, and its callers are told of no        *)
(* earlier session than one before them.                                   *)
THEOREM IntakeOnceThm == IntakeSpec => IntakeIsOnce
<1>1. IntakeInit => IntakeOnce!OnceInit
  <2> SUFFICES ASSUME IntakeInit PROVE IntakeOnce!OnceInit OBVIOUS
  <2>1. \A k \in IntakeKey : landed[k] = <<>> /\ answered[k] = {} BY DEF IntakeInit, AnyKey
  <2> QED BY <2>1 DEF IntakeOnce!OnceInit
<1>2. IntakeInv /\ [IntakeNext]_intakeVars =>
        [IntakeOnce!OnceNext]_<<[k \in IntakeKey |-> landed[k]], [k \in IntakeKey |-> answered[k]]>>
  BY StepIsOnce DEF Told
<1>3. IntakeInv => CreatedOnce
  <2> SUFFICES ASSUME IntakeInv PROVE CreatedOnce OBVIOUS
  <2>1. landed[CreatesIt] = <<>> \/ Len(landed[CreatesIt]) = 1 BY DEF IntakeInv, KeysKept, AnyKey
  <2>2. PICK n : n = Len(landed[CreatesIt]) OBVIOUS
  <2>3. n = 0 \/ n = 1
    <3>1. Len(<<>>) = 0 OBVIOUS
    <3>2. CASE landed[CreatesIt] = <<>> BY <2>2, <3>1, <3>2, Zenon
    <3> QED BY <2>1, <2>2, <3>2
  <2>4. n <= 1 BY <2>3
  <2> QED BY <2>2, <2>4 DEF CreatedOnce
<1> QED BY <1>1, <1>2, <1>3, InitHolds, StepHolds, StepTellsInOrder, PTL DEF IntakeSpec, IntakeIsOnce, IntakeOnce!OnceSpec

-----------------------------------------------------------------------------
(* The page.  Of each press the requests are taken in the order they were  *)
(* sent, so that the one its command waits for is the last of them under   *)
(* way, and none is under way once it is answered: a refused key has not   *)
(* landed and never will.  What one press has under way is no matter of    *)
(* another's, however many the page lets out at once.                      *)

Replies == [Decisions -> 0..MaxMoves]
Pressed == {"round", "finalize", "correction", "confirm", "cancel"}
Sent == [press : Nat, try : 1..2, copy : 1..2, kind : Pressed, base : 0..MaxMoves, replies : Replies]
Busy == [at : {"wait", "ok", "refused", "reload", "reloaded"}, kind : Pressed, try : 1..2, copy : 1..2,
         replies : Replies, from : PageViews, since : 0..MaxMoves, got : PageViews]
Awaits == [at : {"rest", "asked", "answered"}, since : 0..MaxMoves, got : PageViews]
Sheets == [Decisions -> [question : 0..MaxMoves, typed : 0..MaxMoves]]

\* Answers that were typed for what v asks.
For(replies, v) == \A d \in Decisions : replies[d] \in {0, v.asks[d]}

\* v was the session s once, as far as its questions go.
Was(v, s) ==
    /\ v \in PageViews /\ For(v.held, v)
    /\ v.rev <= s.rev /\ (v.rev = s.rev => v.asks = s.asks)
IsSession(s) == Was(s, s) /\ 1 <= s.rev

\* The session stays as it is, but for the answers it holds, or goes on by one revision.
GoesOn(s, t) == IsSession(t) /\ (t.rev = s.rev + 1 \/ (t.rev = s.rev /\ t.asks = s.asks))

\* What is typed belongs to a question of the sheet.
Consistent(x) == x \in Sheets /\ \A d \in Decisions : x[d].typed \in {0, x[d].question}

SheetIs(v, x, s) ==
    /\ Was(v, s) /\ (v = NoView \/ 1 <= v.rev)
    /\ Consistent(x) /\ \A d \in Decisions : x[d].question = v.asks[d]

\* A request fits the session it is for, and its key has one try of its press only.
Sound(m, s, d) ==
    /\ m.base <= s.rev /\ (m.base = s.rev => For(m.replies, s))
    /\ <<m.press, 3 - m.try>> \notin DOMAIN d

ReceiptsAre(d, effects, s, n) ==
    /\ \A k \in DOMAIN d : k \in (1..n) \X (1..2) /\ Was(d[k], s) /\ <<k[1], 3 - k[2]>> \notin DOMAIN d
    /\ \A l \in effects : KeyOf(l.request) \in DOMAIN d /\ For(l.request.replies, [asks |-> l.asked])
    /\ \A l, k \in effects : KeyOf(l.request) = KeyOf(k.request) => l = k

\* How far the command a of press p has come, with the requests q of it under way.
StageIs(p, a, q, s, d) ==
    /\ a.at = "wait" => /\ q # <<>> /\ q[Len(q)] = RequestOf(p, a)
                        /\ \A i \in 1..(Len(q) - 1) : q[i] # RequestOf(p, a)
    /\ a.at # "wait" => q = <<>>
    /\ a.at = "ok" => Was(a.got, s) /\ a.from.rev < a.got.rev
    /\ a.at \in {"refused", "reload", "reloaded"} => <<p, a.try>> \notin DOMAIN d
    /\ a.at \in {"reload", "reloaded"} => a.try = 1
    /\ a.at = "reload" => a.since <= s.rev
    /\ a.at = "reloaded" => Was(a.got, s) /\ 1 <= a.got.rev /\ a.since <= a.got.rev
    /\ a.at \in {"wait", "ok", "refused"} => a.since = a.from.rev

\* The command is of a session that was shown, and its key lands in a later one.
CommandIs(p, a, s, d) ==
    /\ a \in Busy /\ Was(a.from, s) /\ 1 <= a.from.rev /\ For(a.replies, a.from)
    /\ <<p, 3 - a.try>> \notin DOMAIN d /\ (<<p, a.try>> \in DOMAIN d => a.from.rev < d[<<p, a.try>>].rev)

Doing(p, a, q, s, d) ==
    /\ CommandIs(p, a, s, d)
    /\ \A i \in 1..Len(q) : q[i].try = a.try /\ q[i].base = a.from.rev /\ q[i].copy <= a.copy
    /\ StageIs(p, a, q, s, d)

WireIs(p, q, s, d) ==
    /\ q \in Seq(Sent) /\ \A i \in 1..Len(q) : q[i].press = p /\ Sound(q[i], s, d)
    /\ \A i, j \in 1..Len(q) : q[i].try = q[j].try

PressIs(p, a, q, s, d) == WireIs(p, q, s, d) /\ (a = NoAct \/ Doing(p, a, q, s, d))

PressesAre(as, qs, s, d, n) ==
    /\ n \in 0..MaxPresses /\ as \in [Presses -> Busy \cup {NoAct}] /\ qs \in [Presses -> Seq(Sent)]
    /\ \A p \in Presses : PressIs(p, as[p], qs[p], s, d) /\ (as[p] # NoAct \/ qs[p] # <<>> => p <= n)

LoadIs(l, s) ==
    /\ l \in Awaits
    /\ l.at = "asked" => l.since <= s.rev
    /\ l.at = "answered" => Was(l.got, s) /\ 1 <= l.got.rev /\ l.since <= l.got.rev

PageInv ==
    /\ IsSession(srv) /\ SheetIs(view, sheet, srv) /\ ReceiptsAre(done, landedFor, srv, presses)
    /\ PressesAre(acts, inbox, srv, done, presses) /\ LoadIs(load, srv)
    /\ ticked \in 0..MaxMoves /\ editing \in BOOLEAN /\ busy \in BOOLEAN

LEMMA RevisionIs ==
  ASSUME NEW v \in PageViews
  PROVE  v.rev \in 0..MaxMoves /\ v.rev \in Nat /\ v.asks \in Replies /\ v.held \in Replies
BY PageAssumption DEF PageViews, Replies

LEMMA NothingIs ==
  /\ Blank \in Replies /\ \A d \in Decisions : Blank[d] = 0
  /\ NoView \in PageViews /\ NoView.rev = 0 /\ NoView.asks = Blank /\ NoView.held = Blank
  /\ NoAct \notin Busy /\ NoAct.at = "rest" /\ NoLoad \in Awaits /\ NoLoad.at = "rest" /\ Consistent(NoSheet)
<1>1. 0 \in 0..MaxMoves
  BY PageAssumption
<1>2. Blank \in Replies /\ \A d \in Decisions : Blank[d] = 0
  BY <1>1 DEF Blank, Replies
<1>3. NoView \in PageViews /\ NoView.rev = 0 /\ NoView.asks = Blank /\ NoView.held = Blank
  BY <1>1, <1>2 DEF NoView, PageViews, Statuses, Replies
<1>4. NoAct \notin Busy /\ NoAct.at = "rest"
  BY DEF NoAct, Busy
<1>5. NoLoad \in Awaits /\ NoLoad.at = "rest"
  BY <1>1, <1>3 DEF NoLoad, Awaits
<1>6. Consistent(NoSheet)
  BY <1>1 DEF Consistent, NoSheet, Sheets
<1> QED
  BY <1>2, <1>3, <1>4, <1>5, <1>6

LEMMA SessionRests ==
  ASSUME NEW s, IsSession(s)
  PROVE  GoesOn(s, s)
BY DEF GoesOn

LEMMA StillWas ==
  ASSUME NEW s, NEW t, IsSession(s), GoesOn(s, t), NEW v, Was(v, s)
  PROVE  Was(v, t)
<1>1. s.rev \in Nat /\ v.rev \in Nat /\ t.rev \in Nat
  BY RevisionIs DEF IsSession, GoesOn, Was
<1>2. v.rev <= t.rev /\ (v.rev = t.rev => v.asks = t.asks)
  BY <1>1 DEF Was, GoesOn
<1> QED
  BY <1>2 DEF Was

LEMMA NoViewWas ==
  ASSUME NEW s, IsSession(s)
  PROVE  Was(NoView, s)
<1>1. For(Blank, NoView) /\ s.rev \in Nat /\ 1 <= s.rev
  BY NothingIs, RevisionIs DEF For, IsSession, Was
<1> QED
  BY <1>1, NothingIs DEF Was

LEMMA SheetStays ==
  ASSUME NEW s, NEW t, IsSession(s), GoesOn(s, t), NEW v, NEW x, SheetIs(v, x, s)
  PROVE  SheetIs(v, x, t)
BY StillWas DEF SheetIs

LEMMA LoadStays ==
  ASSUME NEW s, NEW t, IsSession(s), GoesOn(s, t), NEW l, LoadIs(l, s)
  PROVE  LoadIs(l, t)
<1>1. s.rev \in Nat /\ t.rev \in Nat /\ s.rev <= t.rev
  BY RevisionIs DEF IsSession, GoesOn, Was
<1>2. l.since \in Nat
  BY PageAssumption DEF LoadIs, Awaits
<1>3. l.at = "asked" => l.since <= t.rev
  BY <1>1, <1>2 DEF LoadIs
<1>4. l.at = "answered" => Was(l.got, t)
  BY StillWas DEF LoadIs
<1> QED
  BY <1>3, <1>4 DEF LoadIs

LEMMA ReceiptsStay ==
  ASSUME NEW s, NEW t, IsSession(s), GoesOn(s, t), NEW n \in Nat, NEW o \in Nat, n <= o,
         NEW d, NEW effects, ReceiptsAre(d, effects, s, n)
  PROVE  ReceiptsAre(d, effects, t, o)
<1>1. 1..n \subseteq 1..o
  OBVIOUS
<1>2. \A k \in DOMAIN d : Was(d[k], t)
  BY StillWas DEF ReceiptsAre
<1> QED
  BY <1>1, <1>2 DEF ReceiptsAre

\* The keys of press p are what they were.
KeysStay(p, d, e) ==
    \A n \in 1..2 : /\ <<p, n>> \in DOMAIN e <=> <<p, n>> \in DOMAIN d
                    /\ <<p, n>> \in DOMAIN d => e[<<p, n>>] = d[<<p, n>>]

LEMMA StillWire ==
  ASSUME NEW s, NEW t, IsSession(s), GoesOn(s, t), NEW p, NEW q, NEW d, NEW e, WireIs(p, q, s, d),
         \A i \in 1..Len(q) : <<p, 3 - q[i].try>> \notin DOMAIN e
  PROVE  WireIs(p, q, t, e)
<1>1. s.rev \in Nat /\ t.rev \in Nat
  BY RevisionIs DEF IsSession, GoesOn, Was
<1>2. ASSUME NEW i \in 1..Len(q) PROVE Sound(q[i], t, e)
  <2>1. PICK m \in Sent : m = q[i]
    BY ElementOfSeq DEF WireIs
  <2>2. Sound(m, s, d) /\ m.press = p /\ m.base \in Nat
    BY <2>1, PageAssumption DEF WireIs, Sent
  <2>3. m.base <= t.rev /\ (m.base = t.rev => m.base = s.rev /\ t.asks = s.asks)
    BY <1>1, <2>2 DEF Sound, GoesOn
  <2>4. m.base = t.rev => For(m.replies, t)
    BY <2>2, <2>3 DEF Sound, For
  <2>5. <<m.press, 3 - m.try>> \notin DOMAIN e
    BY <2>1, <2>2
  <2> QED
    BY <2>1, <2>3, <2>4, <2>5 DEF Sound
<1> QED
  BY <1>2 DEF WireIs

LEMMA StillPress ==
  ASSUME NEW s, NEW t, IsSession(s), GoesOn(s, t), NEW p, NEW a, NEW q, NEW d, NEW e, PressIs(p, a, q, s, d),
         KeysStay(p, d, e)
  PROVE  PressIs(p, a, q, t, e)
<1>1. s.rev \in Nat /\ t.rev \in Nat /\ s.rev <= t.rev
  BY RevisionIs DEF IsSession, GoesOn, Was
<1>2. WireIs(p, q, t, e)
  <2>1. ASSUME NEW i \in 1..Len(q) PROVE <<p, 3 - q[i].try>> \notin DOMAIN e
    <3>1. PICK m \in Sent : m = q[i]
      BY ElementOfSeq DEF PressIs, WireIs
    <3>2. 3 - m.try \in 1..2
      BY DEF Sent
    <3>3. <<p, 3 - m.try>> \notin DOMAIN d
      BY <3>1 DEF PressIs, WireIs, Sound
    <3> QED
      BY <3>1, <3>2, <3>3 DEF KeysStay
  <2> QED
    BY <2>1, StillWire DEF PressIs
<1>3. ASSUME Doing(p, a, q, s, d) PROVE Doing(p, a, q, t, e)
  <2>1. a \in Busy /\ a.try \in 1..2 /\ 3 - a.try \in 1..2 /\ a.since \in Nat
    BY <1>3, PageAssumption DEF Doing, CommandIs, Busy
  <2>2. CommandIs(p, a, t, e)
    BY <1>3, <2>1, StillWas DEF Doing, CommandIs, KeysStay
  <2>3. (a.at = "ok" \/ a.at = "reloaded") => Was(a.got, t)
    BY <1>3, StillWas DEF Doing, StageIs
  <2>4. a.at = "reload" => a.since <= t.rev
    BY <1>1, <1>3, <2>1 DEF Doing, StageIs
  <2>5. StageIs(p, a, q, t, e)
    BY <1>3, <2>1, <2>3, <2>4 DEF Doing, StageIs, KeysStay
  <2> QED
    BY <1>3, <2>2, <2>5 DEF Doing
<1> QED
  BY <1>2, <1>3 DEF PressIs

\* One press goes on, the others stay as they are.
LEMMA OnePressGoesOn ==
  ASSUME NEW s, NEW t, IsSession(s), GoesOn(s, t), NEW as, NEW qs, NEW d, NEW e, NEW n, NEW o \in 0..MaxPresses,
         PressesAre(as, qs, s, d, n), n <= o,
         NEW p \in Presses, p <= o, NEW a \in Busy \cup {NoAct}, NEW q, PressIs(p, a, q, t, e),
         \A r \in Presses \ {p} : KeysStay(r, d, e)
  PROVE  PressesAre([as EXCEPT ![p] = a], [qs EXCEPT ![p] = q], t, e, o)
<1>1. n \in Nat /\ o \in Nat /\ Presses \subseteq Nat
  BY PageAssumption DEF PressesAre, Presses
<1>2. PICK bs, rs : bs = [as EXCEPT ![p] = a] /\ rs = [qs EXCEPT ![p] = q]
  OBVIOUS
<1>3. q \in Seq(Sent)
  BY DEF PressIs, WireIs
<1>4. /\ bs \in [Presses -> Busy \cup {NoAct}] /\ rs \in [Presses -> Seq(Sent)] /\ bs[p] = a /\ rs[p] = q
      /\ \A r \in Presses \ {p} : bs[r] = as[r] /\ rs[r] = qs[r]
  BY <1>2, <1>3 DEF PressesAre
<1>5. ASSUME NEW r \in Presses PROVE PressIs(r, bs[r], rs[r], t, e) /\ (bs[r] # NoAct \/ rs[r] # <<>> => r <= o)
  <2>1. CASE r = p
    BY <1>4, <2>1
  <2>2. CASE r # p
    <3>1. PressIs(r, as[r], qs[r], s, d) /\ (as[r] # NoAct \/ qs[r] # <<>> => r <= n)
      BY DEF PressesAre
    <3>2. KeysStay(r, d, e)
      BY <2>2
    <3>3. PressIs(r, as[r], qs[r], t, e)
      BY <3>1, <3>2, StillPress
    <3>4. bs[r] = as[r] /\ rs[r] = qs[r]
      BY <1>4, <2>2
    <3>5. r <= n => r <= o
      BY <1>1
    <3> QED
      BY <3>1, <3>3, <3>4, <3>5, Zenon
  <2> QED
    BY <2>1, <2>2
<1>6. PressesAre(bs, rs, t, e, o)
  BY <1>4, <1>5 DEF PressesAre
<1> QED
  BY <1>2, <1>6

LEMMA PressesStay ==
  ASSUME NEW s, NEW t, IsSession(s), GoesOn(s, t), NEW as, NEW qs, NEW d, NEW n, PressesAre(as, qs, s, d, n)
  PROVE  PressesAre(as, qs, t, d, n)
<1>1. \A p : KeysStay(p, d, d)
  BY DEF KeysStay
<1>2. \A p \in Presses : PressIs(p, as[p], qs[p], s, d)
  BY DEF PressesAre
<1>3. \A p \in Presses : PressIs(p, as[p], qs[p], t, d)
  BY <1>1, <1>2, StillPress
<1> QED
  BY <1>3 DEF PressesAre

-----------------------------------------------------------------------------
LEMMA RoundsAre ==
  ASSUME NEW s \in PageViews, s.rev < MaxMoves, NEW t, t \in Rounds(s) \/ \E status \in Statuses : t = Ended(s, status)
  PROVE  t \in PageViews /\ t.rev = s.rev + 1 /\ For(t.held, t)
<1>1. s.rev \in Nat /\ s.rev + 1 \in 0..MaxMoves
  BY RevisionIs, PageAssumption
<1>2. Blank \in Replies /\ \A d \in Decisions : Blank[d] = 0
  BY NothingIs
<1>3. CASE t \in Rounds(s)
  <2>1. t \in Outcomes(s)
    BY <1>3 DEF Rounds
  <2>2. t.rev = s.rev + 1 /\ t.asks \in [Decisions -> {0, s.rev + 1}] /\ t.held = Blank /\ t.status \in Statuses
    BY <2>1 DEF Outcomes, Statuses
  <2>3. t.asks \in [Decisions -> 0..MaxMoves] /\ t.held \in [Decisions -> 0..MaxMoves] /\ t.rev \in 0..MaxMoves
    BY <1>1, <1>2, <2>2 DEF Replies
  <2>4. t = [rev |-> t.rev, status |-> t.status, asks |-> t.asks, held |-> t.held]
    BY <2>1 DEF Outcomes
  <2>5. t \in PageViews
    BY <2>2, <2>3, <2>4 DEF PageViews
  <2> QED
    BY <1>2, <2>2, <2>5 DEF For
<1>4. ASSUME NEW status \in Statuses, t = Ended(s, status) PROVE t \in PageViews /\ t.rev = s.rev + 1 /\ For(t.held, t)
  BY <1>1, <1>2, <1>4 DEF Ended, PageViews, Replies, For
<1> QED
  BY <1>3, <1>4

LEMMA EffectsAre ==
  ASSUME NEW s \in PageViews, s.rev < MaxMoves, NEW m, NEW t \in Effects(m, s)
  PROVE  t \in PageViews /\ t.rev = s.rev + 1 /\ For(t.held, t)
<1>1. t \in Rounds(s) \/ \E status \in Statuses : t = Ended(s, status)
  BY DEF Effects, Statuses
<1> QED
  BY <1>1, RoundsAre

\* A view that is one revision on, or the same but for its answers, is where the session goes.
LEMMA GoesOnTo ==
  ASSUME NEW s, IsSession(s), NEW t \in PageViews, For(t.held, t),
         t.rev = s.rev + 1 \/ (t.rev = s.rev /\ t.asks = s.asks)
  PROVE  GoesOn(s, t)
<1>1. s.rev \in Nat /\ t.rev \in Nat /\ 1 <= s.rev
  BY RevisionIs DEF IsSession, Was
<1> QED
  BY <1>1 DEF GoesOn, IsSession, Was

LEMMA AnotherMovesKeeps ==
  ASSUME PageInv, AnotherMoves
  PROVE  PageInv'
<1>1. srv \in PageViews /\ srv.rev \in Nat /\ srv.rev < MaxMoves /\ srv.rev + 1 \in 0..MaxMoves /\ IsSession(srv)
  BY RevisionIs, PageAssumption DEF AnotherMoves, PageInv, IsSession, Was
<1>2. srv' \in PageViews /\ srv'.rev = srv.rev + 1 /\ For(srv'.held, srv')
  <2>1. CASE srv' = [srv EXCEPT !.rev = @ + 1, !.held = Blank]
    <3>1. srv'.rev = srv.rev + 1 /\ srv'.status = srv.status /\ srv'.asks = srv.asks /\ srv'.held = Blank
      BY <1>1, <2>1 DEF PageViews
    <3>2. Blank \in [Decisions -> 0..MaxMoves] /\ \A d \in Decisions : Blank[d] = 0
      BY NothingIs DEF Replies
    <3>3. srv' \in PageViews
      BY <1>1, <2>1, <3>2 DEF PageViews
    <3> QED
      BY <3>1, <3>2, <3>3 DEF For
  <2>2. CASE srv' \in Rounds(srv) \/ srv' = Ended(srv, "confirmed")
    BY <1>1, <2>2, RoundsAre DEF Statuses
  <2> QED
    BY <2>1, <2>2 DEF AnotherMoves
<1>3. GoesOn(srv, srv')
  BY <1>1, <1>2, GoesOnTo
<1>4. UNCHANGED <<done, inbox, view, sheet, ticked, editing, busy, acts, load, presses, landedFor>>
  BY DEF AnotherMoves, shownVars
<1>5. IsSession(srv') /\ SheetIs(view, sheet, srv') /\ LoadIs(load, srv') /\ PressesAre(acts, inbox, srv', done, presses)
  BY <1>1, <1>3, SheetStays, LoadStays, PressesStay DEF PageInv, GoesOn
<1>6. ReceiptsAre(done, landedFor, srv', presses)
  <2>1. presses \in Nat /\ presses <= presses
    BY DEF PageInv, PressesAre
  <2> QED
    BY <1>1, <1>3, <2>1, ReceiptsStay DEF PageInv
<1> QED
  BY <1>4, <1>5, <1>6 DEF PageInv

-----------------------------------------------------------------------------
\* The next request to be taken; the one awaited is the last.
LEMMA NextRequest ==
  ASSUME NEW p, NEW q, NEW s, NEW d, WireIs(p, q, s, d), q # <<>>
  PROVE  /\ Head(q) = q[1] /\ q[1] \in Sent /\ Sound(q[1], s, d) /\ q[1].press = p
         /\ Tail(q) \in Seq(Sent) /\ Len(q) \in Nat \ {0} /\ Len(Tail(q)) = Len(q) - 1 /\ 1 \in 1..Len(q)
         /\ \A i \in 1..Len(Tail(q)) : i + 1 \in 1..Len(q) /\ Tail(q)[i] = q[i + 1]
<1>1. q \in Seq(Sent) /\ \A i \in 1..Len(q) : q[i].press = p /\ Sound(q[i], s, d)
  BY DEF WireIs
<1>2. Len(q) \in Nat \ {0}
  BY <1>1, EmptySeq
<1>3. Tail(q) \in Seq(Sent) /\ Len(Tail(q)) = Len(q) - 1 /\ \A i \in 1..Len(Tail(q)) : Tail(q)[i] = q[i + 1]
  BY <1>1, HeadTailProperties
<1>4. Head(q) = q[1] /\ q[1] \in Sent
  BY <1>1, <1>2, ElementOfSeq
<1> QED
  BY <1>1, <1>2, <1>3, <1>4

LEMMA TailIsWire ==
  ASSUME NEW p, NEW q, NEW s, NEW d, WireIs(p, q, s, d), q # <<>>
  PROVE  WireIs(p, Tail(q), s, d)
BY NextRequest DEF WireIs

\* p's command a waits for m.
Waits(p, a, m) == a.at = "wait" /\ m = RequestOf(p, a)

LEMMA AwaitedIsLast ==
  ASSUME NEW p, NEW a, NEW q, NEW s, NEW d, PressIs(p, a, q, s, d), q # <<>>, a # NoAct
  PROVE  /\ Doing(p, a, q, s, d) /\ a.at = "wait"
         /\ Waits(p, a, q[1]) => Tail(q) = <<>>
         /\ ~Waits(p, a, q[1]) => /\ Tail(q) # <<>> /\ Tail(q)[Len(Tail(q))] = RequestOf(p, a)
                                  /\ \A i \in 1..(Len(Tail(q)) - 1) : Tail(q)[i] # RequestOf(p, a)
<1>1. Doing(p, a, q, s, d) /\ a.at = "wait"
  BY DEF PressIs, Doing, StageIs
<1>2. q[Len(q)] = RequestOf(p, a) /\ \A i \in 1..(Len(q) - 1) : q[i] # RequestOf(p, a)
  BY <1>1 DEF Doing, StageIs
<1>3. Len(q) \in Nat \ {0} /\ Tail(q) \in Seq(Sent) /\ Len(Tail(q)) = Len(q) - 1
      /\ \A i \in 1..Len(Tail(q)) : i + 1 \in 1..Len(q) /\ Tail(q)[i] = q[i + 1]
  BY NextRequest DEF PressIs
<1>4. Waits(p, a, q[1]) <=> Len(q) = 1
  BY <1>1, <1>2, <1>3 DEF Waits
<1>5. Len(q) = 1 => Tail(q) = <<>>
  BY <1>3, EmptySeq
<1>6. ASSUME Len(q) # 1 PROVE Tail(q) # <<>> /\ Len(Tail(q)) \in 1..Len(Tail(q))
  <2>1. Len(Tail(q)) \in Nat /\ Len(Tail(q)) >= 1
    BY <1>3, <1>6
  <2>2. Len(<<>>) = 0
    OBVIOUS
  <2> QED
    BY <2>1, <2>2
<1> QED
  BY <1>1, <1>2, <1>3, <1>4, <1>5, <1>6

\* A request is taken out and answered with result and v, which only the command awaiting it hears.
LEMMA Taken ==
  ASSUME NEW p, NEW a \in Busy \cup {NoAct}, NEW q, NEW s, NEW d, PressIs(p, a, q, s, d), q # <<>>,
         NEW result \in {"ok", "refused"}, NEW v \in PageViews,
         Waits(p, a, q[1]) /\ result = "ok" => Was(v, s) /\ a.from.rev < v.rev,
         Waits(p, a, q[1]) /\ result = "refused" => <<p, a.try>> \notin DOMAIN d
  PROVE  LET b == IF Waits(p, a, q[1]) THEN [a EXCEPT !.at = result, !.got = v] ELSE a
         IN  b \in Busy \cup {NoAct} /\ PressIs(p, b, Tail(q), s, d) /\ (b # NoAct => a # NoAct)
<1>1. WireIs(p, Tail(q), s, d)
  BY TailIsWire DEF PressIs
<1>2. CASE a = NoAct
  <2>1. ~Waits(p, a, q[1])
    BY <1>2, NothingIs DEF Waits
  <2> QED
    BY <1>1, <1>2, <2>1 DEF PressIs
<1>3. CASE a # NoAct
  <2>1. Doing(p, a, q, s, d) /\ a.at = "wait" /\ a \in Busy /\ CommandIs(p, a, s, d)
    BY <1>3, AwaitedIsLast DEF Doing, CommandIs
  <2>2. CASE Waits(p, a, q[1])
    <3>1. PICK b : b = [a EXCEPT !.at = result, !.got = v]
      OBVIOUS
    <3>2. /\ b \in Busy /\ b.at = result /\ b.got = v /\ b.kind = a.kind /\ b.try = a.try /\ b.copy = a.copy
          /\ b.replies = a.replies /\ b.from = a.from /\ b.since = a.since
      BY <2>1, <3>1 DEF Busy
    <3>3. Tail(q) = <<>> /\ Len(<<>>) = 0
      BY <1>3, <2>2, AwaitedIsLast, EmptySeq
    <3>4. CommandIs(p, b, s, d)
      BY <2>1, <3>2 DEF CommandIs
    <3>5. a.since = a.from.rev
      BY <2>1 DEF Doing, StageIs
    <3>6. StageIs(p, b, <<>>, s, d)
      BY <2>2, <3>2, <3>5 DEF StageIs
    <3>7. StageIs(p, b, Tail(q), s, d) /\ Len(Tail(q)) = 0
      BY <3>3, <3>6
    <3>8. \A i \in 1..Len(Tail(q)) : FALSE
      BY <3>7
    <3>9. Doing(p, b, Tail(q), s, d)
      BY <3>4, <3>7, <3>8 DEF Doing
    <3> QED
      BY <1>1, <1>3, <2>2, <3>1, <3>2, <3>9 DEF PressIs
  <2>3. CASE ~Waits(p, a, q[1])
    <3>1. /\ Tail(q) # <<>> /\ Tail(q)[Len(Tail(q))] = RequestOf(p, a)
          /\ \A i \in 1..(Len(Tail(q)) - 1) : Tail(q)[i] # RequestOf(p, a)
      BY <1>3, <2>3, AwaitedIsLast
    <3>2. StageIs(p, a, Tail(q), s, d)
      BY <2>1, <3>1 DEF Doing, StageIs
    <3>3. \A i \in 1..Len(Tail(q)) : i + 1 \in 1..Len(q) /\ Tail(q)[i] = q[i + 1]
      BY NextRequest DEF PressIs
    <3>4. Doing(p, a, Tail(q), s, d)
      BY <2>1, <3>2, <3>3 DEF Doing
    <3> QED
      BY <1>1, <1>3, <2>3, <3>4 DEF PressIs
  <2> QED
    BY <2>2, <2>3
<1> QED
  BY <1>2, <1>3

\* The request that is taken takes effect.
LEMMA LandedPress ==
  ASSUME NEW p, NEW a \in Busy \cup {NoAct}, NEW q, NEW s, NEW t, NEW d, NEW e, IsSession(s), GoesOn(s, t),
         t.rev = s.rev + 1, PressIs(p, a, q, s, d), q # <<>>, q[1].base = s.rev, KeyOf(q[1]) \notin DOMAIN d,
         DOMAIN e = DOMAIN d \cup {KeyOf(q[1])}, e[KeyOf(q[1])] = t
  PROVE  PressIs(p, a, q, t, e) /\ (a # NoAct => a.from.rev < t.rev)
<1>1. /\ q[1] \in Sent /\ q[1].press = p /\ KeyOf(q[1]) = <<p, q[1].try>> /\ q[1].try \in 1..2
      /\ <<p, 3 - q[1].try>> \notin DOMAIN d /\ 1 \in 1..Len(q)
  BY NextRequest DEF PressIs, KeyOf, Sent, Sound
<1>2. s.rev \in Nat /\ t.rev \in Nat
  BY RevisionIs DEF IsSession, GoesOn, Was
<1>3. \A n \in 1..2 : 3 - n # n
  OBVIOUS
<1>4. <<p, 3 - q[1].try>> \notin DOMAIN e
  BY <1>1, <1>3
<1>5. WireIs(p, q, t, e)
  <2>1. \A i \in 1..Len(q) : q[i].try = q[1].try
    BY <1>1 DEF PressIs, WireIs
  <2> QED
    BY <1>4, <2>1, StillWire DEF PressIs
<1>6. CASE a # NoAct
  <2>0. Doing(p, a, q, s, d)
    BY <1>6 DEF PressIs
  <2>1. /\ Doing(p, a, q, s, d) /\ a \in Busy /\ a.try = q[1].try /\ a.from.rev = s.rev
        /\ CommandIs(p, a, s, d) /\ StageIs(p, a, q, s, d) /\ a.at = "wait"
    BY <1>1, <2>0 DEF Doing, CommandIs, StageIs
  <2>2. CommandIs(p, a, t, e)
    <3>1. Was(a.from, t)
      BY <2>1, StillWas DEF CommandIs
    <3>2. <<p, 3 - a.try>> \notin DOMAIN e /\ e[<<p, a.try>>] = t /\ a.from.rev < t.rev
      BY <1>1, <1>2, <1>4, <2>1
    <3> QED
      BY <2>1, <3>1, <3>2 DEF CommandIs
  <2>3. StageIs(p, a, q, t, e)
    BY <2>1 DEF StageIs
  <2>4. Doing(p, a, q, t, e)
    BY <2>1, <2>2, <2>3 DEF Doing
  <2> QED
    BY <1>2, <1>5, <2>1, <2>4 DEF PressIs
<1> QED
  BY <1>5, <1>6 DEF PressIs

\* A request of press p is answered.
LEMMA PressAnswered ==
  ASSUME PageInv, NEW p \in Presses, inbox[p] # <<>>, inbox' = [inbox EXCEPT ![p] = Tail(@)],
         NEW t, NEW e, GoesOn(srv, t), \A r \in Presses \ {p} : KeysStay(r, done, e),
         PressIs(p, acts[p], inbox[p], t, e),
         NEW result \in {"ok", "refused"}, NEW v \in PageViews, Answer(p, inbox[p][1], result, v),
         Waits(p, acts[p], inbox[p][1]) /\ result = "ok" => Was(v, t) /\ acts[p].from.rev < v.rev,
         Waits(p, acts[p], inbox[p][1]) /\ result = "refused" => <<p, acts[p].try>> \notin DOMAIN e
  PROVE  PressesAre(acts', inbox', t, e, presses)
<1>1. PICK a, q : a = acts[p] /\ q = inbox[p]
  OBVIOUS
<1>2. PICK b : b = IF Waits(p, a, q[1]) THEN [a EXCEPT !.at = result, !.got = v] ELSE a
  OBVIOUS
<1>3. PressesAre(acts, inbox, srv, done, presses) /\ IsSession(srv)
  BY DEF PageInv
<1>4. presses \in 0..MaxPresses /\ presses \in Nat /\ a \in Busy \cup {NoAct} /\ p <= presses
  BY <1>1, <1>3 DEF PressesAre
<1>5. PressIs(p, a, q, t, e) /\ q # <<>>
  BY <1>1
<1>6. /\ Waits(p, a, q[1]) /\ result = "ok" => Was(v, t) /\ a.from.rev < v.rev
      /\ Waits(p, a, q[1]) /\ result = "refused" => <<p, a.try>> \notin DOMAIN e
  BY <1>1
<1>7. b \in Busy \cup {NoAct} /\ PressIs(p, b, Tail(q), t, e)
  BY <1>2, <1>4, <1>5, <1>6, Taken
<1>8. acts' = [acts EXCEPT ![p] = b] /\ inbox' = [inbox EXCEPT ![p] = Tail(q)]
  BY <1>1, <1>2 DEF Answer, Awaited, Waits, ActIs
<1>9. presses <= presses
  BY <1>4
<1>10. PressesAre([acts EXCEPT ![p] = b], [inbox EXCEPT ![p] = Tail(q)], t, e, presses)
  BY <1>3, <1>4, <1>7, <1>9, OnePressGoesOn
<1> QED
  BY <1>8, <1>10

\* A request that has taken effect is answered again; one that has not is refused.
LEMMA AnsweredOrRefused ==
  ASSUME PageInv, NEW p \in Presses, inbox[p] # <<>>, inbox' = [inbox EXCEPT ![p] = Tail(@)], GoesOn(srv, srv'),
         UNCHANGED <<done, landedFor, view, sheet, ticked, editing, busy, load, presses>>, NEW m, m = inbox[p][1],
         \/ KeyOf(m) \in DOMAIN done /\ Answer(p, m, "ok", done[KeyOf(m)])
         \/ KeyOf(m) \notin DOMAIN done /\ Answer(p, m, "refused", NoView)
  PROVE  PageInv'
<1>1. IsSession(srv) /\ presses \in Nat /\ presses <= presses
  BY DEF PageInv, PressesAre
<1>2. /\ IsSession(srv') /\ SheetIs(view, sheet, srv') /\ LoadIs(load, srv')
      /\ ReceiptsAre(done, landedFor, srv', presses)
  BY <1>1, SheetStays, LoadStays, ReceiptsStay DEF PageInv, GoesOn
<1>3. \A r : KeysStay(r, done, done)
  BY DEF KeysStay
<1>4. PressIs(p, acts[p], inbox[p], srv, done) /\ acts[p] \in Busy \cup {NoAct}
  BY DEF PageInv, PressesAre
<1>5. PressIs(p, acts[p], inbox[p], srv', done)
  BY <1>1, <1>3, <1>4, StillPress
<1>6. Waits(p, acts[p], m) =>
         KeyOf(m) = <<p, acts[p].try>> /\ (KeyOf(m) \in DOMAIN done => acts[p].from.rev < done[KeyOf(m)].rev)
  <2>1. Waits(p, acts[p], m) => KeyOf(m) = <<p, acts[p].try>> /\ acts[p] # NoAct
    BY NothingIs DEF Waits, RequestOf, KeyOf
  <2>2. acts[p] # NoAct => CommandIs(p, acts[p], srv, done)
    BY <1>4 DEF PressIs, Doing
  <2> QED
    BY <2>1, <2>2 DEF CommandIs
<1>7. PressesAre(acts', inbox', srv', done, presses)
  <2>1. CASE KeyOf(m) \in DOMAIN done /\ Answer(p, m, "ok", done[KeyOf(m)])
    <3>1. PICK v : v = done[KeyOf(m)]
      OBVIOUS
    <3>2. Was(v, srv') /\ v \in PageViews
      BY <1>2, <2>1, <3>1 DEF ReceiptsAre, Was
    <3>3. Waits(p, acts[p], inbox[p][1]) => acts[p].from.rev < v.rev
      BY <1>6, <2>1, <3>1
    <3>4. Answer(p, inbox[p][1], "ok", v)
      BY <2>1, <3>1
    <3> QED
      BY <1>3, <1>5, <3>2, <3>3, <3>4, PressAnswered
  <2>2. CASE KeyOf(m) \notin DOMAIN done /\ Answer(p, m, "refused", NoView)
    <3>1. Waits(p, acts[p], inbox[p][1]) => <<p, acts[p].try>> \notin DOMAIN done
      BY <1>6, <2>2
    <3>2. Answer(p, inbox[p][1], "refused", NoView) /\ NoView \in PageViews
      BY <2>2, NothingIs
    <3> QED
      BY <1>3, <1>5, <3>1, <3>2, PressAnswered
  <2> QED
    BY <2>1, <2>2
<1> QED
  BY <1>2, <1>7 DEF PageInv

\* A request takes effect.
LEMMA RequestLands ==
  ASSUME PageInv, NEW p \in Presses, inbox[p] # <<>>, inbox' = [inbox EXCEPT ![p] = Tail(@)],
         NEW m, m = inbox[p][1], NEW next, srv' = next,
         KeyOf(m) \notin DOMAIN done, m.base = srv.rev, srv.rev < MaxMoves, next \in Effects(m, srv),
         done' = [k \in DOMAIN done \cup {KeyOf(m)} |-> IF k = KeyOf(m) THEN next ELSE done[k]],
         landedFor' = landedFor \cup {[request |-> m, asked |-> srv.asks]}, Answer(p, m, "ok", next),
         UNCHANGED <<view, sheet, ticked, editing, busy, load, presses>>
  PROVE  PageInv'
<1>1. IsSession(srv) /\ srv \in PageViews /\ presses \in Nat /\ presses <= presses
  BY DEF PageInv, PressesAre, IsSession, Was
<1>2. next \in PageViews /\ next.rev = srv.rev + 1 /\ For(next.held, next)
  BY <1>1, EffectsAre
<1>3. GoesOn(srv, next)
  BY <1>1, <1>2, GoesOnTo
<1>4. Was(next, next)
  BY <1>3 DEF GoesOn, IsSession
<1>5. /\ PressIs(p, acts[p], inbox[p], srv, done) /\ acts[p] \in Busy \cup {NoAct} /\ p <= presses /\ p \in Nat
      /\ p \in 1..presses
  BY <1>1, PageAssumption DEF PageInv, PressesAre, Presses
<1>6. /\ m \in Sent /\ m.press = p /\ m.try \in 1..2 /\ KeyOf(m) = <<p, m.try>> /\ Sound(m, srv, done)
      /\ <<p, 3 - m.try>> \notin DOMAIN done
  <2>1. m \in Sent /\ m.press = p /\ Sound(m, srv, done)
    BY <1>5, NextRequest DEF PressIs
  <2> QED
    BY <2>1 DEF KeyOf, Sent, Sound
<1>7. /\ DOMAIN done' = DOMAIN done \cup {KeyOf(m)} /\ done'[KeyOf(m)] = next
      /\ \A k \in DOMAIN done : k # KeyOf(m) /\ done'[k] = done[k]
  OBVIOUS
<1>8. IsSession(srv') /\ SheetIs(view, sheet, srv') /\ LoadIs(load, srv')
  BY <1>1, <1>3, SheetStays, LoadStays DEF PageInv, GoesOn
<1>9. PressesAre(acts', inbox', next, done', presses)
  <2>1. PICK e : e = done'
    OBVIOUS
  <2>2. ASSUME NEW r \in Presses \ {p} PROVE KeysStay(r, done, e)
    <3>1. ASSUME NEW n \in 1..2 PROVE <<r, n>> # KeyOf(m)
      BY <1>6
    <3> QED
      BY <1>7, <2>1, <3>1 DEF KeysStay
  <2>3. PressIs(p, acts[p], inbox[p], next, e) /\ (acts[p] # NoAct => acts[p].from.rev < next.rev)
    <3>1. DOMAIN e = DOMAIN done \cup {KeyOf(inbox[p][1])} /\ e[KeyOf(inbox[p][1])] = next
      BY <1>7, <2>1
    <3>2. inbox[p][1].base = srv.rev /\ KeyOf(inbox[p][1]) \notin DOMAIN done /\ next.rev = srv.rev + 1
      BY <1>2
    <3> QED
      BY <1>1, <1>3, <1>5, <3>1, <3>2, LandedPress
  <2>4. Waits(p, acts[p], inbox[p][1]) => Was(next, next) /\ acts[p].from.rev < next.rev
    BY <1>4, <2>3, NothingIs DEF Waits
  <2>5. PressesAre(acts', inbox', next, e, presses)
    BY <1>2, <1>3, <2>2, <2>3, <2>4, PressAnswered
  <2> QED
    BY <2>1, <2>5
<1>10. ReceiptsAre(done', landedFor', next, presses)
  <2>1. ReceiptsAre(done, landedFor, next, presses)
    BY <1>1, <1>3, ReceiptsStay DEF PageInv
  <2>2. ASSUME NEW k \in DOMAIN done'
        PROVE  k \in (1..presses) \X (1..2) /\ <<k[1], 3 - k[2]>> \notin DOMAIN done' /\ Was(done'[k], next)
    <3>1. CASE k = KeyOf(m)
      <4>1. k[1] = p /\ k[2] = m.try /\ k \in (1..presses) \X (1..2) /\ done'[k] = next
        BY <1>5, <1>6, <1>7, <3>1
      <4>2. <<p, 3 - m.try>> # KeyOf(m)
        BY <1>6
      <4> QED
        BY <1>4, <1>6, <1>7, <4>1, <4>2
    <3>2. CASE k \in DOMAIN done
      <4>1. k \in (1..presses) \X (1..2) /\ <<k[1], 3 - k[2]>> \notin DOMAIN done /\ Was(done[k], next)
        BY <2>1, <3>2 DEF ReceiptsAre
      <4>2. PICK r, n : r \in 1..presses /\ n \in 1..2 /\ k = <<r, n>> /\ k[1] = r /\ k[2] = n
        <5>1. k = <<k[1], k[2]>> /\ k[1] \in 1..presses /\ k[2] \in 1..2
          BY <4>1
        <5> QED
          BY <5>1
      <4>3. <<r, 3 - n>> # KeyOf(m)
        BY <1>6, <3>2, <4>2
      <4> QED
        BY <1>7, <3>2, <4>1, <4>2, <4>3
    <3> QED
      BY <1>7, <3>1, <3>2
  <2>3. ASSUME NEW l \in landedFor' PROVE KeyOf(l.request) \in DOMAIN done' /\ For(l.request.replies, [asks |-> l.asked])
    <3>1. CASE l \in landedFor
      BY <1>7, <2>1, <3>1 DEF ReceiptsAre
    <3>2. CASE l = [request |-> m, asked |-> srv.asks]
      <4>1. l.request = m /\ l.asked = srv.asks
        BY <3>2
      <4> QED
        BY <1>6, <1>7, <4>1 DEF Sound, For
    <3> QED
      BY <3>1, <3>2
  <2>4. ASSUME NEW l \in landedFor', NEW k \in landedFor', KeyOf(l.request) = KeyOf(k.request) PROVE l = k
    <3>1. \A x \in landedFor : KeyOf(x.request) \in DOMAIN done
      BY <2>1 DEF ReceiptsAre
    <3>2. \A x \in landedFor' : x \in landedFor \/ (x = [request |-> m, asked |-> srv.asks] /\ x.request = m)
      OBVIOUS
    <3> QED
      BY <2>1, <2>4, <3>1, <3>2 DEF ReceiptsAre
  <2> QED
    BY <2>2, <2>3, <2>4 DEF ReceiptsAre
<1> QED
  BY <1>8, <1>9, <1>10 DEF PageInv

LEMMA ServerAnswersKeeps ==
  ASSUME PageInv, NEW p \in Presses, ServerAnswers(p)
  PROVE  PageInv'
<1>1. PICK m : m = inbox[p][1]
  OBVIOUS
<1>2. PressIs(p, acts[p], inbox[p], srv, done) /\ inbox[p] # <<>> /\ IsSession(srv) /\ srv \in PageViews
  BY DEF PageInv, PressesAre, ServerAnswers, IsSession, Was
<1>3. Head(inbox[p]) = m /\ m \in Sent /\ Sound(m, srv, done)
  BY <1>1, <1>2, NextRequest DEF PressIs
<1>4. /\ inbox' = [inbox EXCEPT ![p] = Tail(@)]
      /\ UNCHANGED <<view, sheet, ticked, editing, busy, load, presses>>
  BY DEF ServerAnswers, shownVars
<1>5. CASE /\ UNCHANGED serverVars
           /\ \/ KeyOf(m) \in DOMAIN done /\ Answer(p, m, "ok", done[KeyOf(m)])
              \/ KeyOf(m) \notin DOMAIN done /\ Answer(p, m, "refused", NoView)
  <2>1. GoesOn(srv, srv') /\ UNCHANGED <<done, landedFor>>
    BY <1>2, <1>5, SessionRests DEF serverVars
  <2> QED
    BY <1>1, <1>2, <1>4, <1>5, <2>1, AnsweredOrRefused
<1>6. CASE /\ KeyOf(m) \notin DOMAIN done /\ m.base = srv.rev /\ srv.rev < MaxMoves
           /\ \E next \in Effects(m, srv) :
                 /\ srv' = next
                 /\ done' = [k \in DOMAIN done \cup {KeyOf(m)} |-> IF k = KeyOf(m) THEN next ELSE done[k]]
                 /\ landedFor' = landedFor \cup {[request |-> m, asked |-> srv.asks]}
                 /\ Answer(p, m, "ok", next)
  <2>1. PICK next \in Effects(m, srv) :
                 /\ srv' = next
                 /\ done' = [k \in DOMAIN done \cup {KeyOf(m)} |-> IF k = KeyOf(m) THEN next ELSE done[k]]
                 /\ landedFor' = landedFor \cup {[request |-> m, asked |-> srv.asks]}
                 /\ Answer(p, m, "ok", next)
    BY <1>6
  <2> QED
    BY <1>1, <1>2, <1>4, <1>6, <2>1, RequestLands
<1>7. CASE /\ KeyOf(m) \notin DOMAIN done /\ m.base = srv.rev
           /\ srv' = [srv EXCEPT !.held = m.replies] /\ Answer(p, m, "refused", NoView) /\ UNCHANGED <<done, landedFor>>
  <2>1. m.replies \in [Decisions -> 0..MaxMoves] /\ For(m.replies, srv)
    BY <1>3, <1>7 DEF Sent, Replies, Sound
  <2>2. srv' \in PageViews /\ srv'.rev = srv.rev /\ srv'.asks = srv.asks /\ srv'.held = m.replies
    BY <1>2, <1>7, <2>1 DEF PageViews
  <2>3. For(srv'.held, srv')
    BY <2>1, <2>2 DEF For
  <2>4. GoesOn(srv, srv')
    BY <1>2, <2>2, <2>3, GoesOnTo
  <2> QED
    BY <1>1, <1>2, <1>4, <1>7, <2>4, AnsweredOrRefused
<1> QED
  BY <1>3, <1>5, <1>6, <1>7 DEF ServerAnswers

-----------------------------------------------------------------------------
LEMMA ShowsKeeps ==
  ASSUME NEW s, IsSession(s), NEW v, Was(v, s), 1 <= v.rev, NEW x, Consistent(x), Shows(v, x)
  PROVE  SheetIs(view', sheet', s) /\ ticked' \in 0..MaxMoves /\ view' = v
<1>1. v.rev \in 0..MaxMoves /\ v.asks \in Replies /\ v.held \in Replies /\ For(v.held, v)
  BY RevisionIs DEF Was
<1>2. view' = v /\ sheet' = Reseeded(v, x) /\ ticked' \in 0..MaxMoves
  BY <1>1, PageAssumption DEF Shows
<1>3. ASSUME NEW d \in Decisions
      PROVE  /\ sheet'[d] \in [question : 0..MaxMoves, typed : 0..MaxMoves]
             /\ sheet'[d].question = v.asks[d] /\ sheet'[d].typed \in {0, v.asks[d]}
  <2>1. v.asks[d] \in 0..MaxMoves /\ v.held[d] \in 0..MaxMoves /\ v.held[d] \in {0, v.asks[d]} /\ 0 \in 0..MaxMoves
    BY <1>1, PageAssumption DEF Replies, For
  <2>2. x[d] \in [question : 0..MaxMoves, typed : 0..MaxMoves] /\ x[d].typed \in {0, x[d].question}
    BY DEF Consistent, Sheets
  <2>3. sheet'[d] = IF v.asks[d] = 0 THEN [question |-> 0, typed |-> 0]
                    ELSE IF x[d].question = v.asks[d] THEN x[d]
                    ELSE [question |-> v.asks[d], typed |-> v.held[d]]
    BY <1>2 DEF Reseeded
  <2> QED
    BY <2>1, <2>2, <2>3
<1>4. sheet' \in Sheets
  <2>1. sheet' = [d \in Decisions |-> sheet'[d]]
    BY <1>2 DEF Reseeded
  <2> QED
    BY <1>3, <2>1 DEF Sheets
<1> QED
  BY <1>2, <1>3, <1>4 DEF SheetIs, Consistent

\* Nothing is shown.
LEMMA NothingShown ==
  ASSUME NEW s, IsSession(s)
  PROVE  SheetIs(NoView, NoSheet, s)
<1>1. \A d \in Decisions : NoSheet[d].question = NoView.asks[d]
  BY NothingIs DEF NoSheet
<1> QED
  BY <1>1, NoViewWas, NothingIs DEF SheetIs

\* A step of the page, which leaves the session and what landed alone.
LEMMA PageSteps ==
  ASSUME PageInv, UNCHANGED <<serverVars, presses>>, SheetIs(view', sheet', srv), LoadIs(load', srv),
         PressesAre(acts', inbox', srv, done, presses),
         ticked' \in 0..MaxMoves, editing' \in BOOLEAN, busy' \in BOOLEAN
  PROVE  PageInv'
BY DEF PageInv, serverVars

LEMMA LoadKeeps ==
  ASSUME PageInv, LoadBegins \/ LoadAnswered \/ LoadFails
  PROVE  PageInv'
<1>1. UNCHANGED <<serverVars, inbox, shownVars, acts, presses>> /\ busy' \in BOOLEAN
  BY DEF PageInv, LoadBegins, LoadAnswered, LoadFails
<1>2. load \in Awaits /\ SheetIs(view, sheet, srv) /\ IsSession(srv) /\ Was(srv, srv) /\ srv \in PageViews
  BY DEF PageInv, LoadIs, IsSession, Was
<1>3. CASE LoadBegins
  <2>1. load' = [at |-> "asked", since |-> view.rev, got |-> NoView]
    BY <1>3 DEF LoadBegins
  <2>2. view.rev \in 0..MaxMoves /\ view.rev <= srv.rev /\ NoView \in PageViews
    BY <1>2, RevisionIs, NothingIs DEF SheetIs, Was
  <2>3. LoadIs(load', srv)
    BY <2>1, <2>2 DEF LoadIs, Awaits
  <2> QED
    BY <1>1, <2>3, PageSteps DEF PageInv, shownVars
<1>4. CASE LoadAnswered
  <2>1. load' = [load EXCEPT !.at = "answered", !.got = srv] /\ load.at = "asked"
    BY <1>4 DEF LoadAnswered
  <2>2. load' \in Awaits /\ load'.at = "answered" /\ load'.got = srv /\ load'.since = load.since
    BY <1>2, <2>1 DEF Awaits
  <2>3. load.since <= srv.rev /\ 1 <= srv.rev
    BY <1>2, <2>1 DEF PageInv, LoadIs, IsSession
  <2>4. LoadIs(load', srv)
    BY <1>2, <2>2, <2>3 DEF LoadIs
  <2> QED
    BY <1>1, <2>4, PageSteps DEF PageInv, shownVars
<1>5. CASE LoadFails
  <2>1. LoadIs(load', srv)
    BY <1>5, NothingIs DEF LoadFails, LoadIs
  <2> QED
    BY <1>1, <2>1, PageSteps DEF PageInv, shownVars
<1> QED
  BY <1>3, <1>4, <1>5

LEMMA LoadShowsKeeps ==
  ASSUME PageInv, LoadShows
  PROVE  PageInv' /\ load' # load /\ view' = load.got /\ load.since <= view'.rev
<1>1. /\ load.at = "answered" /\ Shows(load.got, sheet) /\ load' = NoLoad /\ busy' = FALSE
      /\ UNCHANGED <<serverVars, inbox, editing, acts, presses>>
  BY DEF LoadShows
<1>2. Was(load.got, srv) /\ 1 <= load.got.rev /\ load.since <= load.got.rev /\ Consistent(sheet) /\ IsSession(srv)
  BY <1>1 DEF PageInv, LoadIs, SheetIs
<1>3. SheetIs(view', sheet', srv) /\ ticked' \in 0..MaxMoves /\ view' = load.got
  BY <1>1, <1>2, ShowsKeeps
<1>4. LoadIs(load', srv) /\ load' # load
  BY <1>1, NothingIs DEF LoadIs
<1>5. PageInv'
  BY <1>1, <1>3, <1>4, PageSteps DEF PageInv
<1> QED
  BY <1>2, <1>3, <1>4, <1>5

LEMMA ClosePageKeeps ==
  ASSUME PageInv, ClosePage
  PROVE  PageInv'
<1>1. /\ UNCHANGED <<serverVars, inbox, presses>> /\ acts' = NoActs /\ load' = NoLoad /\ busy' = FALSE
      /\ view' = NoView /\ sheet' = NoSheet /\ ticked' = 0 /\ editing' = FALSE
  BY DEF ClosePage
<1>2. SheetIs(view', sheet', srv) /\ LoadIs(load', srv) /\ ticked' \in 0..MaxMoves
  BY <1>1, NothingShown, NothingIs, PageAssumption DEF PageInv, LoadIs
<1>3. PressesAre(NoActs, inbox, srv, done, presses)
  <2>1. NoActs \in [Presses -> Busy \cup {NoAct}] /\ \A p \in Presses : NoActs[p] = NoAct
    BY DEF NoActs
  <2>2. ASSUME NEW p \in Presses PROVE PressIs(p, NoActs[p], inbox[p], srv, done)
    BY <2>1 DEF PageInv, PressesAre, PressIs
  <2> QED
    BY <2>1, <2>2 DEF PageInv, PressesAre
<1> QED
  BY <1>1, <1>2, <1>3, PageSteps

LEMMA SheetStepsKeep ==
  ASSUME PageInv, TypeAnswer \/ TickBox \/ TurnToEditing
  PROVE  PageInv' /\ UNCHANGED view
<1>1. view \in PageViews /\ view.rev \in 0..MaxMoves /\ view.asks \in Replies /\ SheetIs(view, sheet, srv)
  BY RevisionIs DEF PageInv, SheetIs, Was
<1>2. CASE TypeAnswer
  <2>1. PICK d \in Decisions : sheet' = [sheet EXCEPT ![d].typed = IF @ = 0 THEN view.asks[d] ELSE 0]
    BY <1>2 DEF TypeAnswer, Asked
  <2>2. sheet \in Sheets /\ \A c \in Decisions : sheet[c] \in [question : 0..MaxMoves, typed : 0..MaxMoves]
    BY <1>1 DEF SheetIs, Consistent, Sheets
  <2>3. view.asks[d] \in 0..MaxMoves /\ 0 \in 0..MaxMoves
    BY <1>1, PageAssumption DEF Replies
  <2>4. /\ sheet' = [c \in Decisions |-> sheet'[c]] /\ \A c \in Decisions : c # d => sheet'[c] = sheet[c]
        /\ sheet'[d] = [sheet[d] EXCEPT !.typed = IF sheet[d].typed = 0 THEN view.asks[d] ELSE 0]
    BY <2>1, <2>2 DEF Sheets
  <2>5. /\ sheet'[d].question = sheet[d].question /\ sheet'[d].typed \in {0, view.asks[d]}
        /\ sheet'[d] \in [question : 0..MaxMoves, typed : 0..MaxMoves]
    BY <2>2, <2>3, <2>4
  <2>6. sheet' \in Sheets
    BY <2>2, <2>4, <2>5 DEF Sheets
  <2>7. \A c \in Decisions : sheet[c].question = view.asks[c] /\ sheet[c].typed \in {0, sheet[c].question}
    BY <1>1 DEF SheetIs, Consistent
  <2>8. UNCHANGED <<serverVars, inbox, view, ticked, editing, busy, acts, load, presses>>
    BY <1>2 DEF TypeAnswer
  <2>9. ASSUME NEW c \in Decisions PROVE sheet'[c].question = view.asks[c] /\ sheet'[c].typed \in {0, sheet'[c].question}
    BY <2>4, <2>5, <2>7
  <2>10. SheetIs(view', sheet', srv)
    BY <1>1, <2>6, <2>8, <2>9 DEF SheetIs, Consistent
  <2> QED
    BY <2>8, <2>10, PageSteps DEF PageInv
<1>3. CASE TickBox
  <2>1. /\ UNCHANGED <<serverVars, inbox, view, sheet, editing, busy, acts, load, presses>>
        /\ ticked' = IF ticked = 0 THEN view.rev ELSE 0
    BY <1>3 DEF TickBox
  <2>2. ticked' \in 0..MaxMoves
    BY <1>1, <2>1, PageAssumption
  <2> QED
    BY <2>1, <2>2, PageSteps DEF PageInv
<1>4. CASE TurnToEditing
  <2>1. UNCHANGED <<serverVars, inbox, view, sheet, ticked, busy, acts, load, presses>> /\ editing' \in BOOLEAN
    BY <1>4 DEF TurnToEditing, PageInv
  <2> QED
    BY <2>1, PageSteps DEF PageInv
<1> QED
  BY <1>2, <1>3, <1>4

-----------------------------------------------------------------------------
\* The command of press p, and what it has under way, become a and q.
LEMMA CommandGoes ==
  ASSUME PageInv, NEW p \in Presses, NEW a \in Busy \cup {NoAct}, NEW q, PressIs(p, a, q, srv, done),
         acts' = [acts EXCEPT ![p] = a], inbox' = [inbox EXCEPT ![p] = q],
         presses' \in 0..MaxPresses, presses <= presses', p <= presses'
  PROVE  PressesAre(acts', inbox', srv, done, presses')
<1>1. IsSession(srv) /\ GoesOn(srv, srv) /\ PressesAre(acts, inbox, srv, done, presses)
  BY SessionRests DEF PageInv
<1>2. \A r : KeysStay(r, done, done)
  BY DEF KeysStay
<1>3. PressesAre([acts EXCEPT ![p] = a], [inbox EXCEPT ![p] = q], srv, done, presses')
  BY <1>1, <1>2, OnePressGoesOn
<1> QED
  BY <1>3

\* As long as it has a command, it has been pressed.
LEMMA BusyPress ==
  ASSUME PageInv, NEW p \in Presses, acts[p] # NoAct
  PROVE  /\ Doing(p, acts[p], inbox[p], srv, done) /\ CommandIs(p, acts[p], srv, done)
         /\ StageIs(p, acts[p], inbox[p], srv, done) /\ WireIs(p, inbox[p], srv, done) /\ acts[p] \in Busy
         /\ presses \in 0..MaxPresses /\ presses <= presses /\ p <= presses /\ IsSession(srv)
<1>1. PressIs(p, acts[p], inbox[p], srv, done) /\ presses \in 0..MaxPresses /\ p <= presses
  BY DEF PageInv, PressesAre
<1>2. Doing(p, acts[p], inbox[p], srv, done) /\ WireIs(p, inbox[p], srv, done)
  BY <1>1 DEF PressIs
<1>3. presses <= presses
  BY <1>1
<1> QED
  BY <1>1, <1>2, <1>3 DEF Doing, CommandIs, PageInv

\* A command ends, whatever it leaves under way.
LEMMA CommandEnds ==
  ASSUME PageInv, NEW p \in Presses, acts[p] # NoAct, acts' = [acts EXCEPT ![p] = NoAct], UNCHANGED presses,
         NEW q, WireIs(p, q, srv, done), inbox' = [inbox EXCEPT ![p] = q]
  PROVE  PressesAre(acts', inbox', srv, done, presses)
<1>1. PressIs(p, NoAct, q, srv, done)
  BY DEF PressIs
<1>2. presses' = presses /\ presses \in 0..MaxPresses /\ presses <= presses' /\ p <= presses'
  BY BusyPress
<1>3. PressesAre(acts', inbox', srv, done, presses')
  BY <1>1, <1>2, CommandGoes
<1> QED
  BY <1>2, <1>3

LEMMA WireLeft ==
  ASSUME PageInv, NEW p \in Presses, UNCHANGED inbox
  PROVE  inbox' = [inbox EXCEPT ![p] = inbox[p]]
BY DEF PageInv, PressesAre

\* Press p sends the request of a, behind what is left under way of those it sent before.
LEMMA SendsKeeps ==
  ASSUME NEW p, NEW a, NEW left, NEW s, NEW d, p \in Nat, CommandIs(p, a, s, d), a.at = "wait", a.since = a.from.rev,
         WireIs(p, left, s, d),
         \A i \in 1..Len(left) : left[i].try = a.try /\ left[i].base = a.from.rev /\ left[i].copy < a.copy
  PROVE  PressIs(p, a, Append(left, RequestOf(p, a)), s, d)
<1>1. PICK m, q : m = RequestOf(p, a) /\ q = Append(left, m)
  OBVIOUS
<1>2. /\ a \in Busy /\ a.try \in 1..2 /\ a.copy \in 1..2 /\ a.kind \in Pressed /\ a.replies \in Replies
      /\ a.from \in PageViews /\ a.from.rev \in 0..MaxMoves
  BY RevisionIs DEF CommandIs, Busy
<1>3. /\ m \in Sent /\ m.press = p /\ m.try = a.try /\ m.copy = a.copy /\ m.base = a.from.rev
      /\ m.replies = a.replies
  BY <1>1, <1>2 DEF RequestOf, Sent
<1>4. Sound(m, s, d)
  BY <1>3 DEF Sound, Was, For, CommandIs
<1>5. left \in Seq(Sent) /\ \A i \in 1..Len(left) : left[i] \in Sent /\ left[i].press = p /\ Sound(left[i], s, d)
  BY ElementOfSeq DEF WireIs
<1>6. /\ Len(left) \in Nat /\ q \in Seq(Sent) /\ Len(q) = Len(left) + 1 /\ q[Len(left) + 1] = m
      /\ \A i \in 1..Len(left) : q[i] = left[i]
  BY <1>1, <1>3, <1>5, LenProperties, AppendProperties
<1>7. \A i \in 1..Len(q) : i = Len(left) + 1 \/ i \in 1..Len(left)
  BY <1>6
<1>8. ASSUME NEW i \in 1..Len(q)
      PROVE  q[i].press = p /\ Sound(q[i], s, d) /\ q[i].try = a.try /\ q[i].base = a.from.rev /\ q[i].copy <= a.copy
  <2>1. CASE i = Len(left) + 1
    BY <1>2, <1>3, <1>4, <1>6, <2>1
  <2>2. CASE i \in 1..Len(left)
    <3>1. q[i] = left[i] /\ left[i].copy \in 1..2
      BY <1>5, <1>6, <2>2 DEF Sent
    <3>2. left[i].copy <= a.copy
      BY <1>2, <2>2, <3>1
    <3> QED
      BY <1>5, <2>2, <3>1, <3>2
  <2> QED
    BY <1>7, <2>1, <2>2
<1>9. WireIs(p, q, s, d)
  BY <1>6, <1>8 DEF WireIs
<1>10. ASSUME NEW i \in 1..(Len(q) - 1) PROVE q[i] # m
  <2>1. i \in 1..Len(left)
    BY <1>6
  <2>2. q[i] = left[i] /\ left[i].copy \in 1..2 /\ left[i].copy < a.copy
    BY <1>5, <1>6, <2>1 DEF Sent
  <2>3. left[i].copy # a.copy
    BY <1>2, <2>2
  <2> QED
    BY <1>3, <2>2, <2>3
<1>11. Len(q) # 0 /\ q # <<>>
  BY <1>6, EmptySeq
<1>12. q[Len(q)] = RequestOf(p, a) /\ \A i \in 1..(Len(q) - 1) : q[i] # RequestOf(p, a)
  BY <1>1, <1>6, <1>10
<1>13. StageIs(p, a, q, s, d)
  BY <1>11, <1>12 DEF StageIs
<1>14. PressIs(p, a, q, s, d)
  BY <1>8, <1>9, <1>13 DEF PressIs, Doing
<1> QED
  BY <1>1, <1>14

LEMMA EmptyWire ==
  ASSUME NEW p, NEW s, NEW d
  PROVE  WireIs(p, <<>>, s, d) /\ Len(<<>>) = 0
<1>1. <<>> \in Seq(Sent) /\ Len(<<>>) = 0
  BY EmptySeq
<1> QED
  BY <1>1 DEF WireIs

LEMMA TypedIs ==
  ASSUME NEW v, NEW x, Consistent(x), \A d \in Decisions : x[d].question = v.asks[d]
  PROVE  Typed(x) \in Replies /\ For(Typed(x), v)
BY DEF Typed, Consistent, Sheets, Replies, For

LEMMA PressKeeps ==
  ASSUME PageInv, Press
  PROVE  PageInv'
<1>1. /\ UNCHANGED <<serverVars, shownVars, load>> /\ busy' = TRUE /\ presses < MaxPresses /\ presses' = presses + 1
      /\ presses \in 0..MaxPresses
  BY DEF Press, PageInv, PressesAre
<1>2. PICK p : p = presses + 1
  OBVIOUS
<1>3. p \in Presses /\ p \in Nat /\ presses' = p /\ presses <= presses' /\ p <= presses' /\ presses' \in 0..MaxPresses
      /\ ~(p <= presses)
  BY <1>1, <1>2, PageAssumption DEF Presses
<1>4. PICK kind \in Buttons :
         Sends(p, [NoAct EXCEPT !.at = "wait", !.kind = kind, !.from = view, !.since = view.rev,
                       !.replies = IF kind \in {"round", "finalize"} THEN Typed(sheet) ELSE Blank], <<>>)
  BY <1>3 DEF Press
<1>5. PICK r : r = IF kind \in {"round", "finalize"} THEN Typed(sheet) ELSE Blank
  OBVIOUS
<1>6. PICK a : a = [NoAct EXCEPT !.at = "wait", !.kind = kind, !.from = view, !.since = view.rev, !.replies = r]
  OBVIOUS
<1>7. kind \in Pressed /\ view # NoView
  BY DEF Buttons, Pressed
<1>8. view \in PageViews /\ Was(view, srv) /\ 1 <= view.rev /\ view.rev \in 0..MaxMoves /\ SheetIs(view, sheet, srv)
  BY <1>7, RevisionIs DEF PageInv, SheetIs, Was
<1>9. r \in Replies /\ For(r, view)
  <2>1. Blank \in Replies /\ For(Blank, view)
    BY NothingIs DEF For
  <2>2. Typed(sheet) \in Replies /\ For(Typed(sheet), view)
    BY <1>8, TypedIs DEF SheetIs
  <2> QED
    BY <1>5, <2>1, <2>2
<1>10. /\ a = [at |-> "wait", kind |-> kind, try |-> 1, copy |-> 1, replies |-> r, from |-> view,
               since |-> view.rev, got |-> NoView]
  BY <1>6 DEF NoAct
<1>11. a \in Busy /\ a.at = "wait" /\ a.try = 1 /\ a.from = view /\ a.since = view.rev /\ a.replies = r
  BY <1>7, <1>8, <1>9, <1>10, NothingIs DEF Busy
<1>12. \A n : <<p, n>> \notin DOMAIN done
  <2>1. \A k \in DOMAIN done : k \in (1..presses) \X (1..2)
    BY DEF PageInv, ReceiptsAre
  <2>2. p \notin 1..presses
    BY <1>1, <1>2
  <2> QED
    BY <2>1, <2>2
<1>13. CommandIs(p, a, srv, done)
  BY <1>8, <1>9, <1>11, <1>12 DEF CommandIs
<1>14. PressIs(p, a, Append(<<>>, RequestOf(p, a)), srv, done)
  <2>1. \A i \in 1..Len(<<>>) : <<>>[i].try = a.try /\ <<>>[i].base = a.from.rev /\ <<>>[i].copy < a.copy
    BY EmptyWire
  <2>2. WireIs(p, <<>>, srv, done) /\ a.since = a.from.rev
    BY EmptyWire, <1>11
  <2> QED
    BY <1>3, <1>11, <1>13, <2>1, <2>2, SendsKeeps
<1>15. acts' = [acts EXCEPT ![p] = a] /\ inbox' = [inbox EXCEPT ![p] = Append(<<>>, RequestOf(p, a))]
  BY <1>4, <1>5, <1>6 DEF Sends, ActIs
<1>16. PressesAre(acts', inbox', srv, done, presses')
  BY <1>3, <1>11, <1>14, <1>15, CommandGoes
<1>17. ReceiptsAre(done, landedFor, srv, presses')
  <2>1. presses \in Nat /\ presses' \in Nat /\ presses <= presses'
    BY <1>1, <1>3
  <2>2. IsSession(srv) /\ GoesOn(srv, srv) /\ ReceiptsAre(done, landedFor, srv, presses)
    BY SessionRests DEF PageInv
  <2> QED
    BY <2>1, <2>2, ReceiptsStay
<1> QED
  BY <1>1, <1>16, <1>17 DEF PageInv, serverVars, shownVars

\* What is left without the request awaited comes from the wire.
LEMMA LeftBehind ==
  ASSUME PageInv, NEW p \in Presses, NEW left \in {inbox[p], WithoutAwaited(p)}
  PROVE  /\ WireIs(p, left, srv, done) /\ left \in Seq(Sent)
         /\ \A i \in 1..Len(left) : i \in 1..Len(inbox[p]) /\ left[i] = inbox[p][i]
<1>1. PICK q : q = inbox[p]
  OBVIOUS
<1>2. WireIs(p, q, srv, done) /\ q \in Seq(Sent) /\ Len(q) \in Nat
  BY <1>1, LenProperties DEF PageInv, PressesAre, PressIs, WireIs
<1>3. left \in Seq(Sent) /\ \A i \in 1..Len(left) : i \in 1..Len(q) /\ left[i] = q[i]
  <2>1. CASE left = q
    BY <1>2, <2>1
  <2>2. CASE q # <<>> /\ left = SubSeq(q, 1, Len(q) - 1)
    <3>1. \A i \in 1..(Len(q) - 1) : q[i] \in Sent
      BY <1>2, ElementOfSeq
    <3>2. /\ left \in Seq(Sent) /\ Len(left) = IF 1 <= Len(q) - 1 THEN Len(q) - 1 ELSE 0
          /\ \A i \in 1..(Len(q) - 1) : left[i] = q[i]
      BY <1>2, <2>2, <3>1, SubSeqProperties
    <3> QED
      BY <1>2, <3>2
  <2> QED
    BY <1>1, <2>1, <2>2 DEF WithoutAwaited
<1>4. WireIs(p, left, srv, done)
  BY <1>2, <1>3 DEF WireIs
<1> QED
  BY <1>1, <1>3, <1>4

LEMMA NetworkFailsKeeps ==
  ASSUME PageInv, NEW p \in Presses, NetworkFails(p)
  PROVE  PageInv'
<1>1. UNCHANGED <<serverVars, shownVars, load, presses>> /\ acts[p].at \in {"wait", "ok", "refused"} /\ acts[p] # NoAct
  BY NothingIs DEF NetworkFails
<1>2. PICK left \in {inbox[p], WithoutAwaited(p)} :
         IF acts[p].copy = 1
         THEN Sends(p, [acts[p] EXCEPT !.at = "wait", !.copy = 2, !.got = NoView], left) /\ UNCHANGED busy
         ELSE ActEnds(p) /\ inbox' = [inbox EXCEPT ![p] = left]
  BY DEF NetworkFails
<1>3. /\ WireIs(p, left, srv, done) /\ left \in Seq(Sent)
      /\ \A i \in 1..Len(left) : i \in 1..Len(inbox[p]) /\ left[i] = inbox[p][i]
  BY LeftBehind
<1>4. PICK a : a = acts[p]
  OBVIOUS
<1>5. /\ Doing(p, a, inbox[p], srv, done) /\ CommandIs(p, a, srv, done) /\ StageIs(p, a, inbox[p], srv, done) /\ a \in Busy
      /\ presses \in 0..MaxPresses /\ presses <= presses /\ p <= presses
  BY <1>1, <1>4, BusyPress
<1>6. PressesAre(acts', inbox', srv, done, presses) /\ busy' \in BOOLEAN
  <2>1. CASE a.copy # 1
    <3>1. acts' = [acts EXCEPT ![p] = NoAct] /\ inbox' = [inbox EXCEPT ![p] = left] /\ busy' = FALSE
      BY <1>2, <1>4, <2>1 DEF ActEnds, ActIs
    <3>2. UNCHANGED presses
      BY <1>1
    <3> QED
      BY <1>1, <1>3, <3>1, <3>2, CommandEnds
  <2>2. CASE a.copy = 1
    <3>1. PICK b : b = [a EXCEPT !.at = "wait", !.copy = 2, !.got = NoView]
      OBVIOUS
    <3>2. /\ b \in Busy /\ b.at = "wait" /\ b.copy = 2 /\ b.kind = a.kind /\ b.try = a.try /\ b.replies = a.replies
          /\ b.from = a.from /\ b.since = a.since
      <4>1. NoView \in PageViews /\ 2 \in 1..2
        BY NothingIs
      <4> QED
        BY <1>5, <3>1, <4>1 DEF Busy
    <3>3. CommandIs(p, b, srv, done) /\ b.since = b.from.rev
      <4>1. a.since = a.from.rev
        BY <1>1, <1>4, <1>5 DEF StageIs
      <4> QED
        BY <1>5, <3>2, <4>1 DEF CommandIs
    <3>4. ASSUME NEW i \in 1..Len(left) PROVE left[i].try = b.try /\ left[i].base = b.from.rev /\ left[i].copy < b.copy
      <4>1. left[i] \in Sent /\ left[i].copy \in 1..2
        <5>1. left \in Seq(Sent)
          BY <1>3
        <5>2. left[i] \in Sent
          BY <5>1, ElementOfSeq
        <5> QED
          BY <5>2 DEF Sent
      <4>2. left[i].try = a.try /\ left[i].base = a.from.rev /\ left[i].copy <= a.copy
        <5>1. \A j \in 1..Len(inbox[p]) :
                 inbox[p][j].try = a.try /\ inbox[p][j].base = a.from.rev /\ inbox[p][j].copy <= a.copy
          BY <1>5 DEF Doing
        <5>2. PICK j \in 1..Len(inbox[p]) : left[i] = inbox[p][j]
          BY <1>3
        <5> QED
          BY <5>1, <5>2
      <4>3. left[i].copy < b.copy
        BY <2>2, <3>2, <4>1, <4>2
      <4> QED
        BY <3>2, <4>2, <4>3
    <3>5. p \in Nat
      BY PageAssumption DEF Presses
    <3>6. PressIs(p, b, Append(left, RequestOf(p, b)), srv, done)
      BY <1>3, <3>2, <3>3, <3>4, <3>5, SendsKeeps
    <3>7. acts' = [acts EXCEPT ![p] = b] /\ inbox' = [inbox EXCEPT ![p] = Append(left, RequestOf(p, b))] /\ UNCHANGED busy
      BY <1>2, <1>4, <2>2, <3>1 DEF Sends, ActIs
    <3>8. presses' = presses /\ presses' \in 0..MaxPresses /\ presses <= presses' /\ p <= presses'
      BY <1>1, <1>5
    <3>9. PressesAre(acts', inbox', srv, done, presses')
      BY <3>2, <3>6, <3>7, <3>8, CommandGoes
    <3> QED
      BY <3>7, <3>8, <3>9 DEF PageInv
  <2> QED
    BY <2>1, <2>2
<1> QED
  BY <1>1, <1>6, PageSteps DEF PageInv, shownVars

\* A command that is not sent any more ends, or waits for a load.
LEMMA CommandRests ==
  ASSUME PageInv, NEW p \in Presses, acts[p] # NoAct, acts[p].at # "wait", NEW b \in Busy, b.at # "wait",
         CommandIs(p, b, srv, done), StageIs(p, b, <<>>, srv, done), acts' = [acts EXCEPT ![p] = b],
         UNCHANGED <<inbox, presses>>
  PROVE  PressesAre(acts', inbox', srv, done, presses)
<1>1. inbox[p] = <<>> /\ presses \in 0..MaxPresses /\ presses <= presses /\ p <= presses
  BY BusyPress DEF StageIs
<1>2. \A i \in 1..Len(<<>>) : FALSE
  BY EmptyWire
<1>3. Doing(p, b, <<>>, srv, done)
  BY <1>2 DEF Doing
<1>4. PressIs(p, b, inbox[p], srv, done)
  BY <1>1, <1>3, EmptyWire DEF PressIs
<1>5. inbox' = [inbox EXCEPT ![p] = inbox[p]]
  BY WireLeft
<1>6. presses' = presses /\ presses' \in 0..MaxPresses /\ presses <= presses' /\ p <= presses'
  BY <1>1
<1>7. PressesAre(acts', inbox', srv, done, presses')
  BY <1>4, <1>5, <1>6, CommandGoes
<1> QED
  BY <1>6, <1>7

LEMMA CommandOver ==
  ASSUME PageInv, NEW p \in Presses, acts[p] # NoAct, ActEnds(p), UNCHANGED <<inbox, presses>>
  PROVE  PressesAre(acts', inbox', srv, done, presses) /\ busy' \in BOOLEAN /\ acts'[p] # acts[p]
<1>1. acts' = [acts EXCEPT ![p] = NoAct] /\ busy' = FALSE
  BY DEF ActEnds, ActIs
<1>2. WireIs(p, inbox[p], srv, done) /\ inbox' = [inbox EXCEPT ![p] = inbox[p]] /\ UNCHANGED presses
  BY BusyPress, WireLeft
<1>3. acts'[p] = NoAct
  BY <1>1 DEF PageInv, PressesAre
<1> QED
  BY <1>1, <1>2, <1>3, CommandEnds

LEMMA HearsOkKeeps ==
  ASSUME PageInv, NEW p \in Presses, HearsOk(p)
  PROVE  PageInv' /\ (view' # NoView => acts'[p] # acts[p] /\ acts[p].since <= view'.rev)
<1>1. /\ acts[p].at = "ok" /\ acts[p] # NoAct /\ ActEnds(p) /\ UNCHANGED <<serverVars, inbox, presses>> /\ editing' \in BOOLEAN
  BY NothingIs DEF HearsOk
<1>2. PressesAre(acts', inbox', srv, done, presses) /\ busy' \in BOOLEAN /\ acts'[p] # acts[p]
  BY <1>1, CommandOver
<1>3. PICK a : a = acts[p]
  OBVIOUS
<1>4. /\ Was(a.got, srv) /\ a.from.rev < a.got.rev /\ a.since = a.from.rev /\ 1 <= a.from.rev /\ Was(a.from, srv)
      /\ IsSession(srv) /\ Consistent(sheet) /\ LoadIs(load, srv)
  BY <1>1, <1>3, BusyPress DEF StageIs, CommandIs, PageInv, SheetIs
<1>5. a.from.rev \in Nat /\ a.got.rev \in Nat
  BY <1>4, RevisionIs DEF Was
<1>6. 1 <= a.got.rev /\ a.since <= a.got.rev
  BY <1>4, <1>5
<1>7. CASE a.kind = "cancel"
  <2>1. view' = NoView /\ ticked' = 0 /\ sheet' = NoSheet /\ load' = NoLoad
    BY <1>3, <1>7 DEF HearsOk
  <2>2. SheetIs(view', sheet', srv) /\ LoadIs(load', srv) /\ ticked' \in 0..MaxMoves
    BY <1>4, <2>1, NothingShown, NothingIs, PageAssumption DEF LoadIs
  <2> QED
    BY <1>1, <1>2, <2>1, <2>2, PageSteps
<1>8. CASE a.kind # "cancel"
  <2>1. Shows(a.got, sheet) /\ UNCHANGED load
    BY <1>3, <1>8 DEF HearsOk
  <2>2. SheetIs(view', sheet', srv) /\ ticked' \in 0..MaxMoves /\ view' = a.got
    BY <1>4, <1>6, <2>1, ShowsKeeps
  <2>3. PageInv'
    BY <1>1, <1>2, <1>4, <2>1, <2>2, PageSteps
  <2> QED
    BY <1>2, <1>3, <1>6, <2>2, <2>3
<1> QED
  BY <1>7, <1>8

LEMMA HearsConflictKeeps ==
  ASSUME PageInv, NEW p \in Presses, HearsConflict(p)
  PROVE  PageInv'
<1>1. acts[p].at = "refused" /\ acts[p] # NoAct /\ UNCHANGED <<serverVars, inbox, shownVars, load, presses>>
  BY NothingIs DEF HearsConflict
<1>2. PICK a : a = acts[p]
  OBVIOUS
<1>3. CommandIs(p, a, srv, done) /\ StageIs(p, a, inbox[p], srv, done) /\ a \in Busy
  BY <1>1, <1>2, BusyPress
<1>4. PressesAre(acts', inbox', srv, done, presses) /\ busy' \in BOOLEAN
  <2>1. CASE ActEnds(p)
    BY <1>1, <2>1, CommandOver
  <2>2. CASE a.try = 1 /\ ActIs(p, [a EXCEPT !.at = "reload", !.since = view.rev]) /\ UNCHANGED busy
    <3>1. view.rev \in 0..MaxMoves /\ view.rev <= srv.rev
      BY RevisionIs DEF PageInv, SheetIs, Was
    <3>2. PICK b : b = [a EXCEPT !.at = "reload", !.since = view.rev]
      OBVIOUS
    <3>3. /\ b \in Busy /\ b.at = "reload" /\ b.since = view.rev /\ b.try = a.try /\ b.replies = a.replies
          /\ b.from = a.from
      BY <1>3, <3>1, <3>2 DEF Busy
    <3>4. CommandIs(p, b, srv, done)
      BY <1>3, <3>3 DEF CommandIs
    <3>5. <<p, a.try>> \notin DOMAIN done
      BY <1>1, <1>2, <1>3 DEF StageIs
    <3>6. StageIs(p, b, <<>>, srv, done)
      BY <2>2, <3>1, <3>3, <3>5 DEF StageIs
    <3>7. acts' = [acts EXCEPT ![p] = b]
      BY <2>2, <3>2 DEF ActIs
    <3>8. acts[p].at # "wait" /\ b.at # "wait" /\ UNCHANGED <<inbox, presses>>
      BY <1>1, <3>3
    <3>9. PressesAre(acts', inbox', srv, done, presses)
      BY <1>1, <3>3, <3>4, <3>6, <3>7, <3>8, CommandRests
    <3> QED
      BY <2>2, <3>9 DEF PageInv
  <2> QED
    BY <1>2, <2>1, <2>2 DEF HearsConflict
<1> QED
  BY <1>1, <1>4, PageSteps DEF PageInv, shownVars

LEMMA ReloadAnsweredKeeps ==
  ASSUME PageInv, NEW p \in Presses, ReloadAnswered(p)
  PROVE  PageInv'
<1>1. acts[p].at = "reload" /\ acts[p] # NoAct /\ UNCHANGED <<serverVars, inbox, shownVars, busy, load, presses>>
  BY NothingIs DEF ReloadAnswered
<1>2. PICK a : a = acts[p]
  OBVIOUS
<1>3. CommandIs(p, a, srv, done) /\ StageIs(p, a, inbox[p], srv, done) /\ a \in Busy
  BY <1>1, <1>2, BusyPress
<1>4. <<p, a.try>> \notin DOMAIN done /\ a.try = 1 /\ a.since <= srv.rev
  BY <1>1, <1>2, <1>3 DEF StageIs
<1>5. srv \in PageViews /\ Was(srv, srv) /\ 1 <= srv.rev
  BY DEF PageInv, IsSession, Was
<1>6. PICK b : b = [a EXCEPT !.at = "reloaded", !.got = srv]
  OBVIOUS
<1>7. /\ b \in Busy /\ b.at = "reloaded" /\ b.got = srv /\ b.since = a.since /\ b.try = a.try
      /\ b.replies = a.replies /\ b.from = a.from
  BY <1>3, <1>5, <1>6 DEF Busy
<1>8. CommandIs(p, b, srv, done)
  BY <1>3, <1>7 DEF CommandIs
<1>9. StageIs(p, b, <<>>, srv, done)
  BY <1>4, <1>5, <1>7 DEF StageIs
<1>10. acts' = [acts EXCEPT ![p] = b] /\ acts[p].at # "wait" /\ b.at # "wait" /\ UNCHANGED <<inbox, presses>>
  BY <1>1, <1>2, <1>6, <1>7 DEF ReloadAnswered, ActIs
<1>11. PressesAre(acts', inbox', srv, done, presses)
  BY <1>1, <1>7, <1>8, <1>9, <1>10, CommandRests
<1> QED
  BY <1>1, <1>11, PageSteps DEF PageInv, shownVars

\* The answers of a refused command go with it only where the same question is asked.
LEMMA RemappedFits ==
  ASSUME NEW v \in PageViews, NEW a \in Busy, For(a.replies, a.from)
  PROVE  /\ Consistent(Remapped(v, a)) /\ Typed(Remapped(v, a)) \in Replies
         /\ For(Typed(Remapped(v, a)), v)
<1>1. PICK x : x = Remapped(v, a)
  OBVIOUS
<1>2. v.asks \in Replies /\ a.replies \in Replies
  BY RevisionIs DEF Busy
<1>3. ASSUME NEW d \in Decisions
      PROVE  x[d] \in [question : 0..MaxMoves, typed : 0..MaxMoves] /\ x[d].typed \in {0, x[d].question}
             /\ x[d].question = v.asks[d]
  <2>1. v.asks[d] \in 0..MaxMoves /\ a.replies[d] \in 0..MaxMoves /\ 0 \in 0..MaxMoves
    BY <1>2, PageAssumption DEF Replies
  <2>2. a.replies[d] \in {0, a.from.asks[d]}
    BY DEF For
  <2>3. x[d] = IF v.asks[d] # 0 /\ a.from.asks[d] = v.asks[d]
               THEN [question |-> v.asks[d], typed |-> a.replies[d]]
               ELSE [question |-> v.asks[d], typed |-> 0]
    BY <1>1 DEF Remapped
  <2>4. CASE x[d] = [question |-> v.asks[d], typed |-> 0]
    BY <2>1, <2>4
  <2>5. CASE x[d] = [question |-> v.asks[d], typed |-> a.replies[d]] /\ a.from.asks[d] = v.asks[d]
    BY <2>1, <2>2, <2>5
  <2> QED
    BY <2>3, <2>4, <2>5
<1>4. x \in Sheets
  <2>1. x = [d \in Decisions |-> x[d]]
    BY <1>1 DEF Remapped
  <2> QED
    BY <1>3, <2>1 DEF Sheets
<1>5. Consistent(x) /\ \A d \in Decisions : x[d].question = v.asks[d]
  BY <1>3, <1>4 DEF Consistent
<1>6. Typed(x) \in Replies /\ For(Typed(x), v)
  BY <1>5, TypedIs
<1> QED
  BY <1>1, <1>5, <1>6

LEMMA RecoversKeeps ==
  ASSUME PageInv, NEW p \in Presses, Recovers(p)
  PROVE  PageInv' /\ acts'[p] # acts[p] /\ acts[p].since <= view'.rev
<1>1. PICK a : a = acts[p]
  OBVIOUS
<1>2. PICK carried : carried = IF a.kind \in {"round", "finalize"} THEN Remapped(a.got, a) ELSE sheet
  OBVIOUS
<1>3. PICK r : r = IF a.kind \in {"round", "finalize"} THEN Typed(carried) ELSE Blank
  OBVIOUS
<1>4. PICK b : b = [a EXCEPT !.at = "wait", !.try = 2, !.copy = 1, !.from = a.got, !.since = a.got.rev,
                         !.got = NoView, !.replies = r]
  OBVIOUS
<1>5. /\ a.at = "reloaded" /\ UNCHANGED <<serverVars, editing, load, presses>> /\ Shows(a.got, carried)
      /\ (Sends(p, b, inbox[p]) /\ UNCHANGED busy) \/ (ActEnds(p) /\ UNCHANGED inbox)
  BY <1>1, <1>2, <1>3, <1>4 DEF Recovers
<1>6. acts[p] # NoAct
  BY <1>1, <1>5, NothingIs
<1>7. /\ CommandIs(p, a, srv, done) /\ StageIs(p, a, inbox[p], srv, done) /\ WireIs(p, inbox[p], srv, done) /\ a \in Busy
      /\ presses \in 0..MaxPresses /\ presses <= presses /\ p <= presses /\ IsSession(srv)
  BY <1>1, <1>6, BusyPress
<1>8. /\ Was(a.got, srv) /\ 1 <= a.got.rev /\ a.since <= a.got.rev /\ a.got \in PageViews /\ a.got.rev \in 0..MaxMoves
      /\ a.try = 1 /\ <<p, 1>> \notin DOMAIN done /\ inbox[p] = <<>>
  BY <1>5, <1>7, RevisionIs DEF StageIs, Was
<1>9. /\ <<p, 2>> \notin DOMAIN done /\ For(a.replies, a.from)
  BY <1>7, <1>8 DEF CommandIs
<1>10. /\ Consistent(carried)
       /\ a.kind \in {"round", "finalize"} => Typed(carried) \in Replies /\ For(Typed(carried), a.got)
  <2>1. CASE a.kind \in {"round", "finalize"}
    BY <1>2, <1>7, <1>8, <1>9, <2>1, RemappedFits
  <2>2. CASE a.kind \notin {"round", "finalize"}
    BY <1>2, <2>2 DEF PageInv, SheetIs
  <2> QED
    BY <2>1, <2>2
<1>11. r \in Replies /\ For(r, a.got)
  <2>1. Blank \in Replies /\ For(Blank, a.got)
    BY NothingIs DEF For
  <2> QED
    BY <1>3, <1>10, <2>1
<1>12. SheetIs(view', sheet', srv) /\ ticked' \in 0..MaxMoves /\ view' = a.got
  BY <1>5, <1>7, <1>8, <1>10, ShowsKeeps
<1>13. PressesAre(acts', inbox', srv, done, presses) /\ busy' \in BOOLEAN /\ acts'[p] # acts[p]
  <2>1. CASE ActEnds(p) /\ UNCHANGED inbox
    BY <1>5, <1>6, <2>1, CommandOver
  <2>2. CASE Sends(p, b, inbox[p]) /\ UNCHANGED busy
    <3>1. b = [at |-> "wait", kind |-> a.kind, try |-> 2, copy |-> 1, replies |-> r, from |-> a.got,
               since |-> a.got.rev, got |-> NoView]
      BY <1>4, <1>7 DEF Busy
    <3>2. a.kind \in Pressed /\ NoView \in PageViews
      BY <1>7, NothingIs DEF Busy
    <3>3. b \in Busy /\ b.at = "wait" /\ b.try = 2 /\ b.from = a.got /\ b.since = a.got.rev /\ b.replies = r
      BY <1>8, <1>11, <3>1, <3>2 DEF Busy
    <3>4. CommandIs(p, b, srv, done)
      <4>1. 3 - b.try = 1
        BY <3>3
      <4> QED
        BY <1>8, <1>9, <1>11, <3>3, <4>1 DEF CommandIs
    <3>5. PressIs(p, b, Append(inbox[p], RequestOf(p, b)), srv, done)
      <4>1. p \in Nat
        BY PageAssumption DEF Presses
      <4>2. \A i \in 1..Len(inbox[p]) :
               inbox[p][i].try = b.try /\ inbox[p][i].base = b.from.rev /\ inbox[p][i].copy < b.copy
        <5>1. Len(inbox[p]) = 0
          BY <1>8, EmptyWire
        <5> QED
          BY <5>1
      <4>3. b.since = b.from.rev
        BY <3>3
      <4> QED
        BY <1>7, <3>3, <3>4, <4>1, <4>2, <4>3, SendsKeeps
    <3>6. acts' = [acts EXCEPT ![p] = b] /\ inbox' = [inbox EXCEPT ![p] = Append(inbox[p], RequestOf(p, b))]
      BY <2>2 DEF Sends, ActIs
    <3>7. presses' = presses /\ presses' \in 0..MaxPresses /\ presses <= presses' /\ p <= presses'
      BY <1>5, <1>7
    <3>8. PressesAre(acts', inbox', srv, done, presses')
      BY <3>3, <3>5, <3>6, <3>7, CommandGoes
    <3>9. acts'[p] = b /\ b.at # a.at
      BY <1>5, <3>3, <3>6 DEF PageInv, PressesAre
    <3> QED
      BY <1>1, <2>2, <3>7, <3>8, <3>9 DEF PageInv
  <2> QED
    BY <1>5, <2>1, <2>2
<1>14. LoadIs(load', srv) /\ editing' \in BOOLEAN
  BY <1>5 DEF PageInv
<1>15. PageInv'
  BY <1>5, <1>12, <1>13, <1>14, PageSteps
<1> QED
  BY <1>1, <1>8, <1>12, <1>13, <1>15

LEMMA ReloadFailsKeeps ==
  ASSUME PageInv, NEW p \in Presses, ReloadFails(p)
  PROVE  PageInv'
<1>1. acts[p] # NoAct /\ ActEnds(p) /\ UNCHANGED <<serverVars, inbox, shownVars, load, presses>>
  BY NothingIs DEF ReloadFails
<1>2. PressesAre(acts', inbox', srv, done, presses) /\ busy' \in BOOLEAN
  BY <1>1, CommandOver
<1> QED
  BY <1>1, <1>2, PageSteps DEF PageInv, shownVars

LEMMA NothingKeeps ==
  ASSUME PageInv, UNCHANGED pageVars
  PROVE  PageInv'
BY DEF PageInv, pageVars, serverVars, shownVars

-----------------------------------------------------------------------------
LEMMA PageStarts == PageInit => PageInv
<1> SUFFICES ASSUME PageInit PROVE PageInv
  OBVIOUS
<1>1. PICK asks \in [Decisions -> {0, 1}] \ {Blank} : srv = [rev |-> 1, status |-> "active", asks |-> asks, held |-> Blank]
  BY DEF PageInit
<1>2. 0 \in 0..MaxMoves /\ 1 \in 0..MaxMoves
  BY PageAssumption
<1>3. Blank \in Replies /\ asks \in Replies /\ \A d \in Decisions : Blank[d] = 0
  BY <1>2, NothingIs DEF Replies
<1>4. srv \in PageViews /\ srv.rev = 1 /\ srv.asks = asks /\ srv.held = Blank
  BY <1>1, <1>2, <1>3 DEF PageViews, Statuses, Replies
<1>5. IsSession(srv)
  BY <1>3, <1>4 DEF IsSession, Was, For
<1>6. SheetIs(view, sheet, srv) /\ LoadIs(load, srv)
  <2>1. view = NoView /\ sheet = NoSheet /\ load = NoLoad
    BY DEF PageInit
  <2> QED
    BY <1>5, <2>1, NothingShown, NothingIs DEF LoadIs
<1>7. DOMAIN done = {} /\ landedFor = {}
  <2>1. done = <<>> /\ DOMAIN <<>> = {}
    BY EmptySeq DEF PageInit
  <2> QED
    BY <2>1 DEF PageInit
<1>8. ReceiptsAre(done, landedFor, srv, presses)
  BY <1>7 DEF ReceiptsAre
<1>9. PressesAre(acts, inbox, srv, done, presses)
  <2>1. /\ acts \in [Presses -> Busy \cup {NoAct}] /\ inbox \in [Presses -> Seq(Sent)]
        /\ \A p \in Presses : acts[p] = NoAct /\ inbox[p] = <<>>
    BY EmptySeq DEF PageInit, NoActs
  <2>2. ASSUME NEW p \in Presses PROVE PressIs(p, acts[p], inbox[p], srv, done)
    BY <2>1, EmptyWire DEF PressIs
  <2>3. presses \in 0..MaxPresses
    BY PageAssumption DEF PageInit
  <2> QED
    BY <2>1, <2>2, <2>3 DEF PressesAre
<1> QED
  BY <1>2, <1>5, <1>6, <1>8, <1>9 DEF PageInv, PageInit

LEMMA PageStepKeeps == PageInv /\ [PageNext]_pageVars => PageInv'
BY AnotherMovesKeeps, LoadKeeps, LoadShowsKeeps, ClosePageKeeps, SheetStepsKeep, PressKeeps, ServerAnswersKeeps,
   NetworkFailsKeeps, HearsOkKeeps, HearsConflictKeeps, ReloadAnsweredKeeps, RecoversKeeps, ReloadFailsKeeps,
   NothingKeeps
DEF PageNext

LEMMA PageInvTypes == PageInv => PageTypeOK
<1> SUFFICES ASSUME PageInv PROVE PageTypeOK
  OBVIOUS
<1>1. srv \in PageViews /\ view \in PageViews
  BY DEF PageInv, IsSession, SheetIs, Was
<1>2. /\ sheet \in [Decisions -> [question : 0..MaxMoves, typed : 0..MaxMoves]]
      /\ load.at \in {"rest", "asked", "answered"}
  BY DEF PageInv, SheetIs, Consistent, Sheets, LoadIs, Awaits
<1>3. ASSUME NEW p \in Presses
      PROVE  /\ acts[p].at \in {"rest", "wait", "ok", "refused", "reload", "reloaded"}
             /\ acts[p].try \in 1..2 /\ acts[p].copy \in 1..2 /\ (acts[p] # NoAct \/ inbox[p] # <<>> => p <= presses)
  <2>1. acts[p] \in Busy \cup {NoAct} /\ (acts[p] # NoAct \/ inbox[p] # <<>> => p <= presses)
    BY DEF PageInv, PressesAre
  <2>2. PICK a : a = acts[p]
    OBVIOUS
  <2>3. a.at \in {"rest", "wait", "ok", "refused", "reload", "reloaded"} /\ a.try \in 1..2 /\ a.copy \in 1..2
    BY <2>1, <2>2 DEF Busy, NoAct
  <2> QED
    BY <2>1, <2>2, <2>3
<1> QED
  BY <1>1, <1>2, <1>3 DEF PageInv, PageTypeOK

LEMMA PageInvSound == PageInv => AnswersFit /\ LandsOnce
<1> SUFFICES ASSUME PageInv PROVE AnswersFit /\ LandsOnce
  OBVIOUS
<1>1. ReceiptsAre(done, landedFor, srv, presses) /\ SheetIs(view, sheet, srv)
  BY DEF PageInv
<1>2. \A d \in Decisions : sheet[d].question = view.asks[d] /\ sheet[d].typed \in {0, view.asks[d]}
  BY <1>1 DEF SheetIs, Consistent
<1>3. AnswersFit
  BY <1>1, <1>2 DEF ReceiptsAre, For, AnswersFit
<1>4. ASSUME NEW l \in landedFor, NEW k \in landedFor, l.request.press = k.request.press PROVE l = k
  <2>1. KeyOf(l.request) \in DOMAIN done /\ KeyOf(k.request) \in DOMAIN done
    BY <1>1 DEF ReceiptsAre
  <2>2. /\ l.request.try \in 1..2 /\ <<l.request.press, 3 - l.request.try>> \notin DOMAIN done
        /\ k.request.try \in 1..2
    BY <1>1, <2>1 DEF ReceiptsAre, KeyOf
  <2>3. l.request.try = k.request.try
    BY <1>4, <2>1, <2>2 DEF KeyOf
  <2>4. KeyOf(l.request) = KeyOf(k.request)
    BY <1>4, <2>3 DEF KeyOf
  <2> QED
    BY <1>1, <2>4 DEF ReceiptsAre
<1> QED
  BY <1>3, <1>4 DEF LandsOnce

LEMMA PageGoesOn == PageInv /\ [PageNext]_pageVars => [NeverGoesBack]_pageVars
<1> SUFFICES ASSUME PageInv, PageNext PROVE NeverGoesBack
  BY DEF pageVars, serverVars, shownVars
<1>1. UNCHANGED view \/ view' = NoView => NeverGoesBack
  BY DEF NeverGoesBack
<1>2. ASSUME NEW p \in Presses, HearsOk(p) \/ Recovers(p) PROVE NeverGoesBack
  BY <1>2, HearsOkKeeps, RecoversKeeps DEF NeverGoesBack
<1>3. CASE LoadShows
  BY <1>3, LoadShowsKeeps DEF NeverGoesBack
<1>4. CASE AnotherMoves \/ LoadBegins \/ LoadAnswered \/ LoadFails \/ ClosePage
  BY <1>1, <1>4 DEF AnotherMoves, LoadBegins, LoadAnswered, LoadFails, ClosePage, shownVars
<1>5. CASE TypeAnswer \/ TickBox \/ TurnToEditing \/ Press
  BY <1>1, <1>5 DEF TypeAnswer, TickBox, TurnToEditing, Press, shownVars
<1>6. ASSUME NEW p \in Presses, ServerAnswers(p) \/ NetworkFails(p) \/ HearsConflict(p) \/ ReloadAnswered(p) \/ ReloadFails(p)
      PROVE  NeverGoesBack
  BY <1>1, <1>6 DEF ServerAnswers, NetworkFails, HearsConflict, ReloadAnswered, ReloadFails, shownVars
<1> QED
  BY <1>2, <1>3, <1>4, <1>5, <1>6 DEF PageNext

(* The intake page, whatever the network, the other pages and the people   *)
(* in front of it do, and whenever its language is switched: an answer     *)
(* lands under the question it was typed for or nowhere, a press takes     *)
(* effect at most once however often it is sent, and what is put on an     *)
(* open page is never older than what it showed when that was asked for.   *)
THEOREM PageThm == PageSpec => PageSound
<1>1. PageInv /\ [PageNext]_pageVars => [NeverGoesBack]_pageVars
  BY PageGoesOn
<1>2. PageInv => PageTypeOK /\ AnswersFit /\ LandsOnce
  BY PageInvTypes, PageInvSound
<1> QED
  BY <1>1, <1>2, PageStarts, PageStepKeeps, PTL DEF PageSpec, PageSound

=============================================================================
