----------------------------- MODULE PageIntake ------------------------------
(***************************************************************************)
(* The intake page of the web client (hooks/useProblemIntake.ts,           *)
(* components/RunStartForm.tsx) against a session that other pages move.   *)
(* The page holds a view of the session and a sheet of answers, repeats a  *)
(* request whose answer the network lost under the same key                *)
(* (api/httpClient.ts), and after a refusal loads the session again,       *)
(* carries the answers over and sends the command once more.               *)
(*                                                                         *)
(* It sends a command while it is not busy.  What it loads and what it     *)
(* sends share that one flag, and it loads the session again when the      *)
(* language of the interface changes: the load that ends first lets the    *)
(* user press while a command is under way, and the answer that comes last *)
(* is the one that is shown.                                               *)
(*                                                                         *)
(* A question is the revision that asked it: zero is no question.  An      *)
(* answer is the question it was typed for: zero is a blank.  The session  *)
(* is that of module IntakeSession as far as a page can tell.              *)
(***************************************************************************)
EXTENDS Naturals, Sequences

CONSTANTS Decisions,
          MaxMoves, MaxPresses,
          MaxLosses  \* bounds: revisions, commands, faults of the network and loads of what is shown

ASSUME PageAssumption == MaxMoves \in Nat \ {0} /\ {MaxPresses, MaxLosses} \subseteq Nat

VARIABLES
    srv,      \* the session of the server
    done,     \* what each key that landed was answered with
    inbox,    \* of each press, its requests under way in the order they were sent
    view,     \* session: what the page shows
    sheet,    \* answers: what is typed under each question
    ticked,   \* confirmed: the revision whose box is ticked, or 0
    editing,  \* correctionMode
    busy,     \* intakeBusy
    acts,     \* of each press, the command under way
    load,     \* the load of the session that is under way
    presses, losses,
    landedFor \* the requests that took effect, with what was asked then

serverVars == <<srv, done, landedFor>>
shownVars == <<view, sheet, ticked, editing>>
pageVars == <<serverVars, inbox, shownVars, busy, acts, load, presses, losses>>

Blank == [d \in Decisions |-> 0]
NoSheet == [d \in Decisions |-> [question |-> 0, typed |-> 0]]
Statuses == {"active", "convergence_required", "candidate_ready", "confirmed", "cancelled"}
PageViews == [rev : 0..MaxMoves, status : Statuses, asks : [Decisions -> 0..MaxMoves], held : [Decisions -> 0..MaxMoves]]
NoView == [rev |-> 0, status |-> "cancelled", asks |-> Blank, held |-> Blank]
Presses == 1..MaxPresses

Asked(v) == {d \in Decisions : v.asks[d] # 0}
Asks(v) == v.status \in {"active", "convergence_required"}

\* since: the revision that was shown when the answer now awaited was asked for; got: that answer
NoAct == [at |-> "rest", kind |-> "none", try |-> 1, copy |-> 1, replies |-> Blank, from |-> NoView,
          since |-> 0, got |-> NoView]
NoLoad == [at |-> "rest", since |-> 0, got |-> NoView]
NoActs == [p \in Presses |-> NoAct]

(* A request has the key of its press and try, and the revision it is for. *)
RequestOf(p, a) == [press |-> p, try |-> a.try, copy |-> a.copy, kind |-> a.kind,
                    base |-> a.from.rev, replies |-> a.replies]
KeyOf(m) == <<m.press, m.try>>

-----------------------------------------------------------------------------
(* The session.                                                            *)

(* A round, or its correction, leaves new questions or none; replacing the *)
(* thread changes nothing but the revision.                                *)
Outcomes(s) ==
    [rev : {s.rev + 1}, status : {"active", "convergence_required", "candidate_ready"},
     asks : [Decisions -> {0, s.rev + 1}], held : {Blank}]
Fit(t) == Asked(t) = {} <=> t.status = "candidate_ready"
Rounds(s) == {t \in Outcomes(s) : Fit(t)}
Ended(s, status) == [s EXCEPT !.rev = @ + 1, !.status = status, !.asks = Blank, !.held = Blank]

(* What a command makes of a session that takes it: submit_round, finalize,*)
(* confirm, cancel.                                                        *)
Effects(m, s) ==
    IF m.kind = "round" /\ s.status = "active" /\ Asked(s) \subseteq {d \in Decisions : m.replies[d] # 0} THEN Rounds(s)
    ELSE IF m.kind = "correction" /\ s.status = "candidate_ready" THEN Rounds(s)
    ELSE IF m.kind = "finalize" /\ s.status = "convergence_required" THEN {Ended(s, "candidate_ready")}
    ELSE IF m.kind = "confirm" /\ s.status = "candidate_ready" THEN {Ended(s, "confirmed")}
    ELSE IF m.kind = "cancel" /\ s.status \notin {"confirmed", "cancelled"} THEN {Ended(s, "cancelled")}
    ELSE {}

(* Another page, or a command of the API, got there first.                 *)
AnotherMoves ==
    /\ srv.rev < MaxMoves /\ srv.status \notin {"confirmed", "cancelled"}
    /\ srv' \in Rounds(srv) \cup {[srv EXCEPT !.rev = @ + 1, !.held = Blank]}
                 \cup (IF srv.status = "candidate_ready" THEN {Ended(srv, "confirmed")} ELSE {})
    /\ UNCHANGED <<done, inbox, shownVars, busy, acts, load, presses, losses, landedFor>>

ActIs(p, a) == acts' = [acts EXCEPT ![p] = a]

(* The page hears of the answer if this is the request it waits for.       *)
Awaited(p, m) == acts[p].at = "wait" /\ m = RequestOf(p, acts[p])
Answer(p, m, result, v) ==
    ActIs(p, IF Awaited(p, m) THEN [acts[p] EXCEPT !.at = result, !.got = v] ELSE acts[p])

(* The server takes one command at a time, of whichever press.  It is      *)
(* answered from its receipt, is applied, or is refused: its revision is   *)
(* stale, it does not fit, or its round fails, and its answers are then    *)
(* held.                                                                   *)
ServerAnswers(p) ==
    /\ inbox[p] # <<>> /\ inbox' = [inbox EXCEPT ![p] = Tail(@)]
    /\ LET m == Head(inbox[p]) IN
          \/ /\ KeyOf(m) \in DOMAIN done
             /\ Answer(p, m, "ok", done[KeyOf(m)]) /\ UNCHANGED serverVars
          \/ /\ KeyOf(m) \notin DOMAIN done /\ m.base = srv.rev /\ srv.rev < MaxMoves
             /\ \E next \in Effects(m, srv) :
                   /\ srv' = next
                   /\ done' = [k \in DOMAIN done \cup {KeyOf(m)} |-> IF k = KeyOf(m) THEN next ELSE done[k]]
                   /\ landedFor' = landedFor \cup {[request |-> m, asked |-> srv.asks]}
                   /\ Answer(p, m, "ok", next)
          \/ /\ KeyOf(m) \notin DOMAIN done /\ (m.base # srv.rev \/ Effects(m, srv) = {})
             /\ Answer(p, m, "refused", NoView) /\ UNCHANGED serverVars
          \/ /\ KeyOf(m) \notin DOMAIN done /\ m.base = srv.rev /\ Effects(m, srv) # {}
             /\ m.kind \in {"round", "finalize", "correction"}
             /\ srv' = [srv EXCEPT !.held = m.replies]
             /\ Answer(p, m, "refused", NoView) /\ UNCHANGED <<done, landedFor>>
    /\ UNCHANGED <<shownVars, busy, load, presses, losses>>

-----------------------------------------------------------------------------
(* The page.                                                               *)

(* The effect after a new view: an answer stays on its question, a blank   *)
(* one takes what the server holds.                                        *)
Reseeded(v, s) ==
    [d \in Decisions |->
        IF v.asks[d] = 0 THEN [question |-> 0, typed |-> 0]
        ELSE IF s[d].question = v.asks[d] THEN s[d]
        ELSE [question |-> v.asks[d], typed |-> v.held[d]]]

Shows(v, s) ==
    /\ view' = v /\ sheet' = Reseeded(v, s)
    /\ ticked' = IF v.status = "confirmed" THEN v.rev ELSE 0

(* remapAnswers: an answer survives on the same question only.             *)
RemappedLoose(v, a) ==
    [d \in Decisions |->
        IF v.asks[d] # 0 /\ a.replies[d] # 0 THEN [question |-> v.asks[d], typed |-> a.replies[d]]
        ELSE [question |-> v.asks[d], typed |-> 0]]
Remapped(v, a) ==
    [d \in Decisions |->
        IF v.asks[d] # 0 /\ a.from.asks[d] = v.asks[d] THEN [question |-> v.asks[d], typed |-> a.replies[d]]
        ELSE [question |-> v.asks[d], typed |-> 0]]

Typed(s) == [d \in Decisions |-> s[d].typed]
Complete(v, s) == Asked(v) # {} /\ \A d \in Asked(v) : s[d].typed # 0
AllAnswered == \A d \in Asked(view) : sheet[d].typed # 0

(* The load effect: it runs when a page is opened on the session, and again*)
(* when the language is switched.  The load before it is forgotten.        *)
LoadBegins ==
    /\ \/ view = NoView /\ load = NoLoad /\ acts = NoActs /\ UNCHANGED losses
       \/ losses < MaxLosses /\ losses' = losses + 1
    /\ load' = [at |-> "asked", since |-> view.rev, got |-> NoView] /\ busy' = TRUE
    /\ UNCHANGED <<serverVars, inbox, shownVars, acts, presses>>

LoadAnswered ==
    /\ load.at = "asked" /\ load' = [load EXCEPT !.at = "answered", !.got = srv]
    /\ UNCHANGED <<serverVars, inbox, shownVars, busy, acts, presses, losses>>

(* It does not ask what else is under way.                                 *)
LoadShows ==
    /\ load.at = "answered" /\ Shows(load.got, sheet)
    /\ load' = NoLoad /\ busy' = FALSE
    /\ UNCHANGED <<serverVars, inbox, editing, acts, presses, losses>>

\* A load that fails, and one whose page went to another address: that one leaves the flag as it is.
LoadFails ==
    /\ load.at # "rest" /\ losses < MaxLosses /\ losses' = losses + 1
    /\ load' = NoLoad /\ busy' \in {FALSE, busy}
    /\ UNCHANGED <<serverVars, inbox, shownVars, acts, presses>>

(* The tab is closed, or loaded again, at any time.                        *)
ClosePage ==
    /\ view # NoView /\ losses < MaxLosses /\ losses' = losses + 1
    /\ view' = NoView /\ sheet' = NoSheet /\ ticked' = 0 /\ editing' = FALSE
    /\ acts' = NoActs /\ load' = NoLoad /\ busy' = FALSE
    /\ UNCHANGED <<serverVars, inbox, presses>>

(* The questions take input while a command is under way as well.          *)
TypeAnswer ==
    /\ Asks(view) /\ ~editing
    /\ \E d \in Asked(view) :
          sheet' = [sheet EXCEPT ![d].typed = IF @ = 0 THEN view.asks[d] ELSE 0]
    /\ UNCHANGED <<serverVars, inbox, view, ticked, editing, busy, acts, load, presses, losses>>

TickBox ==
    /\ view.status = "candidate_ready" /\ ~editing
    /\ ticked' = IF ticked = 0 THEN view.rev ELSE 0
    /\ UNCHANGED <<serverVars, inbox, view, sheet, editing, busy, acts, load, presses, losses>>

(* "Continue editing" and "back" are never disabled.                       *)
TurnToEditing ==
    /\ \/ ~editing /\ view.status = "candidate_ready"
       \/ editing /\ view # NoView
    /\ editing' = ~editing
    /\ UNCHANGED <<serverVars, inbox, view, sheet, ticked, busy, acts, load, presses, losses>>

(* Which button can be pressed?                                            *)
Buttons ==
    {kind \in {"round", "finalize", "correction", "confirm", "cancel"} :
        /\ view # NoView /\ editing = (kind = "correction")
        /\ kind = "cancel" => Asks(view)
        /\ kind = "round" => view.status = "active" /\ AllAnswered
        /\ kind = "finalize" => view.status = "convergence_required" /\ AllAnswered
        /\ kind = "correction" => view.status # "convergence_required"
        /\ kind = "confirm" => view.status = "candidate_ready" /\ ticked # 0}

Sends(p, a, behind) == ActIs(p, a) /\ inbox' = [inbox EXCEPT ![p] = Append(behind, RequestOf(p, a))]

(* runBusy asks whether the page is busy, not what with.                   *)
Press ==
    /\ ~busy /\ presses < MaxPresses
    /\ presses' = presses + 1 /\ busy' = TRUE
    /\ \E kind \in Buttons :
          Sends(presses', [NoAct EXCEPT !.at = "wait", !.kind = kind, !.from = view, !.since = view.rev,
                               !.replies = IF kind \in {"round", "finalize"} THEN Typed(sheet) ELSE Blank], <<>>)
    /\ UNCHANGED <<serverVars, shownVars, load, losses>>

(* The command is over, and so is the page's being busy.                   *)
ActEnds(p) == ActIs(p, NoAct) /\ busy' = FALSE

(* What is left under way without the request awaited: it was sent last.   *)
WithoutAwaited(p) ==
    LET sent == inbox[p]
    IN  IF sent # <<>> /\ Awaited(p, sent[Len(sent)]) THEN SubSeq(sent, 1, Len(sent) - 1) ELSE sent

(* #requestJson: a request the network loses, or whose answer it loses, is *)
(* repeated once under the same key; it may still arrive.                  *)
NetworkFails(p) ==
    /\ acts[p].at \in {"wait", "ok", "refused"} /\ losses < MaxLosses /\ losses' = losses + 1
    /\ \E left \in {inbox[p], WithoutAwaited(p)} :
         IF acts[p].copy = 1
         THEN Sends(p, [acts[p] EXCEPT !.at = "wait", !.copy = 2, !.got = NoView], left) /\ UNCHANGED busy
         ELSE ActEnds(p) /\ inbox' = [inbox EXCEPT ![p] = left]
    /\ UNCHANGED <<serverVars, shownVars, load, presses>>

(* A cancel leaves no session on the page, nor a load of it.               *)
HearsOk(p) ==
    /\ acts[p].at = "ok" /\ ActEnds(p)
    /\ IF acts[p].kind = "cancel"
       THEN view' = NoView /\ ticked' = 0 /\ sheet' = NoSheet /\ load' = NoLoad
       ELSE Shows(acts[p].got, sheet) /\ UNCHANGED load
    /\ editing' = (editing /\ acts[p].kind \notin {"correction", "cancel"})
    /\ UNCHANGED <<serverVars, inbox, presses, losses>>

(* Only a first refusal is recovered from, and a cancel never is.          *)
HearsConflict(p) ==
    /\ acts[p].at = "refused"
    /\ IF acts[p].try = 1 /\ acts[p].kind # "cancel"
       THEN ActIs(p, [acts[p] EXCEPT !.at = "reload", !.since = view.rev]) /\ UNCHANGED busy
       ELSE ActEnds(p)
    /\ UNCHANGED <<serverVars, inbox, shownVars, load, presses, losses>>

(* reloadForRecovery.                                                      *)
ReloadAnswered(p) ==
    /\ acts[p].at = "reload" /\ ActIs(p, [acts[p] EXCEPT !.at = "reloaded", !.got = srv])
    /\ UNCHANGED <<serverVars, inbox, shownVars, busy, load, presses, losses>>

RevisionMoved(v, a) == v.rev # a.from.rev

(* Is the command worth sending again?                                     *)
AnswersAgain(v, a, s) == RevisionMoved(v, a) /\ v.status = a.from.status /\ Complete(v, s)
CorrectsAgain(v, a) == RevisionMoved(v, a) /\ v.status = a.from.status
ConfirmsAgain(v) == v.status = "candidate_ready"

SendAgain(v, a, s) ==
    \/ a.kind \in {"round", "finalize"} /\ AnswersAgain(v, a, s)
    \/ a.kind = "correction" /\ CorrectsAgain(v, a)
    \/ a.kind = "confirm" /\ ConfirmsAgain(v)

(* What follows the reload.                                                *)
Recovers(p) ==
    /\ acts[p].at = "reloaded"
    /\ LET a == acts[p]
           answers == a.kind \in {"round", "finalize"}
           carried == IF answers THEN Remapped(a.got, a) ELSE sheet
       IN  /\ Shows(a.got, carried)
           /\ IF SendAgain(a.got, a, carried)
              THEN /\ Sends(p, [a EXCEPT !.at = "wait", !.try = 2, !.copy = 1, !.from = a.got, !.since = a.got.rev,
                                    !.got = NoView, !.replies = IF answers THEN Typed(carried) ELSE Blank], inbox[p])
                   /\ UNCHANGED busy
              ELSE ActEnds(p) /\ UNCHANGED inbox
    /\ UNCHANGED <<serverVars, editing, load, presses, losses>>

ReloadFails(p) ==
    /\ acts[p].at \in {"reload", "reloaded"} /\ losses < MaxLosses /\ losses' = losses + 1
    /\ ActEnds(p)
    /\ UNCHANGED <<serverVars, inbox, shownVars, load, presses>>

-----------------------------------------------------------------------------
PageInit ==
    /\ srv \in {[rev |-> 1, status |-> "active", asks |-> asks, held |-> Blank] : asks \in [Decisions -> {0, 1}] \ {Blank}}
    /\ done = <<>> /\ landedFor = {} /\ inbox = [p \in Presses |-> <<>>]
    /\ view = NoView /\ sheet = NoSheet /\ ticked = 0 /\ editing = FALSE /\ busy = FALSE
    /\ acts = NoActs /\ load = NoLoad /\ presses = 0 /\ losses = 0

PageNext ==
    \/ AnotherMoves
    \/ LoadBegins \/ LoadAnswered \/ LoadShows \/ LoadFails
    \/ ClosePage \/ TypeAnswer \/ TickBox \/ TurnToEditing \/ Press
    \/ \E p \in Presses :
          \/ ServerAnswers(p) \/ NetworkFails(p) \/ HearsOk(p) \/ HearsConflict(p)
          \/ ReloadAnswered(p) \/ Recovers(p) \/ ReloadFails(p)

PageSpec == PageInit /\ [][PageNext]_pageVars

-----------------------------------------------------------------------------
(* Properties. *)

PageTypeOK ==
    /\ srv \in PageViews /\ view \in PageViews \cup {NoView}
    /\ sheet \in [Decisions -> [question : 0..MaxMoves, typed : 0..MaxMoves]]
    /\ ticked \in 0..MaxMoves /\ editing \in BOOLEAN
    /\ busy \in BOOLEAN /\ load.at \in {"rest", "asked", "answered"}
    /\ \A p \in Presses :
          /\ acts[p].at \in {"rest", "wait", "ok", "refused", "reload", "reloaded"}
          /\ acts[p].try \in 1..2 /\ acts[p].copy \in 1..2 /\ (acts[p] # NoAct \/ inbox[p] # <<>> => p <= presses)

(* The wire names no question, so that nothing but the page keeps an       *)
(* answer from landing under a question it was not typed for: the decision *)
(* may have been asked again while it was under way.                       *)
AnswersFit ==
    /\ \A l \in landedFor : \A d \in Decisions : l.request.replies[d] \in {0, l.asked[d]}
    /\ \A d \in Decisions : sheet[d].question = view.asks[d] /\ sheet[d].typed \in {0, view.asks[d]}

(* A press takes effect once, though it may be sent four times.            *)
LandsOnce ==
    \A l, k \in landedFor : l.request.press = k.request.press => l = k

(* An open page takes over the answer that comes last, which may be older  *)
(* than what an answer in between has put there; it is never older than    *)
(* what was shown when it was asked for, so that a page with one thing     *)
(* under way never goes back to an earlier session.                        *)
NeverGoesBack ==
    view # NoView /\ view' # NoView /\ view' # view =>
        \/ load' # load /\ load.since <= view'.rev
        \/ \E p \in Presses : acts'[p] # acts[p] /\ acts[p].since <= view'.rev

(* The page takes over nobody's answers, repeats nobody's command, and     *)
(* follows the session.                                                    *)
PageSound == [](PageTypeOK /\ AnswersFit /\ LandsOnce) /\ [][NeverGoesBack]_pageVars

=============================================================================
