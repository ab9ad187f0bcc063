---------------------------- MODULE WriterSessions ----------------------------
(***************************************************************************)
(* Which provider thread carries which branch.  A Writer answers on a      *)
(* thread of the App Server, and the thread remembers: a turn must only be *)
(* started on a thread whose history is the route of its branch.  The      *)
(* orchestrator keeps in the control store the session of each branch and  *)
(* the operation behind each step; the runtime keeps, in memory, who owns  *)
(* a thread and what it was bound to; a branch changes its thread when it  *)
(* is forked, rehydrated after a restart, or rotated before its history    *)
(* grows too long.  After a restart the service registers the sessions of  *)
(* the control store with a new runtime.                                   *)
(*                                                                         *)
(* A history holds the steps a thread was told of or wrote: turns that     *)
(* left no step are not in it.  A step wants at most one alternative.      *)
(* Record 1.1: a call without a provider handle is never given up.         *)
(***************************************************************************)
EXTENDS Naturals, Sequences

CONSTANTS
    Branch, Step, WriterThread, \* the identifiers there are, in the order they are handed out
    Nobody, Unclaimed,      \* nobody, nothing; the owner of a fresh thread
    Shared,               \* one App Server for several runs: thread/read needs a thread of this run
    Preserve              \* preserve_provider_handles_on_start

ASSUME SessionsAssumption ==
    /\ Branch \cup Step \cup WriterThread \subseteq Nat
    /\ Nobody \notin Branch \cup WriterThread /\ Unclaimed \notin Branch \cup {Nobody}
    /\ {Shared, Preserve} \subseteq BOOLEAN

VARIABLES
    route,    \* Record: the steps of each branch
    status,   \* Record: unborn, active, paused or closed (parked, complete, killed)
    decision, \* Record: what the Writer of a step decided, "none" before it is sealed
    by,       \* Record: the branch a step was sealed on
    forked,   \* Record: the steps whose alternative has a branch
    again,    \* Record: the branches whose next slot has had a call before
    session,  \* control: the provider session of each branch
    mark,     \* control: the thread and turn of each step
    threads,  \* provider: the threads there are
    history,  \* provider: what each of them carries
    loaded,   \* runtime: _thread_roles, the threads it started or resumed
    threadOwner,    \* runtime: _thread_owners
    bound,    \* runtime: _branch_writer_sessions
    output,   \* runtime: how it knows the output of a step, live or recovered
    live,     \* orchestrator: _provider_handles_live
    turn,     \* the driver and the call it makes
    error,    \* what ended the run: none, owner or fork
    unbooked  \* a crash fell between the handle of a first turn and its branch

recordVars   == <<route, status, decision, by, forked, again>>
runtimeTables == <<loaded, threadOwner, bound, output>>
sessionVars  == <<recordVars, session, mark, threads, history, runtimeTables, live, turn, error, unbooked>>

Stage == {"idle", "forked", "child", "tried", "called", "ready", "started", "attached", "running",
          "answered", "recover", "recovered", "unsealed", "sealed", "marked", "resting", "stuck"}

Do(stage, b, t) == [at |-> stage, branch |-> b, thread |-> t, anchor |-> 0]
NoTurn == Do("idle", Nobody, Nobody)

SessionsTypeOK ==
    /\ route \in [Branch -> Seq(Step)]
    /\ status \in [Branch -> {"unborn", "active", "paused", "closed"}]
    /\ decision \in [Step -> {"none", "go", "fork", "complete", "revise", "human"}]
    /\ by \in [Step -> Branch \cup {Nobody}]
    /\ forked \subseteq Step /\ again \subseteq Branch
    /\ session \in [Branch -> WriterThread \cup {Nobody}]
    /\ mark \in [Step -> [thread : WriterThread \cup {Nobody}, turn : Nat]]
    /\ threads \subseteq WriterThread /\ history \in [WriterThread -> Seq(Step)]
    /\ loaded \subseteq threads
    /\ threadOwner \in [WriterThread -> Branch \cup {Nobody, Unclaimed}]
    /\ bound \in [Branch -> WriterThread \cup {Nobody}]
    /\ output \in [Step -> {"none", "live", "recovered"}]
    /\ live \in BOOLEAN /\ unbooked \in BOOLEAN /\ error \in {"none", "owner", "fork"}
    /\ turn \in [at : Stage, branch : Branch \cup {Nobody}, thread : WriterThread \cup {Nobody}, anchor : Nat]

Unmarked == [thread |-> Nobody, turn |-> 0]
Least(S) == {x \in S : \A y \in S : x <= y}

SessionsInit ==
    /\ route = [b \in Branch |-> <<>>]
    /\ \E root \in Least(Branch) : status = [[b \in Branch |-> "unborn"] EXCEPT ![root] = "active"]
    /\ decision = [s \in Step |-> "none"] /\ by = [s \in Step |-> Nobody]
    /\ forked = {} /\ again = {}
    /\ session = [b \in Branch |-> Nobody] /\ mark = [s \in Step |-> Unmarked]
    /\ threads = {} /\ history = [t \in WriterThread |-> <<>>]
    /\ loaded = {} /\ threadOwner = [t \in WriterThread |-> Nobody] /\ bound = [b \in Branch |-> Nobody]
    /\ output = [s \in Step |-> "none"]
    /\ live = TRUE /\ turn = NoTurn /\ error = "none" /\ unbooked = FALSE

-----------------------------------------------------------------------------
(* What the driver reads.                                                  *)

NextBranch == Least({b \in Branch : status[b] = "unborn"})
NextStep   == Least({s \in Step : decision[s] = "none"})
NextThread == Least(WriterThread \ threads)
Open(b)  == status[b] \in {"active", "paused"}

\* The driver always advances the oldest active branch.
IsFront(b) == status[b] = "active" /\ \A c \in Branch : status[c] = "active" => b <= c

FirstOf(q, n) == SubSeq(q, 1, n)
Tip(b) == route[b][Len(route[b])]
WroteTip(b) == route[b] # <<>> /\ by[Tip(b)] = b
WantsFork(b) == WroteTip(b) /\ decision[Tip(b)] = "fork" /\ Tip(b) \notin forked

\* A new thread, what it knows when it opens, and whose it is.
Opens(t, steps, who) ==
    /\ threads' = threads \cup {t}
    /\ history' = [history EXCEPT ![t] = steps]
    /\ loaded' = loaded \cup {t}
    /\ threadOwner' = [threadOwner EXCEPT ![t] = who]

\* rebind_branch_writer_session; a mutant never announces the move.
ReboundLate(b, t) == bound
Rebound(b, t) == [bound EXCEPT ![b] = t]

-----------------------------------------------------------------------------
(* The alternative of a fork step gets a branch, on a thread forked after  *)
(* that step or on a fresh one that is told the route.                     *)

Forking(b) == turn.at = "idle" /\ IsFront(b) /\ WantsFork(b)
HasBookmark(s) == live /\ mark[s].thread # Nobody

\* The runtime can read the thread of a step it would fork.
Readable(s) == HasBookmark(s) /\ (Shared => mark[s].thread \in loaded)

\* The runtime answers for the turn it would fork after.
Vouched(s) ==
    \/ output[s] = "live" /\ threadOwner[mark[s].thread] = by[s]
    \/ output[s] = "recovered" /\ threadOwner[mark[s].thread] \in Branch

ForkMade(b, t, n) == turn' = [Do("forked", b, t) EXCEPT !.anchor = n]

ForksNatively(b) ==
    /\ Forking(b) /\ Readable(Tip(b)) /\ Vouched(Tip(b))
    /\ LET m == mark[Tip(b)] IN
       \E t \in NextThread : Opens(t, FirstOf(history[m.thread], m.turn), Unclaimed) /\ ForkMade(b, t, Len(route[b]))
    /\ UNCHANGED <<recordVars, session, mark, bound, output, live, error, unbooked>>

\* A branch, or a direction, that has no live thread behind its step.
Rehydrated(b, n) ==
    /\ \E t \in NextThread : Opens(t, FirstOf(route[b], n), Unclaimed) /\ ForkMade(b, t, n)
    /\ live' = TRUE
    /\ UNCHANGED <<recordVars, session, mark, bound, output, error, unbooked>>

ForksAnew(b) == Forking(b) /\ ~HasBookmark(Tip(b)) /\ Rehydrated(b, Len(route[b]))

\* The provider refuses, or the session does not own the thread: suppressed.
ForkSuppressed(b) ==
    /\ Forking(b) /\ turn' = Do("tried", b, Nobody)
    /\ UNCHANGED <<recordVars, session, mark, threads, history, runtimeTables, live, error, unbooked>>

\* The runtime itself refuses, and that is not caught.
ForkRaises(b) ==
    /\ Forking(b) /\ Readable(Tip(b)) /\ ~Vouched(Tip(b))
    /\ error' = IF output[Tip(b)] = "none" THEN "fork" ELSE "owner"
    /\ UNCHANGED <<recordVars, session, mark, threads, history, runtimeTables, live, turn, unbooked>>

ChildCreated ==
    /\ turn.at = "forked"
    /\ \E c \in NextBranch :
         /\ route' = [route EXCEPT ![c] = FirstOf(route[turn.branch], turn.anchor)]
         /\ status' = [status EXCEPT ![c] = "active"]
         /\ turn' = Do("child", c, turn.thread)
    /\ forked' = IF status[turn.branch] = "active" THEN forked \cup {Tip(turn.branch)} ELSE forked
    /\ UNCHANGED <<decision, by, again, session, mark, threads, history, runtimeTables, live, error, unbooked>>

ChildBooked ==
    /\ turn.at = "child"
    /\ session' = [session EXCEPT ![turn.branch] = turn.thread] /\ turn' = NoTurn
    /\ UNCHANGED <<recordVars, mark, threads, history, runtimeTables, live, error, unbooked>>

-----------------------------------------------------------------------------
(* A turn of the Writer.                                                   *)

WriterCalled(b) ==
    /\ \/ turn.at = "idle" /\ IsFront(b) /\ ~WantsFork(b)
       \/ turn.at = "tried" /\ turn.branch = b
    /\ turn' = Do("called", b, Nobody)
    /\ UNCHANGED <<recordVars, session, mark, threads, history, runtimeTables, live, error, unbooked>>

\* _writer_session: the bookmarked thread ...
SessionReused ==
    /\ turn.at = "called" /\ live /\ session[turn.branch] # Nobody
    /\ turn' = Do("ready", turn.branch, session[turn.branch])
    /\ UNCHANGED <<recordVars, session, mark, threads, history, runtimeTables, live, error, unbooked>>

\* ... a fresh one that is told the route, to rotate the context or for want of a thread ...
SessionRehydrated ==
    /\ turn.at = "called" /\ (route[turn.branch] # <<>> \/ turn.branch \in again)
    /\ \E t \in NextThread : LET b == turn.branch IN
         /\ Opens(t, route[b], b) /\ bound' = Rebound(b, t)
         /\ session' = [session EXCEPT ![b] = t]
         /\ turn' = Do("ready", b, t)
    /\ live' = TRUE
    /\ UNCHANGED <<recordVars, mark, output, error, unbooked>>

\* ... or none: the first turn of the root opens its own.
SessionLeftOpen ==
    /\ turn.at = "called" /\ route[turn.branch] = <<>> /\ turn.branch \notin again
    /\ ~live \/ session[turn.branch] = Nobody
    /\ turn' = Do("ready", turn.branch, Nobody)
    /\ UNCHANGED <<recordVars, session, mark, threads, history, runtimeTables, live, error, unbooked>>

\* _ensure_writer_session.
Accepts(t, b) ==
    /\ bound[b] \in {Nobody, t}
    /\ IF t \in loaded THEN threadOwner[t] = b \/ (threadOwner[t] = Unclaimed /\ bound[b] = Nobody)
                       ELSE threadOwner[t] = b /\ bound[b] = t

TurnStarts ==
    /\ turn.at = "ready" /\ turn.thread # Nobody /\ Accepts(turn.thread, turn.branch)
    /\ loaded' = loaded \cup {turn.thread}
    /\ threadOwner' = [threadOwner EXCEPT ![turn.thread] = turn.branch]
    /\ bound' = [bound EXCEPT ![turn.branch] = turn.thread]
    /\ turn' = [turn EXCEPT !.at = "started"]
    /\ UNCHANGED <<recordVars, session, mark, threads, history, output, live, error, unbooked>>

FirstTurnStarts ==
    /\ turn.at = "ready" /\ turn.thread = Nobody /\ bound[turn.branch] = Nobody
    /\ \E t \in NextThread :
         /\ Opens(t, <<>>, turn.branch)
         /\ bound' = [bound EXCEPT ![turn.branch] = t]
         /\ turn' = Do("started", turn.branch, t)
    /\ UNCHANGED <<recordVars, session, mark, output, live, error, unbooked>>

TurnRaises ==
    /\ turn.at = "ready"
    /\ IF turn.thread = Nobody THEN bound[turn.branch] # Nobody ELSE ~Accepts(turn.thread, turn.branch)
    /\ error' = "owner"
    /\ UNCHANGED <<recordVars, session, mark, threads, history, runtimeTables, live, turn, unbooked>>

HandleAttached ==
    /\ turn.at = "started" /\ turn' = [turn EXCEPT !.at = "attached"]
    /\ UNCHANGED <<recordVars, session, mark, threads, history, runtimeTables, live, error, unbooked>>

BranchBooked ==
    /\ turn.at = "attached" /\ turn' = [turn EXCEPT !.at = "running"]
    /\ session' = [session EXCEPT ![turn.branch] = turn.thread]
    /\ UNCHANGED <<recordVars, mark, threads, history, runtimeTables, live, error, unbooked>>

TurnAnswers ==
    /\ turn.at \in {"running", "recover"}
    /\ turn' = [turn EXCEPT !.at = IF turn.at = "running" THEN "answered" ELSE "recovered"]
    /\ loaded' = loaded \cup {turn.thread}
    /\ UNCHANGED <<recordVars, session, mark, threads, history, threadOwner, bound, output, live, error, unbooked>>

\* The slot is to be written again, unless the branch is paused with it.
TurnFails ==
    /\ turn.at \in {"called", "ready", "started", "running", "recover"}
    /\ again' = again \cup {turn.branch}
    /\ \E after \in {"active", "paused"} : status' = [status EXCEPT ![turn.branch] = after]
    /\ loaded' \in {loaded, IF turn.at \in {"ready", "recover"} /\ turn.thread \in threads THEN loaded \cup {turn.thread} ELSE loaded}
    /\ turn' = NoTurn
    /\ UNCHANGED <<route, decision, by, forked, session, mark, threads, history, threadOwner, bound, output, live, error, unbooked>>

-----------------------------------------------------------------------------
(* What becomes of an answer.                                              *)

HasAnswer == turn.at \in {"answered", "recovered", "unsealed"}

\* The gate rejects it or the revision is deferred; or a complete route is left as it is.
NothingSealed ==
    /\ HasAnswer
    /\ \E after \in {"active", "paused"} \cup (IF route[turn.branch] = <<>> THEN {} ELSE {"closed"}) :
          status' = [status EXCEPT ![turn.branch] = after]
    /\ again' = again \cup {turn.branch} /\ turn' = NoTurn
    /\ UNCHANGED <<route, decision, by, forked, session, mark, threads, history, runtimeTables, live, error, unbooked>>

\* A crashed process leaves the step without a bookmark.
StepSealed(d) ==
    /\ HasAnswer
    /\ \E s \in NextStep : LET b == turn.branch t == turn.thread IN
         /\ route' = [route EXCEPT ![b] = Append(@, s)]
         /\ history' = [history EXCEPT ![t] = Append(@, s)]
         /\ decision' = [decision EXCEPT ![s] = d] /\ by' = [by EXCEPT ![s] = b]
         /\ again' = again \ {b}
         /\ output' = [output EXCEPT ![s] = CASE turn.at = "answered" -> "live"
                                              [] turn.at = "recovered" -> "recovered"
                                              [] OTHER -> "none"]
         /\ turn' = IF turn.at = "unsealed" THEN NoTurn ELSE Do("sealed", b, t)
    /\ UNCHANGED <<status, forked, session, mark, threads, loaded, threadOwner, bound, live, error, unbooked>>

\* The branch a revision opens starts without a session.
Reroute(b, n, d, after) ==
    /\ \E c \in NextBranch, s \in NextStep :
         /\ route' = [route EXCEPT ![c] = Append(FirstOf(route[b], n - 1), s)]
         /\ status' = [status EXCEPT ![b] = after, ![c] = "active"]
         /\ decision' = [decision EXCEPT ![s] = d] /\ by' = [by EXCEPT ![s] = c]
    /\ turn' = NoTurn
    /\ UNCHANGED <<forked, again, session, mark, threads, history, runtimeTables, live, error, unbooked>>

Revises == HasAnswer /\ \E n \in 1 .. Len(route[turn.branch]) : Reroute(turn.branch, n, "revise", "closed")

StepMarked ==
    /\ turn.at = "sealed" /\ turn' = [turn EXCEPT !.at = "marked"]
    /\ mark' = [mark EXCEPT ![Tip(turn.branch)] = [thread |-> turn.thread, turn |-> Len(history[turn.thread])]]
    /\ UNCHANGED <<recordVars, session, threads, history, runtimeTables, live, error, unbooked>>

SessionKept ==
    /\ turn.at = "marked" /\ turn' = NoTurn
    /\ session' = [session EXCEPT ![turn.branch] = turn.thread]
    /\ UNCHANGED <<recordVars, mark, threads, history, runtimeTables, live, error, unbooked>>

-----------------------------------------------------------------------------
(* Branches end, are resumed, and are opened by the user once all is done. *)

BranchEnds(b) ==
    /\ turn.at = "idle" /\ IsFront(b) /\ WroteTip(b) /\ decision[Tip(b)] = "complete"
    /\ status' = [status EXCEPT ![b] = "closed"]
    /\ UNCHANGED <<route, decision, by, forked, again, session, mark, threads, history, runtimeTables, live, turn, error, unbooked>>

Resumes ==
    /\ turn.at = "idle" /\ \E b \in Branch : status[b] = "paused"
    /\ \A b \in Branch : status[b] # "active"
    /\ status' = [b \in Branch |-> IF status[b] = "paused" THEN "active" ELSE status[b]]
    /\ UNCHANGED <<route, decision, by, forked, again, session, mark, threads, history, runtimeTables, live, turn, error, unbooked>>

\* _release_review_terminal_runtime: the runtime is closed and its tables are gone.
Rests ==
    /\ turn.at = "idle" /\ \A b \in Branch : ~Open(b)
    /\ turn' = Do("resting", Nobody, Nobody) /\ live' = FALSE
    /\ loaded' = {} /\ threadOwner' = [t \in WriterThread |-> Nobody]
    /\ bound' = [b \in Branch |-> Nobody] /\ output' = [s \in Step |-> "none"]
    /\ UNCHANGED <<recordVars, session, mark, threads, history, error, unbooked>>

Directs(b, n) == turn.at = "resting" /\ Rehydrated(b, n)
HumanRevises(b, n) == turn.at = "resting" /\ Reroute(b, n, "human", status[b])

-----------------------------------------------------------------------------
(* The process dies, and the service starts again: it registers the        *)
(* sessions it finds and reconciles the call that was in flight.           *)

AfterRestart ==
    CASE turn.at = "stuck"                                      -> turn
      [] turn.at \in {"called", "ready", "started"}             -> Do("stuck", turn.branch, Nobody)
      [] turn.at \in {"attached", "running", "recover"}         ->
            IF Preserve THEN [turn EXCEPT !.at = "recover"] ELSE Do("stuck", turn.branch, Nobody)
      [] turn.at \in {"answered", "recovered", "unsealed"}      -> [turn EXCEPT !.at = "unsealed"]
      [] OTHER -> IF \E b \in Branch : Open(b) THEN NoTurn ELSE Do("resting", Nobody, Nobody)

Kept(table, nothing) == IF Preserve THEN table ELSE [x \in DOMAIN table |-> nothing]

Restarts ==
    /\ live' = (Preserve /\ \E b \in Branch : Open(b))
    /\ session' = Kept(session, Nobody) /\ mark' = Kept(mark, Unmarked)
    /\ bound' = IF live' THEN session ELSE [b \in Branch |-> Nobody]
    /\ threadOwner' = [t \in WriterThread |-> IF live' /\ \E b \in Branch : session[b] = t
                                  THEN CHOOSE b \in Branch : session[b] = t ELSE Nobody]
    /\ loaded' = {} /\ output' = [s \in Step |-> "none"]
    /\ unbooked' = (unbooked \/ (turn.at = "attached" /\ session[turn.branch] = Nobody))
    /\ turn' = IF error = "none" THEN AfterRestart ELSE turn
    /\ UNCHANGED <<recordVars, threads, history, error>>

SessionsNext ==
    \/ error = "none" /\
         \/ \E b \in Branch : \/ ForksNatively(b) \/ ForksAnew(b) \/ ForkSuppressed(b) \/ ForkRaises(b)
                              \/ WriterCalled(b) \/ BranchEnds(b)
                              \/ \E n \in 1 .. Len(route[b]) : Directs(b, n) \/ HumanRevises(b, n)
         \/ ChildCreated \/ ChildBooked
         \/ SessionReused \/ SessionRehydrated \/ SessionLeftOpen
         \/ TurnStarts \/ FirstTurnStarts \/ TurnRaises \/ HandleAttached \/ BranchBooked
         \/ TurnAnswers \/ TurnFails
         \/ NothingSealed \/ StepMarked \/ SessionKept
         \/ \E d \in {"go", "fork", "complete"} : StepSealed(d)
         \/ Revises \/ Resumes \/ Rests
    \/ Restarts

SessionsSpec == SessionsInit /\ [][SessionsNext]_sessionVars

-----------------------------------------------------------------------------
\* A running turn reads a history that is exactly the route of its branch; no
\* two branches are on one thread; and the runtime refuses a session of the
\* orchestrator only after a crash between attach_invocation and upsert_branch.
SessionsSound ==
    /\ turn.at \in {"started", "attached", "running"} => history[turn.thread] = route[turn.branch]
    /\ \A b, c \in Branch : b # c /\ session[b] # Nobody => session[b] # session[c]
    /\ error = "owner" => unbooked

=============================================================================
