----------------------------- MODULE TurnRuntime -----------------------------
(***************************************************************************)
(* The turns of one run, derivation_runtime/app_server_runtime.py: a       *)
(* router files the events of the provider under the turn they name, early *)
(* ones in a buffer; a collector waits for the end of its turn, with a     *)
(* timeout that interrupts it and asks for proof; forks restate copied     *)
(* turns on the new thread; after a restart a turn is reconciled from a    *)
(* snapshot of its thread.  "causes" notes what could explain a dead router. *)
(***************************************************************************)
EXTENDS ProviderTurns

CONSTANTS
    Threads,        \* provider threads the run starts with
    MaxRestarts,    \* bound
    MaxEarly        \* max_early_events

ASSUME RuntimeAssumption == {Threads, MaxRestarts, MaxEarly} \subseteq Nat /\ Threads <= MaxThreads

VARIABLES
    router,     \* none, running or dead
    ops,        \* _operations: what the runtime knows of each turn
    active,     \* _active_by_thread
    starting,   \* _starting_threads: 0 once it was sent, then the turn of the answer
    early,      \* _early_events
    forks,      \* _pending_forks (turn and new thread), their events, _forked_parents
    feed,       \* events the router has not taken
    col,        \* where the collector of each turn is
    snap,       \* what a snapshot told a collector or a reconciliation
    told,       \* what the caller of each turn was told last
    provider,   \* threads, the status and thread of each turn, forks it may restate
    restarts, causes

runtimeVars == <<router, ops, active, starting, early, forks, feed, col, snap, told, provider, restarts, causes>>

Told   == {"none", "running", "completed", "interrupted", "failed", "timeout", "unsure", "protocol"}
NoOp   == [known |-> FALSE, terminal |-> "none", done |-> FALSE, result |-> "none"]
NoForks == [pending |-> {}, events |-> <<>>, parent |-> [t \in Thread |-> Nil]]

RuntimeTypeOK ==
    /\ router \in {"none", "running", "dead"}
    /\ ops \in [Turn -> [known : BOOLEAN, terminal : TurnStatus, done : BOOLEAN, result : Told]]
    /\ active \in [Thread -> Turn \cup {Nil}]
    /\ starting \in [Thread -> {Nil} \cup 0 .. MaxTurns]
    /\ Len(early) <= MaxEarly
    /\ forks.pending \subseteq Turn \X Thread /\ forks.parent \in [Thread -> Thread \cup {Nil}]
    /\ col \in [Turn -> {"none", "waiting", "interrupting", "reading", "reconciling"}]
    /\ snap \in [Turn -> TurnStatus] /\ told \in [Turn -> Told]
    /\ provider.threads \in Threads .. MaxThreads /\ provider.status \in [Turn -> TurnStatus]
    /\ restarts \in 0 .. MaxRestarts
    /\ causes \subseteq {"client", "orphan", "refused"}

RuntimeInit ==
    /\ router = "none" /\ ops = [u \in Turn |-> NoOp]
    /\ active = [t \in Thread |-> Nil] /\ starting = [t \in Thread |-> Nil]
    /\ early = <<>> /\ forks = NoForks /\ feed = <<>>
    /\ col = [u \in Turn |-> "none"] /\ snap = [u \in Turn |-> "none"] /\ told = [u \in Turn |-> "none"]
    /\ provider = [threads |-> Threads, status |-> [u \in Turn |-> "none"], on |-> [u \in Turn |-> Nil], restate |-> {}]
    /\ restarts = 0 /\ causes = {}

-----------------------------------------------------------------------------
(* Routing *)

IsForkedFrom(t, ancestor, fk) ==
    LET up[n \in 0 .. MaxThreads] == IF n = 0 THEN fk.parent[t]
                                    ELSE IF up[n - 1] = Nil THEN Nil ELSE fk.parent[up[n - 1]]
    IN  \E n \in 0 .. MaxThreads : up[n] = ancestor

\* A fork that is not answered yet may explain what is said of the thread's turns.
MayBeFork(t, fk) == \E f \in fk.pending : LET p == provider.on[f[1]] IN p = t \/ IsForkedFrom(p, t, fk)

WithEnd(o, st) == [o EXCEPT !.terminal = st, !.done = TRUE]

\* What events do: operations, early and fork events, and whether one was a breach.
Effect(os, es, fs, bad) == [ops |-> os, early |-> es, forked |-> fs, bad |-> bad]

EarlyFull(es) == Len(es) = MaxEarly

\* _apply_event
Apply(e, r, fk) ==
    LET o == r.ops[e.turn]  home == provider.on[e.turn] IN
    IF e.thread # home
    THEN IF o.terminal # "none" /\ IsForkedFrom(e.thread, home, fk) THEN r
         ELSE IF o.terminal # "none" /\ MayBeFork(home, fk) /\ Len(r.forked) < MaxEarly
         THEN [r EXCEPT !.forked = Append(@, e)] ELSE [r EXCEPT !.bad = TRUE]
    ELSE IF e.status \notin Ended THEN r
         ELSE IF o.terminal \in {"none", e.status} THEN [r EXCEPT !.ops[e.turn] = WithEnd(@, e.status)]
         ELSE [r EXCEPT !.bad = TRUE]

\* _route_event
RouteTo(e, r, fk) ==
    IF r.ops[e.turn].known THEN Apply(e, r, fk)
    ELSE IF EarlyFull(r.early) THEN [r EXCEPT !.bad = TRUE] ELSE [r EXCEPT !.early = Append(@, e)]

RouteEvents(es, r, fk) ==
    LET after[i \in 0 .. Len(es)] ==
            IF i = 0 THEN r ELSE IF after[i - 1].bad THEN after[i - 1] ELSE RouteTo(es[i], after[i - 1], fk)
    IN  after[Len(es)]

\* A breach ends the router and wakes every collector.
Dead(os) == [u \in Turn |-> IF os[u].known THEN [os[u] EXCEPT !.done = TRUE] ELSE os[u]]

Settle(r, why) ==
    /\ early' = r.early
    /\ IF r.bad THEN router' = "dead" /\ ops' = Dead(r.ops) /\ causes' = causes \cup why
                ELSE ops' = r.ops /\ UNCHANGED <<router, causes>>

\* The buffer of early events is full, or a fork that failed is restated.
Blame(e) ==
    {b \in {"orphan"} : EarlyFull(early)}
    \cup {b \in {"refused"} : /\ e.thread # provider.on[e.turn] /\ forks.parent[e.thread] = Nil
                             /\ <<e.turn, e.thread>> \notin forks.pending}

Route ==
    /\ router = "running" /\ feed # <<>> /\ feed' = Tail(feed)
    /\ LET r == RouteTo(Head(feed), Effect(ops, early, forks.events, FALSE), forks) IN
       /\ Settle(r, Blame(Head(feed)))
       /\ forks' = [forks EXCEPT !.events = r.forked]
    /\ UNCHANGED <<active, starting, col, snap, told, provider, restarts>>

\* Also when the client fails: next_event raises.
ClientFailure ==
    /\ router = "running" /\ Settle(Effect(ops, early, forks.events, TRUE), {"client"})
    /\ UNCHANGED <<active, starting, forks, feed, col, snap, told, provider, restarts>>

Ready == router' = (IF router = "none" THEN "running" ELSE router) /\ router # "dead"

-----------------------------------------------------------------------------
(* Starting a turn *)

\* The runtime serves one turn on a thread at a time.
Free(t) == active[t] = Nil /\ starting[t] = Nil

StartTurn(t) ==
    /\ t <= provider.threads /\ Free(t) /\ Ready
    /\ \E u \in Turn : provider.status[u] = "none"
    /\ starting' = [starting EXCEPT ![t] = 0]
    /\ UNCHANGED <<ops, active, early, forks, feed, col, snap, told, provider, restarts, causes>>

\* The provider answers, and may already be ahead with its events.
ProviderStarts(t) ==
    LET fresh == {v \in Turn : provider.status[v] = "none"}  u == CHOOSE v \in fresh : \A w \in fresh : v <= w IN
    /\ starting[t] = 0 /\ fresh # {} /\ "client" \notin causes
    /\ starting' = [starting EXCEPT ![t] = u]
    /\ provider' = [provider EXCEPT !.status[u] = "inProgress", !.on[u] = t]
    /\ feed' = Append(feed, [turn |-> u, thread |-> t, status |-> "inProgress"])
    /\ UNCHANGED <<router, ops, active, early, forks, col, snap, told, restarts, causes>>

\* The caller gives up: the turn, if there is one, belongs to nobody.
StartTurnFails(t) ==
    /\ starting[t] # Nil /\ starting' = [starting EXCEPT ![t] = Nil]
    /\ UNCHANGED <<router, ops, active, early, forks, feed, col, snap, told, provider, restarts, causes>>

Drain(u, r) ==
    RouteEvents(SelectSeq(early, LAMBDA e : e.turn = u), [r EXCEPT !.early = SelectSeq(early, LAMBDA e : e.turn # u)], forks)

\* The caller has the response, registers the turn and hears what came early.
Register(t) ==
    /\ starting[t] \in Turn /\ "client" \notin causes
    /\ starting' = [starting EXCEPT ![t] = Nil] /\ active' = [active EXCEPT ![t] = starting[t]]
    /\ LET r == Drain(starting[t], Effect([ops EXCEPT ![starting[t]].known = TRUE], early, forks.events, FALSE)) IN
       ops' = r.ops /\ early' = r.early /\ forks' = [forks EXCEPT !.events = r.forked]
    /\ UNCHANGED <<router, feed, col, snap, told, provider, restarts, causes>>

-----------------------------------------------------------------------------
(* Collecting *)

Freed(u) == [active EXCEPT ![provider.on[u]] = Nil]
Tell(u, what) == told' = [told EXCEPT ![u] = what]
Record(u, what) == ops' = [ops EXCEPT ![u].result = what] /\ Tell(u, what)

Collect(u) ==
    /\ ops[u].known /\ col[u] = "none"
    /\ IF ops[u].result # "none" THEN Tell(u, ops[u].result) /\ UNCHANGED col
       ELSE col' = [col EXCEPT ![u] = "waiting"] /\ UNCHANGED told
    /\ UNCHANGED <<router, ops, active, starting, early, forks, feed, snap, provider, restarts, causes>>

\* completion is set: the router died, or the turn has ended.
Collected(u) ==
    /\ col[u] = "waiting" /\ ops[u].done
    /\ col' = [col EXCEPT ![u] = "none"]
    /\ IF router = "dead" THEN Record(u, "protocol") /\ UNCHANGED active
       ELSE Record(u, ops[u].terminal) /\ active' = Freed(u)
    /\ UNCHANGED <<router, starting, early, forks, feed, snap, provider, restarts, causes>>

\* turn/interrupt, as the provider serves it; a turn that has ended is refused.
Interrupts(u) ==
    /\ provider.status[u] = "inProgress"
    /\ provider' = [provider EXCEPT !.status[u] = "interrupted"]
    /\ feed' = Append(feed, [turn |-> u, thread |-> provider.on[u], status |-> "interrupted"])

TimedOut(u) ==
    /\ col[u] = "waiting" /\ ~ops[u].done
    /\ \/ Interrupts(u) /\ col' = [col EXCEPT ![u] = "interrupting"] /\ UNCHANGED <<ops, told>>
       \/ provider.status[u] # "inProgress" /\ col' = [col EXCEPT ![u] = "none"] /\ Record(u, "protocol")
          /\ UNCHANGED <<provider, feed>>
       \* The acknowledgement crossed the end of the turn.
       \/ provider.status[u] \in Ended /\ col' = [col EXCEPT ![u] = "interrupting"] /\ UNCHANGED <<ops, told, provider, feed>>
    /\ UNCHANGED <<router, active, starting, early, forks, snap, restarts, causes>>

ReadAfterTimeout(u) ==
    /\ col[u] = "interrupting" /\ col' = [col EXCEPT ![u] = "reading"]
    /\ snap' = [snap EXCEPT ![u] = provider.status[u]]
    /\ UNCHANGED <<router, ops, active, starting, early, forks, feed, told, provider, restarts, causes>>

\* Mutant: the acknowledgement is proof enough.
ProofByAcknowledgement(u) == TRUE
\* Only a snapshot that shows the turn as interrupted is proof.
Proof(u) == snap[u] = "interrupted"

ProveTimeout(u) ==
    /\ col[u] = "reading" /\ col' = [col EXCEPT ![u] = "none"]
    /\ IF Proof(u) THEN Record(u, "timeout") /\ active' = Freed(u) ELSE Record(u, "unsure") /\ UNCHANGED active
    /\ UNCHANGED <<router, starting, early, forks, feed, snap, provider, restarts, causes>>

\* interrupt(): the thread is free before the end of the turn is heard.
Interrupt(u) ==
    /\ Interrupts(u) /\ (ops[u].known \/ told[u] = "running")
    /\ active' = IF ops[u].known THEN Freed(u) ELSE active
    /\ UNCHANGED <<router, ops, starting, early, forks, col, snap, told, restarts, causes>>

-----------------------------------------------------------------------------
(* Reconciling *)

\* A result that is known is given again; otherwise the thread is read.
Reconcile(u) ==
    /\ col[u] = "none" /\ provider.on[u] # Nil /\ starting[provider.on[u]] = Nil
    /\ ops[u].known \/ restarts > 0
    /\ \/ router = "dead" /\ Tell(u, "protocol") /\ UNCHANGED <<router, col, snap>>
       \/ Ready /\ ops[u].result # "none" /\ Tell(u, ops[u].result) /\ UNCHANGED <<col, snap>>
       \/ Ready /\ ops[u].result = "none" /\ col' = [col EXCEPT ![u] = "reconciling"]
          /\ snap' = [snap EXCEPT ![u] = provider.status[u]] /\ UNCHANGED told
    /\ UNCHANGED <<ops, active, starting, early, forks, feed, provider, restarts, causes>>

Reconciled(u) ==
    /\ col[u] = "reconciling" /\ col' = [col EXCEPT ![u] = "none"]
    /\ IF snap[u] = "inProgress" THEN Tell(u, "running") /\ UNCHANGED <<ops, active>>
       ELSE /\ active' = Freed(u)
            /\ IF ops[u].known THEN Record(u, snap[u]) ELSE Tell(u, snap[u]) /\ UNCHANGED ops
    /\ UNCHANGED <<router, starting, early, forks, feed, snap, provider, restarts, causes>>

-----------------------------------------------------------------------------
(* Forking *)

\* Of a collected turn; a snapshot has shown it unchanged.
Fork(u) ==
    LET copy == provider.threads + 1 IN
    /\ ops[u].result = "completed" /\ router = "running" /\ copy \in Thread
    /\ forks' = [forks EXCEPT !.pending = @ \cup {<<u, copy>>}]
    /\ provider' = [provider EXCEPT !.threads = copy, !.restate = @ \cup {<<u, copy>>}]
    /\ UNCHANGED <<router, ops, active, starting, early, feed, col, snap, told, restarts, causes>>

\* The provider restates the copied turn on the new thread.
Restate(f) ==
    /\ f \in provider.restate /\ provider' = [provider EXCEPT !.restate = @ \ {f}]
    /\ feed' = Append(feed, [turn |-> f[1], thread |-> f[2], status |-> "completed"])
    /\ UNCHANGED <<router, ops, active, starting, early, forks, col, snap, told, restarts, causes>>

\* _drain_pending_fork_events: what waited for a fork is routed again.
ForkSettled(f, parents) ==
    LET fk == [pending |-> forks.pending \ {f}, events |-> <<>>, parent |-> parents]
        r  == RouteEvents(forks.events, Effect(ops, early, <<>>, FALSE), fk) IN
    /\ f \in forks.pending /\ forks' = [fk EXCEPT !.events = r.forked] /\ Settle(r, {"refused"})

Forked(f) ==
    /\ ForkSettled(f, [forks.parent EXCEPT ![f[2]] = provider.on[f[1]]])
    /\ UNCHANGED <<active, starting, feed, col, snap, told, provider, restarts>>

\* One refused fork, not a broken provider: but what it restates is a breach.
ForkFails(f) ==
    /\ ForkSettled(f, forks.parent)
    /\ UNCHANGED <<active, starting, feed, col, snap, told, provider, restarts>>

-----------------------------------------------------------------------------

\* The process dies; turns may have gone on, or been cut off.
Restart ==
    /\ restarts < MaxRestarts /\ restarts' = restarts + 1
    /\ router' = "none" /\ ops' = [u \in Turn |-> NoOp]
    /\ active' = [t \in Thread |-> Nil] /\ starting' = [t \in Thread |-> Nil]
    /\ early' = <<>> /\ forks' = NoForks /\ feed' = <<>>
    /\ col' = [u \in Turn |-> "none"]
    /\ \E cut \in SUBSET {u \in Turn : provider.status[u] = "inProgress"} :
          provider' = [provider EXCEPT !.status = [u \in Turn |-> IF u \in cut THEN "interrupted" ELSE @[u]], !.restate = {}]
    /\ causes' = {} /\ UNCHANGED <<snap, told>>

ProviderEnds(u) ==
    /\ provider.status[u] = "inProgress"
    /\ \E st \in {"completed", "failed"} :
          /\ provider' = [provider EXCEPT !.status[u] = st]
          /\ feed' = Append(feed, [turn |-> u, thread |-> provider.on[u], status |-> st])
    /\ UNCHANGED <<router, ops, active, starting, early, forks, col, snap, told, restarts, causes>>

RuntimeNext ==
    \/ Route \/ ClientFailure \/ Restart
    \/ \E t \in Thread : StartTurn(t) \/ ProviderStarts(t) \/ StartTurnFails(t) \/ Register(t)
    \/ \E u \in Turn :
          \/ Collect(u) \/ Collected(u) \/ TimedOut(u) \/ ReadAfterTimeout(u) \/ ProveTimeout(u)
          \/ Interrupt(u) \/ Reconcile(u) \/ Reconciled(u) \/ Fork(u) \/ ProviderEnds(u)
    \/ \E f \in Turn \X Thread : Restate(f) \/ Forked(f) \/ ForkFails(f)

RuntimeSpec == RuntimeInit /\ [][RuntimeNext]_runtimeVars

-----------------------------------------------------------------------------

(* What the caller is told of the end of a turn is how it ended, whatever  *)
(* order its events, its response, a timeout, an interrupt, a snapshot and *)
(* a restart came in.                                                      *)
ToldTrue ==
    \A u \in Turn :
       /\ told[u] \in Ended => told[u] = provider.status[u]
       /\ told[u] = "timeout" => provider.status[u] = "interrupted"

(* The end of a turn the runtime knows is not missed: it is filed, or one  *)
(* of the events still to be routed says it.                               *)
EndNotMissed ==
    router = "running" => \A u \in Turn :
        ops[u].known /\ provider.status[u] \in Ended =>
            \/ ops[u].terminal = provider.status[u]
            \/ \E i \in 1 .. Len(feed) : feed[i].turn = u /\ feed[i].status = provider.status[u]

(* A thread carries one running turn at a time, unless a start was given   *)
(* up or the process restarted.                                            *)
OneTurnAtATime ==
    restarts = 0 => \A u, v \in Turn :
        u # v /\ ops[u].known /\ ops[v].known /\ provider.on[u] = provider.on[v]
        => "inProgress" \notin {provider.status[u], provider.status[v]} \/ provider.status[u] # provider.status[v]

(* Restated turns of a fork do not end the router, whether the fork is     *)
(* answered before or after them.                                          *)
RouterDiesForCause == router = "dead" => causes # {}

(* The outcomes the orchestrator gets are those of the provider: none is   *)
(* told that is not so, none is missed, and no second turn runs beside one *)
(* that is not known to have ended; and its router dies only for a cause.  *)
OutcomesTrue == RuntimeTypeOK /\ ToldTrue /\ EndNotMissed /\ OneTurnAtATime /\ RouterDiesForCause

=============================================================================
