----------------------------- MODULE SharedBroker -----------------------------
(***************************************************************************)
(* One App Server child shared by several runs, derivation_runtime/        *)
(* shared_app_server.py.  A pump takes the events of the child one by one  *)
(* and gives each to the session that owns its thread and turn.  A thread  *)
(* or turn that is being started has no owner yet: its events are held     *)
(* back until the caller has the response and claims it.  Every event that *)
(* cannot be attributed poisons the broker: all sessions fail and the      *)
(* child is closed.  "blame" notes what happened that could explain it.    *)
(***************************************************************************)
EXTENDS ProviderTurns

CONSTANTS
    Session,
    MaxCalls,   \* bound
    QueueSize   \* session_event_queue_size, pending_event_limit

ASSUME BrokerAssumption == {MaxCalls, QueueSize} \subseteq Nat /\ Nil \notin Session

VARIABLES
    sess,      \* free, open or closed
    box,       \* the queue of each session
    heard,     \* what each session took from it
    op,        \* the request of each session: what, thread, turn, phase, snapshot, left, due
    owner,     \* _thread_owners
    claims,    \* _turn_owners: sessions and threads that state a turn
    pending,   \* _pending_thread_owner, _pending_turn_owner and their events
    pipe,      \* events of the child that the pump has not routed
    world,     \* the child: threads, turns on each, last event of each turn, threads to announce
    poisoned, brokerClosed,
    requests,     \* requests so far
    blame

brokerVars == <<sess, box, heard, op, owner, claims, pending, pipe, world, poisoned, brokerClosed, requests, blame>>

Idle  == [what |-> "none", thread |-> Nil, turn |-> Nil, phase |-> "idle", turns |-> {}, left |-> 0, due |-> {}]
Fatal == [thread |-> Nil, turn |-> Nil, n |-> 3]
NothingPending == [thread |-> Nil, early |-> <<>>, turn |-> Nil, started |-> <<>>]

BrokerTypeOK ==
    /\ sess \in [Session -> {"free", "open", "closed"}]
    /\ \A s \in Session : Len(box[s]) <= QueueSize
    /\ \A s \in Session : op[s].what \in {"none", "start", "fork", "turn", "read", "barrier"}
    /\ owner \in [Thread -> Session \cup {Nil}]
    /\ claims \in [Turn -> SUBSET (Session \X Thread)]
    /\ pending.thread \in Session \cup {Nil} /\ pending.turn \in (Session \X Thread) \cup {Nil}
    /\ Len(pending.early) <= QueueSize /\ Len(pending.started) <= QueueSize
    /\ world.threads \in 0 .. MaxThreads /\ world.turns \in [Thread -> SUBSET Turn] /\ world.last \in [Turn -> 0 .. 2]
    /\ poisoned \in BOOLEAN /\ brokerClosed \in BOOLEAN /\ requests \in 0 .. MaxCalls
    /\ blame \subseteq {"released", "abandoned", "client", "refused", "full"}

BrokerInit ==
    /\ sess = [s \in Session |-> "free"]
    /\ box = [s \in Session |-> <<>>] /\ heard = [s \in Session |-> <<>>]
    /\ op = [s \in Session |-> Idle]
    /\ owner = [t \in Thread |-> Nil] /\ claims = [u \in Turn |-> {}]
    /\ pending = NothingPending
    /\ pipe = <<>>
    /\ world = [threads |-> 0, turns |-> [t \in Thread |-> {}], last |-> [u \in Turn |-> 0],
                home |-> [u \in Turn |-> Nil], silent |-> {}, started |-> 0]
    /\ poisoned = FALSE /\ brokerClosed = FALSE /\ requests = 0 /\ blame = {}

Usable(s) == sess[s] = "open" /\ ~poisoned

-----------------------------------------------------------------------------
(* Routing *)

\* What the routing of one event, or of several, changes.
Routed(boxes, held, bad) == [box |-> boxes, pending |-> held, bad |-> bad]

Full(q) == Len(q) = QueueSize

\* _route_event, from queues and buffers r, with thread owners own and turn owners cl.
RouteOne(e, r, own, cl) ==
    LET o == own[e.thread] IN
    CASE r.bad -> r
      [] ~r.bad /\ o = Nil ->
           IF pending.thread = Nil \/ Full(r.pending.early) THEN Routed(r.box, r.pending, TRUE)
           ELSE Routed(r.box, [r.pending EXCEPT !.early = Append(@, e)], FALSE)
      [] ~r.bad /\ o # Nil /\ e.turn # Nil /\ sess[o] # "closed" /\ cl[e.turn] = {} ->
           IF pending.turn # <<o, e.thread>> \/ Full(r.pending.started) THEN Routed(r.box, r.pending, TRUE)
           ELSE Routed(r.box, [r.pending EXCEPT !.started = Append(@, e)], FALSE)
      [] OTHER ->
           IF o # Nil /\ sess[o] # "closed" /\ (e.turn # Nil => <<o, e.thread>> \in cl[e.turn]) /\ ~Full(r.box[o])
           THEN Routed([r.box EXCEPT ![o] = Append(@, e)], r.pending, FALSE)
           ELSE Routed(r.box, r.pending, TRUE)

RouteAll(es, r, own, cl) ==
    LET after[i \in 0 .. Len(es)] == IF i = 0 THEN r ELSE RouteOne(es[i], after[i - 1], own, cl)
    IN  after[Len(es)]

\* _poison: every session finds the error, and only the error, in its queue.
Poison == poisoned' = TRUE /\ box' = [s \in Session |-> IF sess[s] = "free" THEN <<>> ELSE <<Fatal>>]

\* The queue that overflowed, or the session that was released, is to blame.
BlameFor(e) ==
    LET o == owner[e.thread] IN
    {b \in {"released"} : o # Nil /\ sess[o] = "closed"}
    \cup {b \in {"full"} : (o # Nil /\ Full(box[o])) \/ Full(pending.early) \/ Full(pending.started)}

\* One step of the pump; a barrier waits for so many more of them.
Pump ==
    /\ ~poisoned /\ ~brokerClosed /\ pipe # <<>>
    /\ pipe' = Tail(pipe)
    /\ op' = [s \in Session |-> IF op[s].left > 0 THEN [op[s] EXCEPT !.left = @ - 1] ELSE op[s]]
    /\ LET r == RouteOne(Head(pipe), Routed(box, pending, FALSE), owner, claims) IN
       IF r.bad THEN Poison /\ blame' = blame \cup BlameFor(Head(pipe)) /\ UNCHANGED pending
       ELSE box' = r.box /\ pending' = r.pending /\ UNCHANGED <<poisoned, blame>>
    /\ UNCHANGED <<sess, heard, owner, claims, world, brokerClosed, requests>>

-----------------------------------------------------------------------------
(* Sessions *)

Acquire(s) ==
    /\ sess[s] = "free" /\ ~brokerClosed /\ ~poisoned
    /\ sess' = [sess EXCEPT ![s] = "open"]
    /\ UNCHANGED <<box, heard, op, owner, claims, pending, pipe, world, poisoned, brokerClosed, requests, blame>>

\* _release: the last one closes the child.  Requests in flight go on.
Release(s) ==
    /\ sess[s] = "open"
    /\ sess' = [sess EXCEPT ![s] = "closed"]
    /\ brokerClosed' = (brokerClosed \/ \A r \in Session \ {s} : sess[r] # "open")
    /\ UNCHANGED <<box, heard, op, owner, claims, pending, pipe, world, poisoned, requests, blame>>

NextEvent(s) ==
    /\ Usable(s) /\ box[s] # <<>>
    /\ heard' = [heard EXCEPT ![s] = Append(@, Head(box[s]))]
    /\ box' = [box EXCEPT ![s] = Tail(@)]
    /\ UNCHANGED <<sess, op, owner, claims, pending, pipe, world, poisoned, brokerClosed, requests, blame>>

Begin(s, request) ==
    /\ Usable(s) /\ op[s] = Idle /\ requests < MaxCalls
    /\ op' = [op EXCEPT ![s] = request] /\ requests' = requests + 1
    /\ UNCHANGED <<sess, box, heard, owner, claims, pipe, poisoned, brokerClosed, blame>>

\* The registration locks are held exactly while something is pending.
ThreadStart(s) ==
    /\ pending.thread = Nil
    /\ Begin(s, [Idle EXCEPT !.what = "start", !.phase = "sent"])
    /\ pending' = [pending EXCEPT !.thread = s, !.early = <<>>] /\ UNCHANGED world

ThreadFork(s, t) ==
    /\ owner[t] = s /\ pending.thread = Nil
    /\ Begin(s, [Idle EXCEPT !.what = "fork", !.thread = t, !.phase = "sent"])
    /\ pending' = [pending EXCEPT !.thread = s, !.early = <<>>] /\ UNCHANGED world

TurnStart(s, t) ==
    /\ owner[t] = s /\ pending.turn = Nil
    /\ Begin(s, [Idle EXCEPT !.what = "turn", !.thread = t, !.phase = "sent"])
    /\ pending' = [pending EXCEPT !.turn = <<s, t>>, !.started = <<>>] /\ UNCHANGED world

ThreadRead(s, t) ==
    /\ owner[t] = s
    /\ Begin(s, [Idle EXCEPT !.what = "read", !.thread = t, !.phase = "answered", !.turns = world.turns[t]])
    /\ UNCHANGED <<pending, world>>

Ahead(q) == Len(q)

Barrier(s) ==
    /\ Begin(s, [Idle EXCEPT !.what = "barrier", !.phase = "answered", !.left = Ahead(pipe),
                             !.due = {e \in Items(pipe) : e.turn # Nil /\ claims[e.turn] \cap ({s} \X Thread) # {}}])
    /\ UNCHANGED <<pending, world>>

Unpending(s, held) ==
    [thread  |-> IF op[s].what \in {"start", "fork"} THEN Nil ELSE held.thread,
     early   |-> IF op[s].what \in {"start", "fork"} THEN <<>> ELSE held.early,
     turn    |-> IF op[s].what = "turn" THEN Nil ELSE held.turn,
     started |-> IF op[s].what = "turn" THEN <<>> ELSE held.started]

Return(s) == op' = [op EXCEPT ![s] = Idle]

\* The turns of a snapshot belong to the session, on one more thread.
WithTurns(s, t, us) == [u \in Turn |-> IF u \in us THEN claims[u] \cup {<<s, t>>} ELSE claims[u]]

\* Mutant: a turn that another thread states already.
ClaimableOnce(s, us) == \A u \in us : claims[u] = {}
Claimable(s, us) == \A u \in us : claims[u] \subseteq {s} \X Thread

Replay(es, r, own, cl) == RouteAll(es, r, own, cl)

\* The caller has its response and claims what it names, then hears what was held back.
Claim(s) ==
    LET o == op[s]
        fresh == o.what \in {"start", "fork"}
        own == IF fresh THEN [owner EXCEPT ![o.turn] = s] ELSE owner
        at  == IF fresh THEN o.turn ELSE o.thread
        us  == IF o.what = "turn" THEN {o.turn} ELSE o.turns
        cl  == WithTurns(s, at, us)
        mine == CASE fresh -> SelectSeq(pending.early, LAMBDA e : e.thread = o.turn)
                  [] o.what = "turn" -> SelectSeq(pending.started, LAMBDA e : e.turn = o.turn)
                  [] OTHER -> <<>>
        alien == Len(mine) < (CASE fresh -> Len(pending.early) [] o.what = "turn" -> Len(pending.started) [] OTHER -> 0)
        r == Replay(mine, Routed(box, pending, FALSE), own, cl)
        bad == alien \/ ~Claimable(s, us) \/ r.bad
    IN  /\ o.phase = "answered" /\ o.what # "barrier"
        /\ Return(s)
        /\ IF poisoned \/ bad
           THEN /\ IF poisoned THEN UNCHANGED <<poisoned, box>> ELSE Poison
                /\ pending' = Unpending(s, pending) /\ UNCHANGED <<owner, claims>>
                /\ blame' = blame \cup {b \in {"full"} : r.bad /\ \E q \in Session : Full(r.box[q])}
                                  \cup {b \in {"released"} : r.bad /\ sess[s] = "closed"}
           ELSE /\ owner' = own /\ claims' = cl /\ box' = r.box /\ pending' = Unpending(s, r.pending)
                /\ UNCHANGED <<poisoned, blame>>
        /\ UNCHANGED <<sess, heard, pipe, world, brokerClosed, requests>>

EndBarrier(s) ==
    /\ op[s].what = "barrier" /\ (op[s].left = 0 \/ poisoned)
    /\ Return(s)
    /\ UNCHANGED <<sess, box, heard, owner, claims, pending, pipe, world, poisoned, brokerClosed, requests, blame>>

\* The request timed out or its caller was cancelled; what was held back is dropped.
GiveUpRequest(s) ==
    /\ op[s].phase \in {"sent", "served"} /\ ~poisoned
    /\ Return(s) /\ pending' = Unpending(s, pending)
    /\ blame' = blame \cup {"abandoned"}
    /\ UNCHANGED <<sess, box, heard, owner, claims, pipe, world, poisoned, brokerClosed, requests>>

\* AppServerForkError: the client refused to adopt the new thread.
ForkRefused(s) ==
    /\ op[s].what = "fork" /\ op[s].phase = "served" /\ ~poisoned
    /\ Return(s) /\ pending' = Unpending(s, pending)
    /\ blame' = blame \cup {"refused"}
    /\ UNCHANGED <<sess, box, heard, owner, claims, pipe, world, poisoned, brokerClosed, requests>>

\* The client failed, for instance because the child exited.
ClientFails ==
    /\ ~poisoned /\ ~brokerClosed /\ Poison /\ blame' = blame \cup {"client"}
    /\ UNCHANGED <<sess, heard, op, owner, claims, pending, pipe, world, brokerClosed, requests>>

-----------------------------------------------------------------------------
(* The child, behind its client: it may announce a thread, or go on with a *)
(* turn, before and after the response that names it.                      *)

Emit(t, u, n) == pipe' = Append(pipe, [thread |-> t, turn |-> u, n |-> n])

ChildUp == ~poisoned /\ ~brokerClosed

ServeThread(s) ==
    LET t == world.threads + 1 IN
    /\ ChildUp /\ op[s].what \in {"start", "fork"} /\ op[s].phase = "sent" /\ t \in Thread
    /\ LET copied == IF op[s].what = "fork" THEN {u \in world.turns[op[s].thread] : world.last[u] = 2} ELSE {} IN
       /\ world' = [world EXCEPT !.threads = t, !.turns[t] = copied, !.silent = @ \cup {t}]
       /\ op' = [op EXCEPT ![s].phase = "served", ![s].turn = t, ![s].turns = copied]
    /\ UNCHANGED <<sess, box, heard, owner, claims, pending, pipe, poisoned, brokerClosed, requests, blame>>

ServeTurn(s) ==
    LET u == world.started + 1  t == op[s].thread IN
    /\ ChildUp /\ op[s].what = "turn" /\ op[s].phase = "sent" /\ u \in Turn
    /\ world' = [world EXCEPT !.started = u, !.turns[t] = @ \cup {u}, !.home[u] = t]
    /\ op' = [op EXCEPT ![s].phase = "served", ![s].turn = u]
    /\ UNCHANGED <<sess, box, heard, owner, claims, pending, pipe, poisoned, brokerClosed, requests, blame>>

Respond(s) ==
    /\ ChildUp /\ op[s].phase = "served"
    /\ op' = [op EXCEPT ![s].phase = "answered"]
    /\ UNCHANGED <<sess, box, heard, owner, claims, pending, pipe, world, poisoned, brokerClosed, requests, blame>>

AnnounceThread(t) ==
    /\ ChildUp /\ t \in world.silent
    /\ world' = [world EXCEPT !.silent = @ \ {t}] /\ Emit(t, Nil, 0)
    /\ UNCHANGED <<sess, box, heard, op, owner, claims, pending, poisoned, brokerClosed, requests, blame>>

\* turn/started, then turn/completed.
Progress(u) ==
    /\ ChildUp /\ world.home[u] # Nil /\ world.last[u] < 2
    /\ world' = [world EXCEPT !.last[u] = @ + 1] /\ Emit(world.home[u], u, world.last[u] + 1)
    /\ UNCHANGED <<sess, box, heard, op, owner, claims, pending, poisoned, brokerClosed, requests, blame>>

BrokerNext ==
    \/ Pump \/ ClientFails
    \/ \E s \in Session :
          \/ Acquire(s) \/ Release(s) \/ NextEvent(s) \/ ThreadStart(s) \/ Barrier(s)
          \/ \E t \in Thread : ThreadFork(s, t) \/ TurnStart(s, t) \/ ThreadRead(s, t)
          \/ Claim(s) \/ EndBarrier(s) \/ GiveUpRequest(s) \/ ForkRefused(s)
          \/ ServeThread(s) \/ ServeTurn(s) \/ Respond(s)
    \/ \E t \in Thread : AnnounceThread(t)
    \/ \E u \in Turn : Progress(u)

BrokerSpec == BrokerInit /\ [][BrokerNext]_brokerVars

-----------------------------------------------------------------------------

Claimed(u) == {c[1] : c \in claims[u]}

(* What the session that owns a turn hears of it is all that the child     *)
(* said, once and in order, whichever of response, claim, and events came  *)
(* first; no other session hears of it.                                    *)
TurnHeardInOrder ==
    ~poisoned /\ "abandoned" \notin blame =>
    \A u \in Turn : \A s \in Session :
       LET of(q) == SelectSeq(q, LAMBDA e : e # Fatal /\ e.turn = u)
           all == of(heard[s]) \o of(box[s]) IN
       IF s \in Claimed(u)
       THEN LET line == all \o of(pending.started) \o of(pending.early) \o of(pipe) IN
            Len(line) = world.last[u] /\ \A i \in 1 .. Len(line) : line[i].n = i
       ELSE all = <<>>

(* Once a barrier lets its caller go, every event of the caller's turns    *)
(* that the child had sent before is in the caller's hands.                *)
BarrierComplete ==
    \A s \in Session : op[s].what = "barrier" /\ op[s].left = 0 /\ ~poisoned =>
        op[s].due \subseteq Items(heard[s]) \cup Items(box[s])

(* A poisoned broker leaves no session waiting for an event: each finds    *)
(* the error in its queue.                                                 *)
PoisonReachesAll == poisoned => \A s \in Session : sess[s] = "open" => Fatal \in Items(box[s])

(* Runs that share a child do not stop each other: the broker fails only   *)
(* when its client does, a request was abandoned, a run was released while *)
(* the child still spoke of it, a fork was refused, or a queue is full.    *)
PoisonForCause == poisoned => blame # {}

(* A fork that the client refuses to adopt costs only the run that asked.  *)
RefusalConfined == poisoned => blame # {"refused"}

(* A session hears its turns in the order the provider told of them, a     *)
(* barrier it waits for leaves nothing of before it on the way, and the    *)
(* sessions share the fate of the broker: all of them, and only when the   *)
(* provider gave cause.                                                    *)
BrokerSound == BrokerTypeOK /\ TurnHeardInOrder /\ BarrierComplete /\ PoisonReachesAll /\ PoisonForCause

=============================================================================
