--------------------------- MODULE AppServerClient ---------------------------
(***************************************************************************)
(* The client of one App Server child, derivation_runtime/                 *)
(* app_server_client.py.  Its callers are coroutines: the reader resolves  *)
(* the future of a response, may read further messages, and only then the  *)
(* caller resumes and files what the response says.  The child is honest:  *)
(* it answers in any order, announces turns, ends them, calls a tool in a  *)
(* turn, and restates the copied turns of a fork on the forked thread.     *)
(* Every breach the client sees makes it fail as a whole.  "woes" notes    *)
(* what happened outside the client that could explain a failure.          *)
(***************************************************************************)
EXTENDS ProviderTurns

CONSTANTS
    MaxRequests,    \* bound
    WithTools       \* whether turns call a tool

ASSUME ClientAssumption == MaxRequests \in Nat /\ WithTools \in BOOLEAN

Request == 1 .. MaxRequests

VARIABLES
    cstate,   \* _state
    fatal,    \* _fatal_error is set
    child,    \* the process: none, live, or exited with a code
    reg,      \* what the client files: status, owners, lineage, parent, known
    calls,    \* its callers, in the order they came: op, thread, turn, phase
    tool,     \* per turn, its tool call: none, invoking, sent or dropped
    wire,     \* the child's stdout
    asked,    \* requests the child read and did not answer
    truth,    \* the child's own threads and turns
    woes

clientVars == <<cstate, fatal, child, reg, calls, tool, wire, asked, truth, woes>>

Ops      == {"thread/start", "turn/start", "turn/interrupt", "thread/read", "thread/fork"}
Phases   == {"waiting", "resolved", "done", "gaveUp", "refused", "failed"}

ClientTypeOK ==
    /\ cstate \in {"NEW", "STARTING", "RUNNING", "FAILED", "CLOSING", "CLOSED"}
    /\ fatal \in BOOLEAN /\ child \in {"none", "live", "exited"}
    /\ reg \in [status : [Turn -> TurnStatus], owners : [Turn -> SUBSET Thread],
                lineage : [Thread -> Seq(Turn)], parent : [Thread -> Thread \cup {Nil}],
                known : SUBSET Thread]
    /\ Len(calls) <= MaxRequests
    /\ \A i \in 1 .. Len(calls) : calls[i].op \in Ops /\ calls[i].phase \in Phases
    /\ tool \in [Turn -> {"none", "called", "invoking", "sent", "dropped"}]
    /\ asked \subseteq Request
    /\ truth \in [status : [Turn -> TurnStatus], turns : [Thread -> Seq(Turn)], threads : 0 .. MaxThreads]
    /\ woes \subseteq {"late", "tool", "stale", "restated", "exit"}

ClientInit ==
    /\ cstate = "NEW" /\ fatal = FALSE /\ child = "none"
    /\ reg = [status |-> [u \in Turn |-> "none"], owners |-> [u \in Turn |-> {}],
              lineage |-> [t \in Thread |-> <<>>], parent |-> [t \in Thread |-> Nil], known |-> {}]
    /\ calls = <<>> /\ tool = [u \in Turn |-> "none"]
    /\ wire = <<>> /\ asked = {}
    /\ truth = [status |-> [u \in Turn |-> "none"], turns |-> [t \in Thread |-> <<>>], threads |-> 0]
    /\ woes = {}

IsPrefix(s, t) == Len(s) <= Len(t) /\ s = SubSeq(t, 1, Len(s))
Running == cstate = "RUNNING" /\ ~fatal

\* The answer to every caller that still waits.
Woken(phase) == [i \in 1 .. Len(calls) |->
    IF calls[i].phase = "waiting" THEN [calls[i] EXCEPT !.phase = phase] ELSE calls[i]]

\* _fail: every caller is told, every tool task cancelled, the child terminated.
Fail ==
    /\ fatal' = TRUE /\ cstate' = "FAILED"
    /\ calls' = Woken("failed")
    /\ tool' = [u \in Turn |-> IF tool[u] = "invoking" THEN "dropped" ELSE tool[u]]
    /\ UNCHANGED reg

-----------------------------------------------------------------------------
(* What the client files *)

\* A turn stays with its threads: its own, and those forked from them.
OwnerOk(u, t, from) ==
    \/ reg.owners[u] = {} \/ t \in reg.owners[u]
    \/ from # Nil /\ from \in reg.owners[u]
    \/ \E o \in reg.owners[u] : reg.parent[o] = t

\* Mutant: an older snapshot may take back the end of a turn.
TurnOkAnyStatus(u, st, t, from) == OwnerOk(u, t, from)

TurnOk(u, st, t, from) ==
    /\ OwnerOk(u, t, from)
    /\ reg.status[u] \in Ended => st = reg.status[u]

WithTurn(u, st, t) ==
    [reg EXCEPT !.status[u] = st, !.owners[u] = @ \cup {t},
                !.lineage[t] = IF u \in Items(@) THEN @ ELSE Append(@, u)]

ForkedFrom(r, c, p) ==
    LET both == 1 .. IF Len(r.lineage[p]) < Len(r.lineage[c]) THEN Len(r.lineage[p]) ELSE Len(r.lineage[c])
        shared == {i \in both : \A j \in 1 .. i : r.lineage[p][j] = r.lineage[c][j]}
    IN  /\ shared # {}
        /\ \A i \in 1 .. Len(r.lineage[c]) : i \notin shared => r.lineage[c][i] \notin Items(r.lineage[p])

\* A snapshot lists the thread's turns, each with its status.
TurnsOf(snap) == [i \in 1 .. Len(snap) |-> snap[i].turn]

WithSnapshot(t, snap, from) ==
    [reg EXCEPT
       !.status = [u \in Turn |-> IF \E i \in 1 .. Len(snap) : snap[i].turn = u
                                  THEN (CHOOSE s \in Items(snap) : s.turn = u).status ELSE @[u]],
       !.owners = [u \in Turn |-> IF u \in Items(TurnsOf(snap)) THEN @[u] \cup {t} ELSE @[u]],
       !.lineage[t] = TurnsOf(snap),
       !.parent[t] = IF from = Nil THEN @ ELSE from,
       !.known = @ \cup {t}]

SnapshotOk(t, snap, from) ==
    /\ IsPrefix(reg.lineage[t], TurnsOf(snap))
    /\ \A s \in Items(snap) : TurnOk(s.turn, s.status, t, from)
    /\ LET new == WithSnapshot(t, snap, from) IN
       \A c \in Thread : new.parent[c] # Nil /\ t \in {c, new.parent[c]} /\ c \in new.known
                         => ForkedFrom(new, c, new.parent[c])

-----------------------------------------------------------------------------
(* Callers *)

Ask(op, t, u) ==
    /\ Running /\ Len(calls) < MaxRequests
    /\ calls' = Append(calls, [op |-> op, thread |-> t, turn |-> u, phase |-> "waiting",
                               seen |-> {v \in Turn : reg.status[v] # "none"}, got |-> Nil])
    /\ asked' = asked \cup {Len(calls) + 1}
    /\ UNCHANGED <<cstate, fatal, child, reg, tool, wire, truth, woes>>

Resting(t) == \A u \in Items(reg.lineage[t]) : reg.status[u] \in Ended

AskThreadStart == Ask("thread/start", Nil, Nil)

\* The runtime keeps one turn at a time on a thread.
AskTurnStart(t) ==
    /\ t \in reg.known /\ Resting(t)
    /\ \A i \in 1 .. Len(calls) :
          calls[i].op = "turn/start" /\ calls[i].thread = t => calls[i].phase \notin {"waiting", "resolved", "gaveUp"}
    /\ Ask("turn/start", t, Nil)

AskInterrupt(t, u) == t \in reg.owners[u] /\ reg.status[u] = "inProgress" /\ Ask("turn/interrupt", t, u)
AskRead(t)         == t \in reg.known /\ Ask("thread/read", t, Nil)
AskFork(t, u)      == t \in reg.owners[u] /\ reg.status[u] = "completed" /\ Ask("thread/fork", t, u)

\* The request times out and its caller forgets it.
GiveUp(i) ==
    /\ Running /\ calls[i].phase = "waiting"
    /\ calls' = [calls EXCEPT ![i].phase = "gaveUp"]
    /\ woes' = woes \cup {"late"}
    /\ UNCHANGED <<cstate, fatal, child, reg, tool, wire, asked, truth>>

Resolved(i, phase) == calls' = [calls EXCEPT ![i].phase = phase, ![i].got = Nil]
Filed(i, r)        == reg' = r /\ Resolved(i, "done") /\ UNCHANGED <<cstate, fatal, tool>>

\* The reader may have filed the turn, and its end, before the caller resumes.
StartOk(c, u) ==
    /\ u \notin c.seen
    /\ IF reg.status[u] \in Ended THEN c.thread \in reg.owners[u] ELSE TurnOk(u, "inProgress", c.thread, Nil)

Started(c, u) == IF reg.status[u] \in Ended THEN reg ELSE WithTurn(u, "inProgress", c.thread)

\* The caller resumes with its response.
Resume(i) ==
    LET c == calls[i]  m == c.got IN
    /\ c.phase = "resolved"
    /\ UNCHANGED <<child, wire, asked, truth, woes>>
    /\ \/ /\ ~m.ok \/ c.op = "turn/interrupt" \/ fatal
          /\ Resolved(i, "done") /\ UNCHANGED <<cstate, fatal, reg, tool>>
       \/ /\ m.ok /\ ~fatal /\ c.op = "thread/start"
          /\ IF m.thread \notin reg.known /\ SnapshotOk(m.thread, m.turns, Nil)
             THEN Filed(i, WithSnapshot(m.thread, m.turns, Nil)) ELSE Fail
       \/ /\ m.ok /\ ~fatal /\ c.op = "turn/start"
          /\ IF StartOk(c, m.turn) THEN Filed(i, Started(c, m.turn)) ELSE Fail
       \/ /\ m.ok /\ ~fatal /\ c.op = "thread/read"
          /\ IF SnapshotOk(c.thread, m.turns, reg.parent[c.thread])
             THEN Filed(i, WithSnapshot(c.thread, m.turns, reg.parent[c.thread])) ELSE Fail
       \/ /\ m.ok /\ ~fatal /\ c.op = "thread/fork"
          /\ LET mine == reg.lineage[c.thread]
                 wanted == SubSeq(mine, 1, CHOOSE k \in 1 .. Len(mine) : mine[k] = c.turn) IN
             \* A fork that is not the one asked for is refused for this caller alone.
             IF m.thread \notin reg.known /\ TurnsOf(m.turns) = wanted /\ SnapshotOk(m.thread, m.turns, c.thread)
             THEN Filed(i, WithSnapshot(m.thread, m.turns, c.thread))
             ELSE Resolved(i, "refused") /\ UNCHANGED <<cstate, fatal, reg, tool>>

-----------------------------------------------------------------------------
(* The reader: _dispatch_message *)

ReadResponse(m) ==
    /\ m.kind = "response"
    /\ IF calls[m.id].phase = "waiting"
       THEN /\ calls' = [calls EXCEPT ![m.id].phase = "resolved", ![m.id].got = m]
            /\ UNCHANGED <<cstate, fatal, reg, tool>>
       ELSE Fail

\* turn/started and turn/completed; another event after the end of its turn is a breach.
ReadEvent(m) ==
    /\ m.kind = "event"
    /\ IF ~(m.status = "inProgress" /\ reg.status[m.turn] \in Ended)
          /\ TurnOk(m.turn, m.status, m.thread, Nil)
       THEN reg' = WithTurn(m.turn, m.status, m.thread) /\ UNCHANGED <<cstate, fatal, calls, tool>>
       ELSE Fail

ReadToolCall(m) ==
    /\ m.kind = "tool"
    /\ IF reg.status[m.turn] = "inProgress" /\ m.thread \in reg.owners[m.turn]
       THEN tool' = [tool EXCEPT ![m.turn] = "invoking"] /\ UNCHANGED <<cstate, fatal, calls, reg>>
       ELSE Fail

Read ==
    /\ cstate \in {"STARTING", "RUNNING"} /\ wire # <<>>
    /\ wire' = Tail(wire)
    /\ ReadResponse(Head(wire)) \/ ReadEvent(Head(wire)) \/ ReadToolCall(Head(wire))
    /\ UNCHANGED <<child, asked, truth, woes>>

\* The tool returned, or ran out of time; its turn must still be going on.
AnswerTool(u) ==
    /\ tool[u] = "invoking"
    /\ IF reg.status[u] = "inProgress"
       THEN tool' = [tool EXCEPT ![u] = "sent"] /\ UNCHANGED <<cstate, fatal, calls, reg>>
       ELSE Fail
    /\ UNCHANGED <<child, wire, asked, truth, woes>>

\* The reader sees the end of stdout, or the watcher the exit of the child.
SeeExit ==
    /\ cstate \in {"STARTING", "RUNNING"} /\ child = "exited" /\ wire = <<>> /\ Fail
    /\ UNCHANGED <<child, wire, asked, truth, woes>>

-----------------------------------------------------------------------------
(* start and close *)

Start ==
    /\ cstate = "NEW" /\ cstate' = "STARTING" /\ child' = "live"
    /\ UNCHANGED <<fatal, reg, calls, tool, wire, asked, truth, woes>>

Initialized ==
    /\ cstate = "STARTING" /\ ~fatal /\ child = "live" /\ cstate' = "RUNNING"
    /\ UNCHANGED <<fatal, child, reg, calls, tool, wire, asked, truth, woes>>

\* The start timed out, or its caller was cancelled: the child is closed.
StartFails ==
    /\ cstate = "STARTING" /\ cstate' = "CLOSING" /\ fatal' \in {fatal, TRUE}
    /\ UNCHANGED <<child, reg, calls, tool, wire, asked, truth, woes>>

BeginClose ==
    /\ cstate \in {"NEW", "RUNNING", "FAILED"} /\ cstate' = "CLOSING"
    /\ calls' = Woken("failed")
    /\ UNCHANGED <<fatal, child, reg, tool, wire, asked, truth, woes>>

\* Nothing is left of the child or of the client's own tasks; otherwise close
\* raises, and may be called again.
FinishClose ==
    /\ cstate = "CLOSING" /\ child # "live" /\ cstate' = "CLOSED"
    /\ tool' = [u \in Turn |-> IF tool[u] = "invoking" THEN "dropped" ELSE tool[u]]
    /\ UNCHANGED <<fatal, child, reg, calls, wire, asked, truth, woes>>

ChildExits ==
    /\ child = "live" /\ child' = "exited"
    /\ woes' = woes \cup {"exit"}
    /\ UNCHANGED <<cstate, fatal, reg, calls, tool, wire, asked, truth>>

-----------------------------------------------------------------------------
(* The child *)

Alive == child = "live" /\ cstate \in {"STARTING", "RUNNING"} /\ ~fatal

Blank == [kind |-> "response", id |-> 0, ok |-> TRUE, thread |-> Nil, turn |-> Nil,
          turns |-> <<>>, status |-> Nil]
Response(i) == [Blank EXCEPT !.id = i]
Event(t, u, st) == [Blank EXCEPT !.kind = "event", !.thread = t, !.turn = u, !.status = st]

Snapshot(s) == [k \in 1 .. Len(s) |-> [turn |-> s[k], status |-> truth.status[s[k]]]]
FreshTurns == {u \in Turn : truth.status[u] = "none"}
FreshTurn  == CHOOSE u \in FreshTurns : \A v \in FreshTurns : u <= v

Answer(i, messages) ==
    /\ i \in asked /\ Alive
    /\ asked' = asked \ {i} /\ wire' = wire \o messages
    /\ UNCHANGED <<cstate, fatal, child, reg, calls, tool>>

Either(m, n) == {<<m, n>>, <<n, m>>}

AnswerThreadStart(i) ==
    LET t == truth.threads + 1 IN
    /\ i \in asked /\ calls[i].op = "thread/start" /\ t \in Thread
    /\ truth' = [truth EXCEPT !.threads = t]
    /\ Answer(i, <<[Response(i) EXCEPT !.thread = t]>>) /\ UNCHANGED woes

\* A snapshot of the thread was sent and its caller has not filed it.
Unfiled(t) ==
    LET sent == {m \in Items(wire) : m.kind = "response"} \cup {calls[i].got : i \in {j \in 1 .. Len(calls) : calls[j].phase = "resolved"}}
    IN  \E m \in sent : m.thread = t

\* The announcement of the turn may come before the response.
AnswerTurnStart(i) ==
    LET t == calls[i].thread IN
    /\ i \in asked /\ calls[i].op = "turn/start" /\ FreshTurns # {}
    /\ truth' = [truth EXCEPT !.status[FreshTurn] = "inProgress", !.turns[t] = Append(@, FreshTurn)]
    /\ \E ms \in Either([Response(i) EXCEPT !.turn = FreshTurn], Event(t, FreshTurn, "inProgress")) : Answer(i, ms)
    /\ woes' = woes \cup IF Unfiled(t) THEN {"stale"} ELSE {}

EndTurn(u, st) ==
    /\ truth' = [truth EXCEPT !.status[u] = st]
    /\ woes' = woes \cup (IF \E t \in Thread : Unfiled(t) /\ u \in Items(truth.turns[t]) THEN {"stale"} ELSE {})
                    \cup (IF tool[u] \in {"called", "invoking"} THEN {"tool"} ELSE {})

AnswerInterrupt(i) ==
    LET u == calls[i].turn  t == calls[i].thread IN
    /\ i \in asked /\ calls[i].op = "turn/interrupt"
    /\ \/ /\ truth.status[u] = "inProgress" /\ EndTurn(u, "interrupted")
          /\ \E ms \in Either(Response(i), Event(t, u, "interrupted")) : Answer(i, ms)
       \/ /\ truth.status[u] # "inProgress"
          /\ Answer(i, <<[Response(i) EXCEPT !.ok = FALSE]>>) /\ UNCHANGED <<truth, woes>>

AnswerRead(i) ==
    LET t == calls[i].thread IN
    /\ i \in asked /\ calls[i].op = "thread/read"
    /\ Answer(i, <<[Response(i) EXCEPT !.thread = t, !.turns = Snapshot(truth.turns[t])]>>)
    /\ UNCHANGED <<truth, woes>>

\* A fork copies the turns up to the anchor, or, wrongly, all of them; it may
\* restate a copied turn on the new thread, before or after the response.
AnswerFork(i) ==
    LET t == calls[i].thread  all == truth.turns[t]
        upTo == SubSeq(all, 1, CHOOSE k \in 1 .. Len(all) : all[k] = calls[i].turn)
        new == truth.threads + 1 IN
    /\ i \in asked /\ calls[i].op = "thread/fork" /\ new \in Thread
    /\ \E copy \in {upTo, all} :
          LET m == [Response(i) EXCEPT !.thread = new, !.turns = Snapshot(copy)] IN
          /\ truth' = [truth EXCEPT !.threads = new, !.turns[new] = copy]
          /\ \/ Answer(i, <<m>>) /\ UNCHANGED woes
             \/ /\ \E ms \in Either(m, Event(new, calls[i].turn, truth.status[calls[i].turn])) : Answer(i, ms)
                /\ woes' = woes \cup {"restated"}

\* A turn runs on the thread it was started on.
Home(u) ==
    LET on == {t \in Thread : u \in Items(truth.turns[t])} IN CHOOSE t \in on : \A s \in on : t <= s

CompleteTurn(u) ==
    /\ Alive /\ truth.status[u] = "inProgress" /\ tool[u] \in {"none", "sent"}
    /\ EndTurn(u, "completed")
    /\ wire' = Append(wire, Event(Home(u), u, "completed"))
    /\ UNCHANGED <<cstate, fatal, child, reg, calls, tool, asked>>

CallTool(u) ==
    /\ WithTools /\ Alive /\ truth.status[u] = "inProgress" /\ tool[u] = "none"
    /\ tool' = [tool EXCEPT ![u] = "called"]
    /\ wire' = Append(wire, [Event(Home(u), u, Nil) EXCEPT !.kind = "tool"])
    /\ UNCHANGED <<cstate, fatal, child, reg, calls, asked, truth, woes>>

Child ==
    \/ \E i \in asked : \/ AnswerThreadStart(i) \/ AnswerTurnStart(i) \/ AnswerInterrupt(i)
                        \/ AnswerRead(i) \/ AnswerFork(i)
    \/ \E u \in Turn : CompleteTurn(u) \/ CallTool(u)
    \/ ChildExits

Caller ==
    \/ AskThreadStart
    \/ \E t \in Thread : AskTurnStart(t) \/ AskRead(t) \/ \E u \in Turn : AskInterrupt(t, u) \/ AskFork(t, u)
    \/ \E i \in 1 .. Len(calls) : GiveUp(i) \/ Resume(i)

ClientNext ==
    \/ Caller \/ Read \/ SeeExit \/ \E u \in Turn : AnswerTool(u)
    \/ Start \/ Initialized \/ StartFails \/ BeginClose \/ FinishClose
    \/ Child

ClientSpec == ClientInit /\ [][ClientNext]_clientVars

-----------------------------------------------------------------------------

(* A client that failed or is being closed has answered every caller: no   *)
(* request waits for a reader that stopped reading.                        *)
NobodyWaits ==
    cstate \in {"FAILED", "CLOSING", "CLOSED"} => \A i \in 1 .. Len(calls) : calls[i].phase # "waiting"

(* What the client files is what the child did: an ending is never another *)
(* one and, once read, never taken back; a thread lists only turns that    *)
(* the child put there, whatever order responses, announcements, reads,    *)
(* restatements and refused forks come in.                                 *)
RegistryTrue ==
    /\ \A u \in Turn :
          \/ reg.status[u] = truth.status[u] \/ cstate # "RUNNING"
          \/ reg.status[u] \notin Ended /\ \E m \in Items(wire) : m.kind = "event" /\ m.turn = u
    /\ \A t \in Thread : IsPrefix(reg.lineage[t], truth.turns[t])
    /\ \A u \in Turn : \A t \in reg.owners[u] : u \in Items(truth.turns[t])

(* A client fails only when its child exits, a caller gave up waiting, a   *)
(* turn ended during a tool call or while a read of it was not yet filed,  *)
(* or a copied turn was restated on a fork that was not yet adopted.       *)
FailsForCause == cstate = "FAILED" => woes # {}

(* Whoever waits for an answer gets one, what is filed is what the child   *)
(* said, and the client gives up on its process only for a reason.         *)
ClientJust == ClientTypeOK /\ NobodyWaits /\ RegistryTrue /\ FailsForCause

=============================================================================
