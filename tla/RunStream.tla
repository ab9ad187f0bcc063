------------------------------ MODULE RunStream -------------------------------
(***************************************************************************)
(* The events of one run, service.py _publish and stream_events with       *)
(* sse.py, as a page of derivation_web follows them (useDerivationRun).    *)
(* An event carries the whole view of the run, so an event stands for its  *)
(* id: page.heard is the id of the last event the page took from its       *)
(* stream, page.shown of the view on its screen.  The answer of a command  *)
(* replaces what is shown, however long it was under way.                  *)
(***************************************************************************)
EXTENDS Naturals, Sequences, SequencesExt

CONSTANTS
    QueueSize,   \* subscriber_queue_size
    Unpublished, \* Record events of a create, before it publishes the run
    MaxEvent     \* bound on the ids

ASSUME StreamAssumption == QueueSize \in Nat \ {0} /\ Unpublished \in Nat /\ MaxEvent \in Nat

VARIABLES
    canonical,  \* canonical_event_id: the number of Record events
    cursorFile, \* last_event_id of sse_cursor.json
    lastId,     \* last_event_id of the context
    contextEvents, \* context.events
    backlog,    \* what the page's stream sends first
    queue,      \* its subscriber queue: ids, and 0 for the None that closes it
    subscribed, \* is it among context.subscribers
    page,       \* the page and its EventSource
    asked,      \* the command of the page that is under way (commandPending)
    serving     \* the process runs

streamVars == <<canonical, cursorFile, lastId, contextEvents, backlog, queue, subscribed, page, asked, serving>>

\* link: away, viewed (it has the view), open, lost (the browser will reconnect)
\* told: what it shows came with the answer of a command
Page == [link : {"away", "viewed", "open", "lost"}, after : Nat, shown : Nat, heard : Nat, fresh : BOOLEAN,
         told : BOOLEAN]

\* What the page showed when the command was given; once answered, the view it is answered with.
Command == [at : {"none", "sent", "answered"}, since : Nat, view : Nat]
NoCommand == [at |-> "none", since |-> 0, view |-> 0]

(* The file knows every id that was given, and no queue outgrows its size. *)
StreamTypeOK ==
    /\ canonical \in Nat /\ cursorFile \in Nat /\ lastId \in Nat /\ serving \in BOOLEAN /\ subscribed \in BOOLEAN
    /\ contextEvents \in Seq(Nat) /\ backlog \in Seq(Nat) /\ queue \in Seq(Nat) /\ page \in Page /\ asked \in Command
    /\ serving => cursorFile = lastId
    /\ ToSet(contextEvents) \subseteq 1..cursorFile /\ page.heard <= cursorFile
    /\ Len(queue) <= QueueSize /\ (subscribed => page.link = "open")

StreamInit ==
    /\ canonical = Unpublished /\ cursorFile = 1 /\ lastId = 1 /\ contextEvents = <<1>> /\ serving = TRUE
    /\ backlog = <<>> /\ queue = <<>> /\ subscribed = FALSE
    /\ page = [link |-> "away", after |-> 0, shown |-> 0, heard |-> 0, fresh |-> FALSE, told |-> FALSE]
    /\ asked = NoCommand

-----------------------------------------------------------------------------

\* A full queue loses its oldest event and is closed.
Offered(id) == IF Len(queue) < QueueSize THEN Append(queue, id) ELSE Append(Tail(queue), 0)

\* The file first, then memory and the subscribers, without an await.
Publish ==
    /\ serving /\ lastId < MaxEvent
    /\ canonical' \in {canonical, canonical + 1}
    /\ cursorFile' = lastId + 1 /\ lastId' = lastId + 1 /\ contextEvents' = Append(contextEvents, lastId + 1)
    /\ queue' = IF subscribed THEN Offered(lastId + 1) ELSE queue
    /\ subscribed' = (subscribed /\ Len(queue) < QueueSize)
    /\ UNCHANGED <<backlog, page, asked, serving>>

\* _read_sse_cursor
Restored == cursorFile

\* start publishes every run it has loaded.
StreamStarts ==
    /\ ~serving /\ serving' = TRUE
    /\ cursorFile' = Restored + 1 /\ lastId' = Restored + 1 /\ contextEvents' = <<Restored + 1>>
    /\ UNCHANGED <<canonical, backlog, queue, subscribed, page, asked>>

\* The Record and the cursor may be ahead of what was sent.
StreamCrashes ==
    /\ serving /\ lastId + 2 <= MaxEvent /\ serving' = FALSE /\ contextEvents' = <<>> /\ lastId' = 0
    /\ canonical' \in {canonical, canonical + 1}
    /\ cursorFile' \in {cursorFile, cursorFile + 1}
    /\ backlog' = <<>> /\ queue' = <<>> /\ subscribed' = FALSE
    /\ page' = IF page.link = "open" THEN [page EXCEPT !.link = "lost", !.fresh = FALSE] ELSE page
    /\ UNCHANGED asked

\* A service that closes empties the queues and ends the streams.
StreamCloses ==
    /\ serving /\ lastId + 2 <= MaxEvent /\ serving' = FALSE /\ contextEvents' = <<>> /\ lastId' = 0
    /\ queue' = (IF subscribed THEN <<0>> ELSE queue) /\ subscribed' = FALSE
    /\ UNCHANGED <<canonical, cursorFile, backlog, page, asked>>

-----------------------------------------------------------------------------
(* The page *)

\* GET of the run; also when it is loaded again (reloadRun, or another run was shown in
\* between), and a reload of the page, which forgets its command.
Views ==
    /\ serving /\ subscribed' = FALSE /\ backlog' = <<>> /\ queue' = <<>>
    /\ page' = [link |-> "viewed", after |-> canonical, shown |-> lastId, heard |-> 0, fresh |-> FALSE,
                told |-> FALSE]
    /\ asked' \in {asked, NoCommand}
    /\ UNCHANGED <<canonical, cursorFile, lastId, contextEvents, serving>>

\* Mutant: a page that comes back hears only what is new.
BacklogNothing(after) == <<>>

Backlog(after) == SelectSeq(contextEvents, LAMBDA i : i > after)

\* The first anext: the backlog and the queue, under one lock.
Subscribes ==
    /\ serving /\ page.link \in {"viewed", "lost"}
    /\ page' = [page EXCEPT !.link = "open", !.fresh = FALSE]
    /\ subscribed' = TRUE /\ backlog' = Backlog(page.after) /\ queue' = <<>>
    /\ UNCHANGED <<canonical, cursorFile, lastId, contextEvents, asked, serving>>

\* The browser remembers the id as Last-Event-ID.
Heard(id) == page' = [page EXCEPT !.after = id, !.heard = id, !.shown = id, !.fresh = TRUE, !.told = FALSE]

Hears ==
    /\ page.link = "open" /\ UNCHANGED <<canonical, cursorFile, lastId, contextEvents, subscribed, asked, serving>>
    /\ \/ backlog # <<>> /\ Heard(Head(backlog)) /\ backlog' = Tail(backlog) /\ UNCHANGED queue
       \/ /\ backlog = <<>> /\ queue # <<>> /\ Head(queue) # 0
          /\ Heard(Head(queue)) /\ queue' = Tail(queue) /\ UNCHANGED backlog

\* The connection is lost, or the service ends the stream of a slow page.
Disconnects ==
    /\ page.link = "open" /\ page' = [page EXCEPT !.link = "lost", !.fresh = FALSE]
    /\ backlog' = <<>> /\ queue' = <<>> /\ subscribed' = FALSE
    /\ UNCHANGED <<canonical, cursorFile, lastId, contextEvents, asked, serving>>

\* replaceRun, and createRun when no run is shown yet; one command at a time.
GivesCommand ==
    /\ asked.at = "none" /\ asked' = [at |-> "sent", since |-> page.shown, view |-> 0]
    /\ UNCHANGED <<canonical, cursorFile, lastId, contextEvents, backlog, queue, subscribed, page, serving>>

\* The view when the command was carried out; a second try under the same key gets it again.
Answers ==
    /\ serving /\ asked.at = "sent" /\ asked' = [at |-> "answered", since |-> 0, view |-> lastId]
    /\ UNCHANGED <<canonical, cursorFile, lastId, contextEvents, backlog, queue, subscribed, page, serving>>

\* The answer is shown whatever was heard since; one that comes before a load has landed is
\* shown only until it does.
AnswerLands ==
    /\ asked.at = "answered" /\ asked' = NoCommand
    /\ \/ page' = [page EXCEPT !.shown = asked.view, !.told = TRUE]
       \/ page.link = "viewed" /\ UNCHANGED page
    /\ UNCHANGED <<canonical, cursorFile, lastId, contextEvents, backlog, queue, subscribed, serving>>

CommandLost ==
    /\ asked.at # "none" /\ asked' = NoCommand
    /\ UNCHANGED <<canonical, cursorFile, lastId, contextEvents, backlog, queue, subscribed, page, serving>>

StreamNext ==
    \/ Publish \/ StreamStarts \/ StreamCrashes \/ StreamCloses
    \/ Views \/ Subscribes \/ Hears \/ Disconnects
    \/ GivesCommand \/ Answers \/ AnswerLands \/ CommandLost

StreamSpec == StreamInit /\ [][StreamNext]_streamVars

\* A stream that has ended does end, the browser reconnects, the service comes back, and a
\* connection that is made again and again delivers in the end.
StreamEnds == backlog = <<>> /\ queue # <<>> /\ Head(queue) = 0 /\ Disconnects
Reconnects == page.link = "lost" /\ Subscribes

-----------------------------------------------------------------------------

(* Between two loads of its page a reader never hears an event twice or    *)
(* after a newer one: not when the stream of a slow reader was closed and  *)
(* not when the service was restarted in between.                          *)
HeardInOrder ==
    [][Hears => page'.heard > page.heard]_streamVars

(* Whoever has drained a stream that has sent something has heard the      *)
(* latest change: nothing falls between the backlog and the queue.  It     *)
(* shows it too, unless the answer of a command landed since the last      *)
(* event.                                                                  *)
DrainedIsLatest ==
    page.link = "open" /\ page.fresh /\ backlog = <<>> /\ queue = <<>> /\ serving
        => page.heard = lastId /\ (page.told \/ page.shown = lastId)

(* The answer of a command may be older than what was heard while it was   *)
(* under way, but never than what the page showed when the command was     *)
(* given: not when the service started again in between.                   *)
AnswersNoOlder == [][Answers => asked'.view >= asked.since]_streamVars

(* A page that has heard something hears every later change, or a newer    *)
(* one, whatever is lost, closed or restarted.                             *)
CatchesUp ==
    \A id \in 1..MaxEvent : page.heard > 0 /\ cursorFile >= id ~> page.heard >= id \/ page.heard = 0

(* A page that follows a run hears of it as it is, in order, in the end,   *)
(* and no answer takes it back behind its command.                         *)
PageFollows == HeardInOrder /\ [](StreamTypeOK /\ DrainedIsLatest) /\ AnswersNoOlder /\ CatchesUp

-----------------------------------------------------------------------------
(* What the repository says and the service does not do                    *)

(* derivation_api/README.md: "a slow client is closed and reconnects from  *)
(* its last processed id": no event of the run is passed over.             *)
StreamHasNoGap ==
    [][page.heard > 0 /\ page'.heard > page.heard
       => \A id \in ToSet(contextEvents) : ~(page.heard < id /\ id < page'.heard)]_streamVars

=============================================================================
