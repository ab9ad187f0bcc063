------------------------------ MODULE EventLog ------------------------------
(***************************************************************************)
(* The event log of one run, derivation_runtime/record.py and load_events  *)
(* of derivation_agent_record/model.py: a file of lines, one event each,   *)
(* and the writer's copy of it.  An event carries the hash of the one      *)
(* before it, so that its own hash stands for its whole history: here the  *)
(* hash of an event is that history, the sequence that ends in it.         *)
(***************************************************************************)
EXTENDS Naturals, Sequences

CONSTANTS
    Event,      \* what a caller may append
    MaxEvents,  \* bound: the longest history, and the most lines
    Tears,      \* how a write may be cut off: before the end, or before the newline
    Errors,     \* whether a write or an fsync may fail and leave its writer alive
    Closed, Garbage

ASSUME LogAssumption ==
    /\ MaxEvents \in Nat /\ Tears \subseteq {"cut", "bare"} /\ Errors \in BOOLEAN
    /\ Closed \notin Seq(Event) /\ Garbage \notin Seq(Event)

VARIABLES
    file,     \* the lines on the disk: what a line says, and whether it is ended
    synced,   \* how many of them survive a loss of power
    events,   \* the writer's events: the hash of the last one, or Closed
    pending,  \* the history just written and not yet synced, or Closed
    acked     \* the history of the last event whose append returned

fileVars == <<file, synced, events, pending, acked>>

History == Seq(Event)
LogLine    == [says : History \cup {Garbage}, ended : BOOLEAN]

FileTypeOK ==
    /\ file \in Seq(LogLine)
    /\ synced \in 0 .. Len(file)
    /\ events \in History \cup {Closed}
    /\ pending \in History \cup {Closed}
    /\ acked \in History

FileInit == file = <<>> /\ synced = 0 /\ events = Closed /\ pending = Closed /\ acked = <<>>

-----------------------------------------------------------------------------

Whole(h) == [says |-> h, ended |-> TRUE]
Torn(h, tear) == [says |-> IF tear = "bare" THEN h ELSE Garbage, ended |-> FALSE]

\* Text written after a line that was not ended becomes part of that line.
Joined(f, line) ==
    IF f # <<>> /\ ~f[Len(f)].ended
    THEN [f EXCEPT ![Len(f)] = [says |-> Garbage, ended |-> line.ended]]
    ELSE Append(f, line)

\* Every line parses, and extends the line before it by one event.
Loads(f) ==
    \A i \in 1 .. Len(f) :
       /\ f[i].says # Garbage /\ Len(f[i].says) = i
       /\ i > 1 => SubSeq(f[i].says, 1, i - 1) = f[i - 1].says

LastSaid(f) == IF f = <<>> THEN <<>> ELSE f[Len(f)].says

-----------------------------------------------------------------------------

\* Mutant: a torn file is opened as it is.
OpenTorn ==
    /\ events = Closed /\ events' = LastSaid(file)
    /\ UNCHANGED <<file, synced, pending, acked>>

\* A file that does not load is not opened.
OpenWriter ==
    /\ events = Closed /\ Loads(file)
    /\ events' = LastSaid(file)
    /\ UNCHANGED <<file, synced, pending, acked>>

\* append, up to the flush: the event is made from the writer's events.
WriterIdle == events # Closed /\ pending = Closed /\ Len(events) < MaxEvents /\ Len(file) <= MaxEvents

\* Mutant: an append returns before its fsync.
WriteLineAcks(e) ==
    /\ WriterIdle
    /\ file' = Joined(file, Whole(Append(events, e)))
    /\ events' = Append(events, e) /\ acked' = events' /\ UNCHANGED <<synced, pending>>

WriteLine(e) ==
    /\ WriterIdle
    /\ file' = Joined(file, Whole(Append(events, e)))
    /\ pending' = Append(events, e)
    /\ UNCHANGED <<synced, events, acked>>

Fsync ==
    /\ pending # Closed
    /\ synced' = Len(file) /\ events' = pending /\ acked' = pending /\ pending' = Closed
    /\ UNCHANGED file

\* append raises: the event is not adopted, what reached the file stays there.
AppendFails(e) ==
    /\ Errors /\ WriterIdle
    /\ \E tear \in Tears : file' = Joined(file, Torn(Append(events, e), tear))
    /\ UNCHANGED <<synced, events, pending, acked>>

FsyncFails ==
    /\ Errors /\ pending # Closed /\ pending' = Closed
    /\ UNCHANGED <<file, synced, events, acked>>

\* The process ends at any point, in the middle of a write too.
KillWriter ==
    /\ events # Closed /\ events' = Closed /\ pending' = Closed
    /\ \/ UNCHANGED file
       \/ WriterIdle /\ \E e \in Event, tear \in Tears : file' = Joined(file, Torn(Append(events, e), tear))
    /\ UNCHANGED <<synced, acked>>

\* What was not synced may be lost, in whole or but for a part of a line.
LosePower ==
    /\ events' = Closed /\ pending' = Closed
    /\ \E k \in synced .. Len(file) :
          \/ file' = SubSeq(file, 1, k)
          \/ k > synced /\ \E tear \in Tears :
                file' = Append(SubSeq(file, 1, k - 1), Torn(file[k].says, tear))
    /\ synced' = Len(file')
    /\ UNCHANGED acked

FileNext ==
    \/ OpenWriter \/ Fsync \/ FsyncFails \/ KillWriter \/ LosePower
    \/ \E e \in Event : WriteLine(e) \/ AppendFails(e)

FileSpec == FileInit /\ [][FileNext]_fileVars

-----------------------------------------------------------------------------

Log == INSTANCE DurableLog WITH told <- acked, view <- events

(* Whatever is cut off, by a crash, a loss of power or an error of the     *)
(* disk, a file that opens shows every acknowledged event.  The log never  *)
(* repairs a file and never shows less of it.                              *)
LogIsDurable == Log!LogSpec /\ []FileTypeOK

=============================================================================
