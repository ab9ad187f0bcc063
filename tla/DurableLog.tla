----------------------------- MODULE DurableLog -----------------------------
(***************************************************************************)
(* What the event log promises its users.  Whoever opens it finds every    *)
(* event it ever acknowledged, in order, perhaps followed by events whose  *)
(* append was cut off; what it cannot show this way it does not open.      *)
(***************************************************************************)
EXTENDS Naturals, Sequences

CONSTANTS Event, Closed

VARIABLES
    told,  \* the events whose append returned
    view   \* what the one open writer holds, or Closed

logInterface == <<told, view>>

LogInit == told = <<>> /\ view = Closed

OpenLog ==
    /\ view = Closed
    /\ view' \in Seq(Event)
    /\ Len(told) <= Len(view') /\ SubSeq(view', 1, Len(told)) = told
    /\ UNCHANGED told

Extend(e) ==
    /\ view # Closed
    /\ view' = Append(view, e) /\ told' = view'

CloseLog == view # Closed /\ view' = Closed /\ UNCHANGED told

LogNext == OpenLog \/ CloseLog \/ \E e \in Event : Extend(e)

LogSpec == LogInit /\ [][LogNext]_logInterface

=============================================================================
