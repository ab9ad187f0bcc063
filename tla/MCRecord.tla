------------------------------ MODULE MCRecord ------------------------------
(* Instances of RecordContract for TLC.  The identifiers of a kind are     *)
(* interchangeable, and no handler orders them: it is enough to follow the *)
(* logs that introduce them in increasing order.                           *)
EXTENDS RecordContract

InOrder(table, ids) == \A x \in DOMAIN table : \A y \in ids : y < x => y \in DOMAIN table

Canonical ==
    /\ InOrder(branches, Branch) /\ InOrder(steps, Step) /\ InOrder(calls, Call)
    /\ InOrder(checks, Check) /\ InOrder(candidates, Candidate)
    /\ InOrder(judgements, Judgement) /\ InOrder(actions, Action)

(* The logs RecordEvents follows: a log belongs to one of two families for  *)
(* as long as it only holds the objects and kinds of event the family      *)
(* names.                                                                  *)
AtMost(n, table) == Cardinality(DOMAIN table) <= n

\* Checks around a candidate, retried calls, a judgement, a selection.
Checks ==
    /\ AtMost(2, calls) \/ AtMost(1, checks)
    /\ sources = {} /\ \A a \in DOMAIN actions : actions[a].kind \in {"resume_branch", "select_candidate"}
    /\ \A b \in DOMAIN branches : branches[b].moved \in {"root", "writer_complete"} \cup ChildReasons
    /\ \A c \in DOMAIN calls :
          calls[c].state # "aborted" /\ calls[c].raw = <<>> /\ {calls[c].out, calls[c].norm} \subseteq {None, 91}

\* Every kind of human action, branch move and end of a call.
Life == AtMost(1, calls) /\ AtMost(1, checks)

Families == Checks \/ Life

=============================================================================
