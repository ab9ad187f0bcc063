---------------------------- MODULE RecordProofs ----------------------------
(* Theorems about RecordContract, for every set of identifiers, both       *)
(* record versions and every limit.                                        *)
EXTENDS RecordContract, SequenceTheorems, FiniteSetTheorems, WellFoundedInduction, TLAPS

(***************************************************************************)
(* Type correctness.                                                       *)
(***************************************************************************)

(* Registering a new entry keeps a table typed.                            *)
LEMMA TablePut ==
  ASSUME NEW f, NEW ids, NEW recs, Table(f, ids, recs),
         NEW k \in ids, NEW v \in recs
  PROVE  Table(Put(f, k, v), ids, recs)
BY DEF Table, Put

(* Updating an entry keeps a table typed.                                  *)
LEMMA TableUpdate ==
  ASSUME NEW f, NEW ids, NEW recs, Table(f, ids, recs),
         NEW k \in DOMAIN f, NEW v \in recs
  PROVE  Table([f EXCEPT ![k] = v], ids, recs)
BY DEF Table

(* A set of naturals that is not empty has a least member.                 *)
LEMMA LeastMember ==
  ASSUME NEW T, T \subseteq Nat, T # {}
  PROVE  \E x \in T : \A y \in T : x <= y
<1> DEFINE LT == {ss \in Nat \X Nat : ss[1] < ss[2]}
<1>1. IsWellFoundedOn(LT, Nat)
  BY NatLessThanWellFounded, Zenon DEF OpToRel
<1> HIDE DEF LT
<1>2. PICK x \in T : \A y \in T : ~(<<y, x>> \in LT)
  BY <1>1, WFMin
<1>3. ASSUME NEW y \in T PROVE x <= y
  <2>1. x \in Nat /\ y \in Nat /\ ~(<<y, x>> \in LT)
    BY <1>2
  <2>2. <<y, x>> \in Nat \X Nat /\ <<y, x>>[1] = y /\ <<y, x>>[2] = x
    BY <2>1
  <2>3. ~(y < x)
    BY <2>1, <2>2 DEF LT
  <2> QED
    BY <2>1, <2>3
<1> QED
  BY <1>3

(* list.index finds the first position of a member, and the prefix it cuts *)
(* is the route up to it.                                                  *)
LEMMA IndexProperties ==
  ASSUME NEW route \in Seq(Step), NEW s \in Elems(route)
  PROVE  IndexOf(route, s) \in DOMAIN route /\ route[IndexOf(route, s)] = s
<1> DEFINE P(i) == route[i] = s /\ \A j \in 1..(i - 1) : route[j] # s
           Hit == {i \in DOMAIN route : route[i] = s}
<1>1. Hit \subseteq Nat /\ Hit # {} /\ DOMAIN route = 1..Len(route)
  BY LenProperties DEF Elems
<1>2. PICK m \in Hit : \A x \in Hit : m <= x
  BY <1>1, LeastMember
<1>3. P(m)
  BY <1>1, <1>2
<1>4. P(IndexOf(route, s)) /\ IndexOf(route, s) \in DOMAIN route
  BY <1>2, <1>3 DEF IndexOf
<1> QED
  BY <1>4

LEMMA PrefixProperties ==
  ASSUME NEW route \in Seq(Step), NEW mode, NEW s \in Elems(route)
  PROVE  /\ Prefix(route, mode, s) \in Seq(Step)
         /\ Len(Prefix(route, mode, s)) =
               IF mode = "after" THEN IndexOf(route, s) ELSE IndexOf(route, s) - 1
         /\ \A i \in 1..Len(Prefix(route, mode, s)) : Prefix(route, mode, s)[i] = route[i]
<1> DEFINE n == IF mode = "after" THEN IndexOf(route, s) ELSE IndexOf(route, s) - 1
<1>1. n \in Nat /\ n <= Len(route)
  BY IndexProperties, LenProperties
<1>2. \A i \in 1..n : route[i] \in Step
  BY <1>1, ElementOfSeq
<1>3. Prefix(route, mode, s) = SubSeq(route, 1, n)
  BY DEF Prefix
<1> HIDE DEF n
<1>4. /\ SubSeq(route, 1, n) \in Seq(Step)
      /\ Len(SubSeq(route, 1, n)) = n
      /\ \A i \in 1..n : SubSeq(route, 1, n)[i] = route[i]
  BY <1>1, <1>2, SubSeqProperties
<1> QED
  BY <1>3, <1>4 DEF n

(* No entry yet: the empty function.                                       *)
LEMMA EmptyTable ==
  ASSUME NEW ids, NEW recs
  PROVE  Table(<<>>, ids, recs) /\ DOMAIN <<>> = {}
<1>1. <<>> \in [1..0 -> {}] /\ DOMAIN <<>> = 1..0
  BY EmptySeq, LenProperties
<1> QED
  BY <1>1 DEF Table

LEMMA TypeInit == Init => TypeOK
BY EmptyTable DEF Init, TypeOK

(* A branch entry is updated field by field: status and reason, or route.  *)
LEMMA BranchFields ==
  ASSUME NEW r \in BranchRec, NEW st \in Statuses,
         NEW why \in Created \cup StatusReasons \cup {"model_superseded"},
         NEW route \in Seq(Step)
  PROVE  /\ [r EXCEPT !.status = st, !.moved = why] \in BranchRec
         /\ [r EXCEPT !.route = route] \in BranchRec
<1>1. [r EXCEPT !.route = route] \in BranchRec
  BY DEF BranchRec
<1>2. [r EXCEPT !.status = st] \in BranchRec
  BY DEF BranchRec
<1> DEFINE r2 == [r EXCEPT !.status = st]
<1>3. [r2 EXCEPT !.moved = why] \in BranchRec
  <2> HIDE DEF r2
  <2>1. r2 \in BranchRec
    BY <1>2 DEF r2
  <2> QED
    BY <2>1 DEF BranchRec
<1> QED
  BY <1>1, <1>3 DEF r2

LEMMA TypeRun ==
  TypeOK /\ (RunCreated \/ \E e \in Source : SourceEvidenceRegistered(e)) => TypeOK'
BY DEF TypeOK, RunCreated, SourceEvidenceRegistered

LEMMA TypeHumanAction ==
  ASSUME TypeOK, NEW a \in Action, HumanActionRecorded(a)
  PROVE  TypeOK'
<1>1. PICK act \in PossibleActions : HumanAction(a, act)
  BY DEF HumanActionRecorded
<1>2. act \in ActionRec
  BY DEF PossibleActions, ActionRec, ActionsOn, TypeOK, Table
<1>3. Table(actions', Action, ActionRec)
  BY <1>1, <1>2, TablePut DEF HumanAction, TypeOK
<1> QED
  BY <1>1, <1>3 DEF HumanAction, TypeOK

LEMMA TypeBranchEvent == TypeOK /\ BranchEvent => TypeOK'
<1> SUFFICES ASSUME TypeOK, NEW b \in Branch PROVE
      /\ \A status \in {"active", "paused"} :
           /\ RootBranchCreated(b, status) => TypeOK'
           /\ \A p \in DOMAIN branches, anchor \in DOMAIN steps, mode \in {"after", "replace"},
                reason \in ChildReasons, a \in DOMAIN actions \cup {None} :
                ChildBranchCreated(b, p, anchor, mode, reason, a, status) => TypeOK'
      /\ \A to \in Statuses, reason \in Moves, a \in DOMAIN actions \cup {None},
            k \in DOMAIN checks \cup {None}, c \in DOMAIN calls \cup {None} :
            BranchStatusChanged(b, to, reason, a, k, c) => TypeOK'
  BY Zenon DEF BranchEvent
<1> USE DEF Statuses, Created
<1>1. ASSUME NEW status \in {"active", "paused"}, RootBranchCreated(b, status) PROVE TypeOK'
  <2> DEFINE rec == [parent |-> None, mode |-> "root", anchor |-> None, inherited |-> 0,
                     route |-> <<>>, status |-> status, reason |-> "root", moved |-> "root"]
  <2>1. rec \in BranchRec
    BY EmptySeq DEF BranchRec
  <2>2. Table(Put(branches, b, rec), Branch, BranchRec)
    BY <2>1, TablePut DEF TypeOK
  <2> QED
    BY <1>1, <2>2 DEF RootBranchCreated, TypeOK
<1>2. ASSUME NEW status \in {"active", "paused"},
             NEW p \in DOMAIN branches, NEW anchor \in DOMAIN steps, NEW mode \in {"after", "replace"},
             NEW reason \in ChildReasons, NEW a \in DOMAIN actions \cup {None},
             ChildBranchCreated(b, p, anchor, mode, reason, a, status)
      PROVE  TypeOK'
  <2> DEFINE pre == Prefix(branches[p].route, mode, anchor)
             rec == [parent |-> p, mode |-> mode, anchor |-> anchor, inherited |-> Len(pre),
                     route |-> pre, status |-> status, reason |-> reason, moved |-> reason]
  <2>1. branches[p].route \in Seq(Step) /\ p \in Branch /\ anchor \in Step
    BY DEF TypeOK, Table, BranchRec
  <2>2. pre \in Seq(Step)
    BY <1>2, <2>1, PrefixProperties DEF ChildBranchCreated
  <2>3. Len(pre) \in Nat
    BY <2>2, LenProperties
  <2> HIDE DEF pre
  <2>4. rec \in BranchRec
    BY <2>1, <2>2, <2>3 DEF BranchRec
  <2>5. Table(Put(branches, b, rec), Branch, BranchRec)
    BY <2>4, TablePut DEF TypeOK
  <2>6. branches' = Put(branches, b, rec)
    BY <1>2 DEF ChildBranchCreated, pre
  <2> QED
    BY <1>2, <2>5, <2>6 DEF ChildBranchCreated, TypeOK
<1>3. ASSUME NEW to \in Statuses, NEW reason \in Moves, NEW a \in DOMAIN actions \cup {None},
             NEW k \in DOMAIN checks \cup {None}, NEW c \in DOMAIN calls \cup {None},
             BranchStatusChanged(b, to, reason, a, k, c)
      PROVE  TypeOK'
  <2> DEFINE rec == [branches[b] EXCEPT !.status = to, !.moved = reason]
  <2>1. b \in DOMAIN branches /\ branches[b] \in BranchRec
    BY <1>3 DEF BranchStatusChanged, TypeOK, Table
  <2>2. rec \in BranchRec
    BY <2>1, ScopeAssumption, BranchFields, EmptySeq
  <2>3. branches' = [branches EXCEPT ![b] = rec]
    BY <1>3, <2>1 DEF BranchStatusChanged
  <2>4. Table([branches EXCEPT ![b] = rec], Branch, BranchRec)
    BY <2>1, <2>2, TableUpdate DEF TypeOK
  <2> QED
    BY <1>3, <2>3, <2>4 DEF BranchStatusChanged, TypeOK
<1> QED
  BY <1>1, <1>2, <1>3

(* The call handlers change one field of a call entry at a time.           *)
LEMMA CallFields ==
  ASSUME NEW r \in CallRec, NEW body \in Content \cup {None},
         NEW state \in {"started", "finished", "failed", "aborted"},
         NEW raw \in Seq(Control), NEW d \in {None, "revision_deferred", "route_completion"}
  PROVE  /\ [r EXCEPT !.raw = raw] \in CallRec
         /\ [r EXCEPT !.norm = body] \in CallRec
         /\ [r EXCEPT !.disposition = d] \in CallRec
         /\ [r EXCEPT !.state = state, !.out = body] \in CallRec
<1>1. /\ [r EXCEPT !.raw = raw] \in CallRec
      /\ [r EXCEPT !.norm = body] \in CallRec
      /\ [r EXCEPT !.disposition = d] \in CallRec
  BY DEF CallRec
<1> DEFINE r2 == [r EXCEPT !.state = state]
<1>2. r2 \in CallRec
  BY DEF CallRec
<1>3. [r2 EXCEPT !.out = body] \in CallRec
  <2> HIDE DEF r2
  <2> QED
    BY <1>2 DEF CallRec
<1> QED
  BY <1>1, <1>3 DEF r2

LEMMA TypeCallUpdate ==
  ASSUME TypeOK, NEW c \in DOMAIN calls, NEW rec \in CallRec,
         calls' = [calls EXCEPT ![c] = rec],
         UNCHANGED <<run, sources, actions, steps, checks, candidates, judgements, selections>>,
         Table(branches', Branch, BranchRec)
  PROVE  TypeOK'
<1>1. Table(calls', Call, CallRec)
  BY TableUpdate DEF TypeOK
<1> QED
  BY <1>1 DEF TypeOK

LEMMA TypeCallEvent == TypeOK /\ CallEvent => TypeOK'
<1> SUFFICES ASSUME TypeOK, NEW c \in Call PROVE
      /\ \A role \in Roles, target \in Targets : ModelCallStarted(c, role, target) => TypeOK'
      /\ \A ctl \in Control : ModelCallChunk(c, ctl) => TypeOK'
      /\ \A out \in Content \cup {None} :
           /\ ModelCallFinished(c, out) => TypeOK'
           /\ ModelCallFailed(c, out) => TypeOK'
           /\ \A a \in DOMAIN actions : ModelCallAborted(c, out, a) => TypeOK'
      /\ \A content \in Content : WriterOutputNormalized(c, content) => TypeOK'
      /\ \A target \in Step : ModelRevisionDeferred(c, target) => TypeOK'
      /\ \A b \in DOMAIN branches : WriterRouteCompletion(b, c) => TypeOK'
  BY Zenon DEF CallEvent
<1>0. \A x \in DOMAIN calls : calls[x] \in CallRec /\ calls[x].raw \in Seq(Control)
  BY DEF TypeOK, Table, CallRec
<1>b. Table(branches, Branch, BranchRec)
  BY DEF TypeOK
<1>1. ASSUME NEW role \in Roles, NEW target \in Targets, ModelCallStarted(c, role, target)
      PROVE  TypeOK'
  <2> DEFINE rec == [role |-> role, target |-> target, state |-> "started", raw |-> <<>>,
                     out |-> None, norm |-> None, disposition |-> None]
  <2>1. target \in Targeting
    <3>1. ASSUME NEW b \in ActiveBranches, target = <<b, NextSlot(b)>>
          PROVE  target \in Targeting
      <4>1. b \in Branch /\ branches[b].route \in Seq(Step)
        BY <3>1, <1>b DEF ActiveBranches, Table, BranchRec
      <4>2. NextSlot(b) \in Nat \ {0}
        BY <4>1, LenProperties DEF NextSlot
      <4> QED
        BY <3>1, <4>1, <4>2 DEF Targeting
    <3>2. CASE \E x \in DOMAIN checks \cup DOMAIN judgements : target = <<x>>
      BY <3>2 DEF Targeting, TypeOK, Table
    <3> QED
      BY <3>1, <3>2 DEF Targets
  <2>2. rec \in CallRec
    BY <2>1, EmptySeq DEF CallRec
  <2>3. Table(Put(calls, c, rec), Call, CallRec)
    BY <2>2, TablePut DEF TypeOK
  <2> QED
    BY <1>1, <2>3 DEF ModelCallStarted, TypeOK
<1>2. ASSUME NEW ctl \in Control, ModelCallChunk(c, ctl) PROVE TypeOK'
  <2> DEFINE raw == Append(calls[c].raw, ctl)
  <2>1. c \in DOMAIN calls
    BY <1>2 DEF ModelCallChunk, InFlight
  <2>2. raw \in Seq(Control)
    BY <2>1, <1>0
  <2>3. calls' = [calls EXCEPT ![c] = [calls[c] EXCEPT !.raw = raw]]
    BY <1>2, <2>1 DEF ModelCallChunk
  <2>4. [calls[c] EXCEPT !.raw = raw] \in CallRec
    BY <2>1, <2>2, <1>0, CallFields
  <2> QED
    BY <1>2, <1>b, <2>1, <2>3, <2>4, TypeCallUpdate DEF ModelCallChunk
<1>3. ASSUME NEW out \in Content \cup {None}, NEW state \in {"finished", "failed", "aborted"},
             Terminate(c, state, out)
      PROVE  TypeOK'
  <2>1. c \in DOMAIN calls
    BY <1>3 DEF Terminate, InFlight
  <2>2. calls' = [calls EXCEPT ![c] = [calls[c] EXCEPT !.state = state, !.out = out]]
    BY <1>3, <2>1 DEF Terminate
  <2>3. [calls[c] EXCEPT !.state = state, !.out = out] \in CallRec
    BY <2>1, <1>0, CallFields
  <2> QED
    BY <1>3, <1>b, <2>1, <2>2, <2>3, TypeCallUpdate DEF Terminate
<1>4. ASSUME NEW content \in Content, WriterOutputNormalized(c, content) PROVE TypeOK'
  <2>1. c \in DOMAIN calls
    BY <1>4 DEF WriterOutputNormalized
  <2>2. calls' = [calls EXCEPT ![c] = [calls[c] EXCEPT !.norm = content]]
    BY <1>4, <2>1 DEF WriterOutputNormalized
  <2>3. [calls[c] EXCEPT !.norm = content] \in CallRec
    BY <2>1, <1>0, CallFields
  <2> QED
    BY <1>4, <1>b, <2>1, <2>2, <2>3, TypeCallUpdate DEF WriterOutputNormalized
<1>5. ASSUME NEW target \in Step, ModelRevisionDeferred(c, target) PROVE TypeOK'
  <2>1. c \in DOMAIN calls
    BY <1>5 DEF ModelRevisionDeferred
  <2>2. calls' = [calls EXCEPT ![c] = [calls[c] EXCEPT !.disposition = "revision_deferred"]]
    BY <1>5, <2>1 DEF ModelRevisionDeferred
  <2>3. [calls[c] EXCEPT !.disposition = "revision_deferred"] \in CallRec
    BY <2>1, <1>0, CallFields
  <2> QED
    BY <1>5, <1>b, <2>1, <2>2, <2>3, TypeCallUpdate DEF ModelRevisionDeferred
<1>6. ASSUME NEW b \in DOMAIN branches, WriterRouteCompletion(b, c) PROVE TypeOK'
  <2> DEFINE rec == [branches[b] EXCEPT !.status = "completed", !.moved = "writer_complete"]
  <2>1. c \in DOMAIN calls
    BY <1>6 DEF WriterRouteCompletion
  <2>2. calls' = [calls EXCEPT ![c] = [calls[c] EXCEPT !.disposition = "route_completion"]]
    BY <1>6, <2>1 DEF WriterRouteCompletion
  <2>3. [calls[c] EXCEPT !.disposition = "route_completion"] \in CallRec
    BY <2>1, <1>0, CallFields
  <2>4. rec \in BranchRec
    BY BranchFields, EmptySeq DEF TypeOK, Table, Statuses, StatusReasons
  <2>5. branches' = [branches EXCEPT ![b] = rec]
    BY <1>6 DEF WriterRouteCompletion
  <2>6. Table(branches', Branch, BranchRec)
    BY <1>b, <2>4, <2>5, TableUpdate
  <2> QED
    BY <1>6, <2>1, <2>2, <2>3, <2>6, TypeCallUpdate DEF WriterRouteCompletion
<1> QED
  BY <1>1, <1>2, <1>3, <1>4, <1>5, <1>6
     DEF ModelCallFinished, ModelCallFailed, ModelCallAborted

(* The output a writer call has, if any, is a content.                     *)
LEMMA OutputTyped ==
  ASSUME TypeOK, NEW c \in DOMAIN calls, WriterOutput(c) # None
  PROVE  WriterOutput(c) \in Content
BY DEF TypeOK, Table, CallRec, WriterOutput

LEMMA TypeSeal ==
  ASSUME TypeOK, NEW s \in Step, NEW b \in Branch, NEW replaces \in DOMAIN steps \cup {None},
         NEW content \in Content, NEW c \in Call \cup {None}, NEW a \in Action \cup {None},
         Seal(s, b, replaces, content, c, a)
  PROVE  TypeOK'
<1> DEFINE rec == [branch |-> b, slot |-> NextSlot(b), revision |-> Revision(replaces),
                   replaces |-> replaces, content |-> content, call |-> c, action |-> a]
           route == Append(branches[b].route, s)
<1>1. b \in DOMAIN branches /\ branches[b] \in BranchRec /\ branches[b].route \in Seq(Step)
  BY DEF Seal, ActiveBranches, TypeOK, Table, BranchRec
<1>2. NextSlot(b) \in Nat \ {0}
  BY <1>1, LenProperties DEF NextSlot
<1>3. Revision(replaces) \in Nat \ {0}
  BY NoneAssumption DEF Revision, TypeOK, Table, StepRec
<1>4. replaces \in Step \cup {None}
  BY DEF TypeOK, Table
<1>5. rec \in StepRec
  BY <1>2, <1>3, <1>4 DEF StepRec
<1>6. route \in Seq(Step)
  BY <1>1
<1>7. [branches[b] EXCEPT !.route = route] \in BranchRec
  BY <1>1, <1>6, BranchFields DEF Statuses, Created
<1>8. branches' = [branches EXCEPT ![b] = [branches[b] EXCEPT !.route = route]]
  BY <1>1 DEF Seal, Extended
<1>9. Table(branches', Branch, BranchRec)
  BY <1>1, <1>7, <1>8, TableUpdate DEF TypeOK
<1>10. Table(steps', Step, StepRec)
  BY <1>5, TablePut DEF Seal, TypeOK
<1> QED
  BY <1>9, <1>10 DEF Seal, TypeOK

LEMMA TypeRevision ==
  ASSUME TypeOK, NEW s \in Step, NEW b \in Branch, NEW p \in DOMAIN branches,
         NEW old \in DOMAIN steps, NEW c \in DOMAIN calls,
         ModelRevisionApplied(p, b, old, s, c)
  PROVE  TypeOK'
<1> DEFINE pre == Prefix(branches[p].route, "replace", old)
           parked == [branches[p] EXCEPT !.status = "parked", !.moved = "model_superseded"]
           child == [parent |-> p, mode |-> "replace", anchor |-> old,
                     inherited |-> Len(pre), route |-> Append(pre, s),
                     status |-> "active", reason |-> "model_revision", moved |-> "model_revision"]
           rec == [branch |-> b, slot |-> steps[old].slot, revision |-> steps[old].revision + 1,
                   replaces |-> old, content |-> WriterOutput(c), call |-> c, action |-> None]
<1>1. /\ branches[p] \in BranchRec /\ branches[p].route \in Seq(Step) /\ p \in Branch
      /\ steps[old] \in StepRec /\ old \in Step /\ c \in Call
  BY DEF TypeOK, Table, BranchRec
<1>2. pre \in Seq(Step) /\ Len(pre) \in Nat /\ Append(pre, s) \in Seq(Step)
  <2>1. pre \in Seq(Step)
    BY <1>1, PrefixProperties DEF ModelRevisionApplied
  <2> HIDE DEF pre
  <2> QED
    BY <2>1, LenProperties
<1> HIDE DEF pre
<1>3. parked \in BranchRec
  BY <1>1, BranchFields, EmptySeq DEF Statuses
<1>4. child \in BranchRec
  BY <1>1, <1>2 DEF BranchRec, Statuses, Created
<1>5. rec \in StepRec
  BY <1>1, OutputTyped DEF StepRec, ModelRevisionApplied
<1>6. branches' = Put([branches EXCEPT ![p] = parked], b, child)
  BY DEF ModelRevisionApplied, pre
<1>7. steps' = Put(steps, s, rec)
  BY DEF ModelRevisionApplied, pre
<1>8. Table(branches', Branch, BranchRec)
  <2>1. Table([branches EXCEPT ![p] = parked], Branch, BranchRec)
    BY <1>3, TableUpdate DEF TypeOK
  <2> QED
    BY <1>4, <1>6, <2>1, TablePut
<1>9. Table(steps', Step, StepRec)
  BY <1>5, <1>7, TablePut DEF TypeOK
<1> QED
  BY <1>8, <1>9 DEF ModelRevisionApplied, TypeOK

LEMMA TypeStepEvent == TypeOK /\ StepEvent => TypeOK'
<1> SUFFICES ASSUME TypeOK, NEW s \in Step, NEW b \in Branch PROVE
      /\ \A replaces \in DOMAIN steps \cup {None} :
           /\ \A c \in DOMAIN calls : ModelStepSealed(s, b, replaces, c) => TypeOK'
           /\ \A a \in DOMAIN actions : HumanStepSealed(s, b, replaces, a) => TypeOK'
      /\ \A p \in DOMAIN branches, old \in DOMAIN steps, c \in DOMAIN calls :
           ModelRevisionApplied(p, b, old, s, c) => TypeOK'
  BY Zenon DEF StepEvent
<1>1. ASSUME NEW replaces \in DOMAIN steps \cup {None}, NEW c \in DOMAIN calls,
             ModelStepSealed(s, b, replaces, c)
      PROVE  TypeOK'
  <2>1. c \in Call
    BY DEF TypeOK, Table
  <2>2. WriterOutput(c) \in Content /\ Seal(s, b, replaces, WriterOutput(c), c, None)
    BY <1>1, OutputTyped DEF ModelStepSealed
  <2> QED
    BY <2>1, <2>2, TypeSeal
<1>2. ASSUME NEW replaces \in DOMAIN steps \cup {None}, NEW a \in DOMAIN actions,
             HumanStepSealed(s, b, replaces, a)
      PROVE  TypeOK'
  <2>1. a \in Action /\ actions[a] \in ActionRec /\ actions[a].kind = "revise_step"
    BY <1>2 DEF TypeOK, Table, HumanStepSealed, CitesAction
  <2>2. actions[a].content \in Content
    BY <2>1 DEF ActionRec, ActionsOn, BranchActions
  <2> QED
    BY <1>2, <2>1, <2>2, TypeSeal DEF HumanStepSealed
<1> QED
  BY <1>1, <1>2, TypeRevision

(* The completed entries, field by field.                                  *)
LEMMA CompletedCheck ==
  ASSUME NEW r \in CheckRec, NEW verdict \in CheckVerdicts, NEW c \in Call,
         NEW evidence \in SUBSET (Step \cup Branch \cup Source \cup {Task}),
         NEW known \in SUBSET Action
  PROVE  [r EXCEPT !.state = "completed", !.verdict = verdict, !.call = c,
                   !.evidence = evidence, !.known = known] \in CheckRec
<1> DEFINE r1 == [r EXCEPT !.state = "completed"]
           r2 == [r1 EXCEPT !.verdict = verdict]
           r3 == [r2 EXCEPT !.call = c]
           r4 == [r3 EXCEPT !.evidence = evidence]
<1>1. r1 \in CheckRec
  BY DEF CheckRec
<1> HIDE DEF r1
<1>2. r2 \in CheckRec
  BY <1>1 DEF CheckRec
<1> HIDE DEF r2
<1>3. r3 \in CheckRec
  BY <1>2 DEF CheckRec
<1> HIDE DEF r3
<1>4. r4 \in CheckRec
  BY <1>3 DEF CheckRec
<1> HIDE DEF r4
<1>5. [r4 EXCEPT !.known = known] \in CheckRec
  BY <1>4 DEF CheckRec
<1> QED
  BY <1>5 DEF r1, r2, r3, r4

LEMMA CompletedJudgement ==
  ASSUME NEW r \in JudgementRec, NEW verdict \in JudgeVerdicts, NEW c \in Call
  PROVE  [r EXCEPT !.state = "completed", !.verdict = verdict, !.call = c] \in JudgementRec
<1> DEFINE r1 == [r EXCEPT !.state = "completed"]
           r2 == [r1 EXCEPT !.verdict = verdict]
<1>1. r1 \in JudgementRec
  BY DEF JudgementRec
<1> HIDE DEF r1
<1>2. r2 \in JudgementRec
  BY <1>1 DEF JudgementRec
<1> HIDE DEF r2
<1>3. [r2 EXCEPT !.call = c] \in JudgementRec
  BY <1>2 DEF JudgementRec
<1> QED
  BY <1>3 DEF r1, r2

LEMMA TypeCheckEvent == TypeOK /\ CheckEvent => TypeOK'
<1> SUFFICES ASSUME TypeOK, NEW k \in Check PROVE
      /\ \A s \in DOMAIN steps, required \in BOOLEAN : CheckRequested(k, s, required) => TypeOK'
      /\ \A c \in DOMAIN calls, verdict \in CheckVerdicts,
            evidence \in SUBSET (DOMAIN steps \cup DOMAIN branches \cup sources \cup {Task}) :
            CheckCompleted(k, c, verdict, evidence) => TypeOK'
      /\ \A a \in DOMAIN actions : CheckRetryAuthorized(k, a) => TypeOK'
  BY Zenon DEF CheckEvent
<1>1. ASSUME NEW s \in DOMAIN steps, NEW required \in BOOLEAN, CheckRequested(k, s, required)
      PROVE  TypeOK'
  <2> DEFINE rec == [step |-> s, required |-> required, state |-> "requested", verdict |-> None,
                     call |-> None, evidence |-> {}, known |-> {}]
  <2>1. rec \in CheckRec
    BY DEF CheckRec, TypeOK, Table
  <2>2. Table(Put(checks, k, rec), Check, CheckRec)
    BY <2>1, TablePut DEF TypeOK
  <2> QED
    BY <1>1, <2>2 DEF CheckRequested, TypeOK
<1>2. ASSUME NEW c \in DOMAIN calls, NEW verdict \in CheckVerdicts,
             NEW evidence \in SUBSET (DOMAIN steps \cup DOMAIN branches \cup sources \cup {Task}),
             CheckCompleted(k, c, verdict, evidence)
      PROVE  TypeOK'
  <2> DEFINE rec == [checks[k] EXCEPT !.state = "completed", !.verdict = verdict,
                                      !.call = c, !.evidence = evidence, !.known = DOMAIN actions]
  <2>1. k \in DOMAIN checks /\ checks[k] \in CheckRec /\ c \in Call
    BY <1>2 DEF CheckCompleted, OpenCheck, TypeOK, Table
  <2>2. /\ evidence \in SUBSET (Step \cup Branch \cup Source \cup {Task})
        /\ DOMAIN actions \in SUBSET Action
    BY DEF TypeOK, Table
  <2>3. rec \in CheckRec
    BY <2>1, <2>2, CompletedCheck
  <2>4. checks' = [checks EXCEPT ![k] = rec]
    BY <1>2, <2>1 DEF CheckCompleted
  <2>5. Table(checks', Check, CheckRec)
    BY <2>1, <2>3, <2>4, TableUpdate DEF TypeOK
  <2> QED
    BY <1>2, <2>5 DEF CheckCompleted, TypeOK
<1>3. ASSUME NEW a \in DOMAIN actions, CheckRetryAuthorized(k, a) PROVE TypeOK'
  <2> DEFINE rec == [checks[k] EXCEPT !.required = FALSE]
  <2>1. k \in DOMAIN checks /\ checks[k] \in CheckRec
    BY <1>3 DEF CheckRetryAuthorized, TypeOK, Table
  <2>2. rec \in CheckRec
    BY <2>1 DEF CheckRec
  <2>3. Table(checks', Check, CheckRec)
    BY <1>3, <2>1, <2>2, TableUpdate DEF CheckRetryAuthorized, TypeOK
  <2> QED
    BY <1>3, <2>3 DEF CheckRetryAuthorized, TypeOK
<1> QED
  BY <1>1, <1>2, <1>3

LEMMA TypeCandidateEvent == TypeOK /\ CandidateEvent => TypeOK'
<1>1. ASSUME TypeOK, NEW d \in Candidate, NEW b \in DOMAIN branches, CandidateDeclared(d, b)
      PROVE  TypeOK'
  <2> DEFINE ks == RequiredChecks(branches[b].route)
             rec == [branch |-> b, route |-> branches[b].route, required |-> ks,
                     unresolved |-> {k \in ks : V11 /\ checks[k].verdict \in {"objection", "hard_defect"}}]
  <2>1. branches[b].route \in Seq(Step) /\ b \in Branch
    BY <1>1 DEF TypeOK, Table, BranchRec
  <2>2. ks \subseteq Check
    BY <1>1 DEF RequiredChecks, TypeOK, Table
  <2> HIDE DEF ks
  <2>3. rec \in CandidateRec
    BY <2>1, <2>2 DEF CandidateRec
  <2>4. candidates' = Put(candidates, d, rec)
    BY <1>1 DEF CandidateDeclared, ks
  <2>5. Table(candidates', Candidate, CandidateRec)
    BY <1>1, <2>3, <2>4, TablePut DEF TypeOK
  <2> QED
    BY <1>1, <2>5 DEF CandidateDeclared, TypeOK
<1>2. ASSUME TypeOK, NEW j \in Judgement, NEW d \in DOMAIN candidates, JudgementRequested(j, d)
      PROVE  TypeOK'
  <2> DEFINE rec == [candidate |-> d, state |-> "requested", verdict |-> None, call |-> None]
  <2>1. rec \in JudgementRec
    BY <1>2 DEF JudgementRec, TypeOK, Table
  <2>2. Table(judgements', Judgement, JudgementRec)
    BY <1>2, <2>1, TablePut DEF JudgementRequested, TypeOK
  <2> QED
    BY <1>2, <2>2 DEF JudgementRequested, TypeOK
<1>3. ASSUME TypeOK, NEW j \in Judgement, NEW c \in DOMAIN calls, NEW verdict \in JudgeVerdicts,
             JudgementCompleted(j, c, verdict)
      PROVE  TypeOK'
  <2> DEFINE rec == [judgements[j] EXCEPT !.state = "completed", !.verdict = verdict, !.call = c]
  <2>1. j \in DOMAIN judgements /\ judgements[j] \in JudgementRec /\ c \in Call
    BY <1>3 DEF JudgementCompleted, TypeOK, Table
  <2>3. rec \in JudgementRec
    BY <2>1, CompletedJudgement
  <2>4. judgements' = [judgements EXCEPT ![j] = rec]
    BY <1>3, <2>1 DEF JudgementCompleted
  <2>5. Table(judgements', Judgement, JudgementRec)
    BY <1>3, <2>1, <2>3, <2>4, TableUpdate DEF TypeOK
  <2> QED
    BY <1>3, <2>5 DEF JudgementCompleted, TypeOK
<1>4. ASSUME TypeOK, NEW j \in Judgement, NEW a \in DOMAIN actions \cup {None},
             SelectionRecorded(j, a)
      PROVE  TypeOK'
  BY <1>4 DEF SelectionRecorded, TypeOK
<1> QED
  BY <1>1, <1>2, <1>3, <1>4, Zenon DEF CandidateEvent

LEMMA TypeStep == TypeOK /\ [Next]_vars => TypeOK'
<1>1. TypeOK /\ UNCHANGED vars => TypeOK'
  BY DEF vars, TypeOK
<1>2. ASSUME TypeOK, \E a \in Action : HumanActionRecorded(a) PROVE TypeOK'
  BY <1>2, TypeHumanAction
<1> QED
  BY <1>1, <1>2, TypeRun, TypeBranchEvent, TypeCallEvent, TypeStepEvent, TypeCheckEvent,
     TypeCandidateEvent, Zenon DEF Next

(* Every log the engine accepts keeps its tables typed.                    *)
THEOREM TypeCorrect == Spec => []TypeOK
BY TypeInit, TypeStep, PTL DEF Spec

(***************************************************************************)
(* What one event can do to the settled part of the record.                *)
(***************************************************************************)

(* Sealed steps and declared candidates never change, a check keeps its    *)
(* step and, once completed, its verdict, and is only ever released from   *)
(* the required ones; a new required check lies outside every candidate,   *)
(* and a new candidate freezes all required checks of its route.           *)
StepsKept == \A s \in DOMAIN steps : s \in DOMAIN steps' /\ steps'[s] = steps[s]
ChecksKept ==
  \A k \in DOMAIN checks :
    /\ k \in DOMAIN checks' /\ checks'[k].step = checks[k].step
    /\ checks'[k].required => checks[k].required
    /\ checks[k].state = "completed" =>
         checks'[k].state = "completed" /\ checks'[k].verdict = checks[k].verdict
NewChecksOutside ==
  \A k \in DOMAIN checks' :
    \/ k \in DOMAIN checks \/ ~checks'[k].required
    \/ \A d \in DOMAIN candidates : checks'[k].step \notin Elems(candidates[d].route)
CandidatesKept ==
  \A d \in DOMAIN candidates : d \in DOMAIN candidates' /\ candidates'[d] = candidates[d]
NewCandidatesComplete ==
  \A d \in DOMAIN candidates' :
    \/ d \in DOMAIN candidates
    \/ checks' = checks /\ candidates'[d].required = RequiredChecks(candidates'[d].route)
JudgementsKept ==
  \A j \in DOMAIN judgements :
    /\ j \in DOMAIN judgements' /\ judgements'[j].candidate = judgements[j].candidate
    /\ judgements[j].state = "completed" =>
         judgements'[j].state = "completed" /\ judgements'[j].verdict = judgements[j].verdict
(* A check completes with a verdict, a judgement is of a declared          *)
(* candidate, a selection is of one judged pass and eligible.              *)
CompletionsJudged ==
  \A k \in DOMAIN checks' :
    \/ k \in DOMAIN checks /\ checks[k].state = "completed"
    \/ checks'[k].state = "completed" => checks'[k].verdict \in CheckVerdicts
JudgementsLinked ==
  \A j \in DOMAIN judgements' :
    j \in DOMAIN judgements \/ judgements'[j].candidate \in DOMAIN candidates
SelectionsGuarded ==
  \/ selections' = selections
  \/ /\ UNCHANGED <<checks, candidates, judgements>>
     /\ \A j \in selections' :
          /\ j \in DOMAIN judgements /\ judgements[j].state = "completed"
          /\ judgements[j].verdict = "pass"
          /\ CandidateStatus(judgements[j].candidate) = "eligible"
Settled == StepsKept /\ ChecksKept /\ NewChecksOutside /\ CandidatesKept
             /\ NewCandidatesComplete /\ JudgementsKept
             /\ CompletionsJudged /\ JudgementsLinked /\ SelectionsGuarded

LEMMA SettledFrame ==
  ASSUME TypeOK, UNCHANGED <<checks, candidates, judgements, selections>>, StepsKept
  PROVE  Settled
<1>1. \A k \in DOMAIN checks : checks[k].state # "completed" \/ checks[k].state = "completed"
  OBVIOUS
<1> QED
  BY <1>1 DEF Settled, ChecksKept, NewChecksOutside, CandidatesKept, NewCandidatesComplete,
     JudgementsKept, CompletionsJudged, JudgementsLinked, SelectionsGuarded

LEMMA SealKeepsSteps ==
  ASSUME NEW s, NEW b, NEW replaces, NEW content, NEW c, NEW a,
         Seal(s, b, replaces, content, c, a)
  PROVE  StepsKept
BY DEF Seal, Put, StepsKept

LEMMA SettledStep == TypeOK /\ [Next]_vars => Settled
<1> SUFFICES ASSUME TypeOK, [Next]_vars PROVE Settled
  OBVIOUS
<1>1. CASE UNCHANGED vars
  BY <1>1, SettledFrame DEF vars, StepsKept
<1>2. CASE RunCreated \/ (\E e \in Source : SourceEvidenceRegistered(e))
             \/ (\E a \in Action : HumanActionRecorded(a))
  <2>1. UNCHANGED <<steps, checks, candidates, judgements, selections>>
    BY <1>2 DEF RunCreated, SourceEvidenceRegistered, HumanActionRecorded, HumanAction
  <2> QED
    BY <2>1, SettledFrame DEF StepsKept
<1>3. CASE BranchEvent
  <2>1. PICK b \in Branch :
          \/ \E status \in {"active", "paused"} :
               \/ RootBranchCreated(b, status)
               \/ \E p \in DOMAIN branches, anchor \in DOMAIN steps, mode \in {"after", "replace"},
                    reason \in ChildReasons, a \in DOMAIN actions \cup {None} :
                    ChildBranchCreated(b, p, anchor, mode, reason, a, status)
          \/ \E to \in Statuses, reason \in Moves, a \in DOMAIN actions \cup {None},
                k \in DOMAIN checks \cup {None}, c \in DOMAIN calls \cup {None} :
                BranchStatusChanged(b, to, reason, a, k, c)
    BY <1>3, Zenon DEF BranchEvent
  <2>2. ASSUME NEW status, RootBranchCreated(b, status)
        PROVE  UNCHANGED <<steps, checks, candidates, judgements, selections>>
    BY <2>2 DEF RootBranchCreated
  <2>3. ASSUME NEW p, NEW anchor, NEW mode, NEW reason, NEW a, NEW status,
               ChildBranchCreated(b, p, anchor, mode, reason, a, status)
        PROVE  UNCHANGED <<steps, checks, candidates, judgements, selections>>
    BY <2>3 DEF ChildBranchCreated
  <2>4. ASSUME NEW to, NEW reason, NEW a, NEW k, NEW c,
               BranchStatusChanged(b, to, reason, a, k, c)
        PROVE  UNCHANGED <<steps, checks, candidates, judgements, selections>>
    BY <2>4 DEF BranchStatusChanged
  <2>5. UNCHANGED <<steps, checks, candidates, judgements, selections>>
    BY <2>1, <2>2, <2>3, <2>4, Zenon
  <2> QED
    BY <2>5, SettledFrame DEF StepsKept
<1>4. CASE CallEvent
  <2>1. UNCHANGED <<steps, checks, candidates, judgements, selections>>
    BY <1>4 DEF CallEvent, ModelCallStarted, ModelCallChunk, ModelCallFinished, ModelCallFailed,
                ModelCallAborted, Terminate, WriterOutputNormalized, ModelRevisionDeferred,
                WriterRouteCompletion
  <2> QED
    BY <2>1, SettledFrame DEF StepsKept
<1>5. CASE StepEvent
  <2>1. PICK s \in Step, b \in Branch :
          \/ \E replaces \in DOMAIN steps \cup {None} :
               \/ \E c \in DOMAIN calls : ModelStepSealed(s, b, replaces, c)
               \/ \E a \in DOMAIN actions : HumanStepSealed(s, b, replaces, a)
          \/ \E p \in DOMAIN branches, old \in DOMAIN steps, c \in DOMAIN calls :
               ModelRevisionApplied(p, b, old, s, c)
    BY <1>5, Zenon DEF StepEvent
  <2>2. ASSUME NEW replaces, NEW c, ModelStepSealed(s, b, replaces, c) PROVE Settled
    BY <2>2, SealKeepsSteps, SettledFrame DEF ModelStepSealed, Seal
  <2>3. ASSUME NEW replaces, NEW a, HumanStepSealed(s, b, replaces, a) PROVE Settled
    BY <2>3, SealKeepsSteps, SettledFrame DEF HumanStepSealed, Seal
  <2>4. ASSUME NEW p, NEW old, NEW c, ModelRevisionApplied(p, b, old, s, c) PROVE Settled
    <3>1. StepsKept /\ UNCHANGED <<checks, candidates, judgements, selections>>
      BY <2>4 DEF ModelRevisionApplied, Put, StepsKept
    <3> QED
      BY <3>1, SettledFrame
  <2> QED
    BY <2>1, <2>2, <2>3, <2>4
<1>6. CASE CheckEvent
  <2>1. PICK k \in Check :
          \/ \E s \in DOMAIN steps, required \in BOOLEAN : CheckRequested(k, s, required)
          \/ \E c \in DOMAIN calls, verdict \in CheckVerdicts,
                evidence \in SUBSET (DOMAIN steps \cup DOMAIN branches \cup sources \cup {Task}) :
                CheckCompleted(k, c, verdict, evidence)
          \/ \E a \in DOMAIN actions : CheckRetryAuthorized(k, a)
    BY <1>6, Zenon DEF CheckEvent
  <2>2. UNCHANGED <<steps, candidates, judgements, selections>>
    BY <2>1 DEF CheckRequested, CheckCompleted, CheckRetryAuthorized
  <2>3. \A x \in DOMAIN checks : checks[x] \in CheckRec
    BY DEF TypeOK, Table
  <2>4. ChecksKept
    <3>1. ASSUME NEW s, NEW required, CheckRequested(k, s, required) PROVE ChecksKept
      BY <3>1 DEF CheckRequested, Put, ChecksKept
    <3>2. ASSUME NEW c, NEW verdict, NEW evidence, CheckCompleted(k, c, verdict, evidence)
          PROVE  ChecksKept
      BY <3>2, <2>3 DEF CheckCompleted, OpenCheck, ChecksKept, CheckRec
    <3>3. ASSUME NEW a, CheckRetryAuthorized(k, a) PROVE ChecksKept
      BY <3>3, <2>3 DEF CheckRetryAuthorized, ChecksKept, CheckRec
    <3> QED
      BY <2>1, <3>1, <3>2, <3>3
  <2>5. NewChecksOutside
    <3>1. ASSUME NEW s, NEW required, CheckRequested(k, s, required) PROVE NewChecksOutside
      <4>1. /\ DOMAIN checks' = DOMAIN checks \cup {k}
            /\ checks'[k].step = s /\ checks'[k].required = required
            /\ required => \A d \in DOMAIN candidates : s \notin Elems(candidates[d].route)
        BY <3>1 DEF CheckRequested, OutsideCandidates, Put
      <4> QED
        BY <4>1 DEF NewChecksOutside
    <3>2. ASSUME DOMAIN checks' = DOMAIN checks PROVE NewChecksOutside
      BY <3>2 DEF NewChecksOutside
    <3> QED
      BY <2>1, <3>1, <3>2 DEF CheckCompleted, CheckRetryAuthorized
  <2>6. CompletionsJudged
    <3>1. ASSUME NEW s, NEW required, CheckRequested(k, s, required) PROVE CompletionsJudged
      BY <3>1 DEF CheckRequested, Put, CompletionsJudged
    <3>2. ASSUME NEW c, NEW verdict \in CheckVerdicts, NEW evidence,
                 CheckCompleted(k, c, verdict, evidence)
          PROVE  CompletionsJudged
      <4>1. DOMAIN checks' = DOMAIN checks /\ checks'[k].verdict = verdict
            /\ \A x \in DOMAIN checks : x # k => checks'[x] = checks[x]
        BY <3>2, <2>3 DEF CheckCompleted, OpenCheck, CheckRec
      <4> QED
        BY <4>1 DEF CompletionsJudged
    <3>3. ASSUME NEW a, CheckRetryAuthorized(k, a) PROVE CompletionsJudged
      <4>1. DOMAIN checks' = DOMAIN checks
            /\ \A x \in DOMAIN checks : checks'[x].state = checks[x].state
        BY <3>3, <2>3 DEF CheckRetryAuthorized, CheckRec
      <4> QED
        BY <4>1 DEF CompletionsJudged
    <3> QED
      BY <2>1, <3>1, <3>2, <3>3
  <2> QED
    BY <2>2, <2>4, <2>5, <2>6
       DEF Settled, StepsKept, CandidatesKept, NewCandidatesComplete, JudgementsKept,
           JudgementsLinked, SelectionsGuarded
<1>7. CASE CandidateEvent
  <2>1. /\ UNCHANGED <<steps, checks>> /\ StepsKept /\ ChecksKept
        /\ NewChecksOutside /\ CompletionsJudged
    BY <1>7 DEF CandidateEvent, CandidateDeclared, JudgementRequested, JudgementCompleted,
                SelectionRecorded, StepsKept, ChecksKept, NewChecksOutside,
                CompletionsJudged
  <2>2. ASSUME NEW d \in Candidate, NEW b \in DOMAIN branches, CandidateDeclared(d, b) PROVE Settled
    BY <2>2, <2>1 DEF CandidateDeclared, Put, Settled, CandidatesKept, NewCandidatesComplete,
                      JudgementsKept, JudgementsLinked, SelectionsGuarded
  <2>3. ASSUME NEW j \in Judgement, NEW d \in DOMAIN candidates, JudgementRequested(j, d) PROVE Settled
    BY <2>3, <2>1 DEF JudgementRequested, Put, Settled, CandidatesKept, NewCandidatesComplete,
                      JudgementsKept, JudgementsLinked, SelectionsGuarded
  <2>4. ASSUME NEW j \in Judgement, NEW c, NEW verdict, JudgementCompleted(j, c, verdict) PROVE Settled
    <3>1. \A x \in DOMAIN judgements : judgements[x] \in JudgementRec
      BY DEF TypeOK, Table
    <3>2. JudgementsKept
      BY <2>4, <3>1 DEF JudgementCompleted, JudgementsKept, JudgementRec
    <3> QED
      BY <2>4, <2>1, <3>2 DEF JudgementCompleted, Settled, CandidatesKept, NewCandidatesComplete,
                              JudgementsLinked, SelectionsGuarded
  <2>5. ASSUME NEW j, NEW a, SelectionRecorded(j, a) PROVE Settled
    <3>1. UNCHANGED <<checks, candidates, judgements>> /\ SelectionsGuarded
      BY <2>5 DEF SelectionRecorded, SelectionsGuarded
    <3> QED
      BY <3>1, <2>1 DEF Settled, CandidatesKept, NewCandidatesComplete, JudgementsKept,
                        JudgementsLinked
  <2> QED
    BY <1>7, <2>2, <2>3, <2>4, <2>5, Zenon DEF CandidateEvent
<1> QED
  BY <1>1, <1>2, <1>3, <1>4, <1>5, <1>6, <1>7, Zenon DEF Next

(***************************************************************************)
(* Candidates and the selection.                                           *)
(***************************************************************************)

(* The inductive invariant: the property and the references it follows.    *)
CandidateInv ==
  /\ TypeOK
  /\ NoEscapedCheck
  /\ \A d \in DOMAIN candidates : candidates[d].required \subseteq DOMAIN checks
  /\ \A k \in DOMAIN checks : checks[k].state = "completed" => checks[k].verdict \in CheckVerdicts
  /\ \A j \in DOMAIN judgements : judgements[j].candidate \in DOMAIN candidates
  /\ \A j \in selections :
       /\ j \in DOMAIN judgements /\ judgements[j].state = "completed"
       /\ judgements[j].verdict = "pass"
       /\ CandidateStatus(judgements[j].candidate) = "eligible"

(* A decided candidate status does not move when settled checks do not.    *)
LEMMA StatusKept ==
  ASSUME CandidateInv, Settled, NEW d \in DOMAIN candidates,
         CandidateStatus(d) # "provisional"
  PROVE  CandidateStatus(d)' = CandidateStatus(d)
<1> DEFINE ks == candidates[d].required
<1>1. candidates'[d].required = ks /\ ks \subseteq DOMAIN checks
  BY DEF CandidateInv, Settled, CandidatesKept
<1>2. \A k \in ks : checks[k].state = "completed"
  BY DEF CandidateStatus
<1>3. \A k \in ks : checks'[k].state = "completed" /\ checks'[k].verdict = checks[k].verdict
  BY <1>1, <1>2 DEF Settled, ChecksKept
<1>4. Verdicts(ks)' = Verdicts(ks)
  BY <1>1, <1>3 DEF Verdicts
<1> QED
  BY <1>1, <1>2, <1>3, <1>4 DEF CandidateStatus

(* An eligible candidate's required checks are all settled well.           *)
LEMMA EligibleChecks ==
  ASSUME CandidateInv, NEW d \in DOMAIN candidates, CandidateStatus(d) = "eligible",
         NEW k \in candidates[d].required
  PROVE  checks[k].verdict \in {"ok"} \cup (IF V11 THEN {} ELSE {"objection"})
<1> DEFINE ks == candidates[d].required
<1>1. checks[k].verdict \in CheckVerdicts /\ checks[k].verdict \in Verdicts(ks)
  BY DEF CandidateInv, CandidateStatus, Verdicts
<1>2. "instrument_failure" \notin Verdicts(ks) /\ (~V11 => "hard_defect" \notin Verdicts(ks))
      /\ (V11 => Verdicts(ks) \cap {"hard_defect", "objection"} = {})
  BY DEF CandidateStatus
<1> QED
  BY <1>1, <1>2 DEF CheckVerdicts

LEMMA CandidateInvImplies == CandidateInv => NoEscapedCheck /\ SelectedSound
<1> SUFFICES ASSUME CandidateInv, NEW j \in selections,
                    NEW k \in RequiredChecks(candidates[judgements[j].candidate].route)
             PROVE  checks[k].verdict \in {"ok"} \cup (IF V11 THEN {} ELSE {"objection"})
  BY DEF CandidateInv, SelectedSound
<1> DEFINE d == judgements[j].candidate
<1>1. d \in DOMAIN candidates /\ CandidateStatus(d) = "eligible" /\ k \in candidates[d].required
  BY DEF CandidateInv, NoEscapedCheck
<1> QED
  BY <1>1, EligibleChecks

LEMMA NoEscapedCheckStep ==
  ASSUME CandidateInv, Settled
  PROVE  NoEscapedCheck'
<1> SUFFICES ASSUME NEW d \in DOMAIN candidates', NEW k \in DOMAIN checks',
                    checks'[k].required, checks'[k].step \in Elems(candidates'[d].route)
             PROVE  k \in candidates'[d].required
  BY DEF NoEscapedCheck, RequiredChecks
<1>1. CASE d \in DOMAIN candidates
  <2>1. candidates'[d] = candidates[d]
    BY <1>1 DEF Settled, CandidatesKept
  <2>2. k \in DOMAIN checks
    BY <1>1, <2>1 DEF Settled, NewChecksOutside
  <2>3. checks[k].required /\ checks[k].step \in Elems(candidates[d].route)
    BY <2>1, <2>2 DEF Settled, ChecksKept
  <2> QED
    BY <1>1, <2>1, <2>2, <2>3 DEF CandidateInv, NoEscapedCheck, RequiredChecks
<1>2. CASE d \notin DOMAIN candidates
  BY <1>2 DEF Settled, NewCandidatesComplete, RequiredChecks
<1> QED
  BY <1>1, <1>2

LEMMA CandidateInvStep == CandidateInv /\ [Next]_vars => CandidateInv'
<1> SUFFICES ASSUME CandidateInv, [Next]_vars PROVE CandidateInv'
  OBVIOUS
<1>1. Settled
  BY SettledStep DEF CandidateInv
<1>2. TypeOK'
  BY TypeStep DEF CandidateInv
<1>3. NoEscapedCheck'
  BY <1>1, NoEscapedCheckStep
<1>4. \A d \in DOMAIN candidates' : candidates'[d].required \subseteq DOMAIN checks'
  BY <1>1 DEF Settled, CandidatesKept, NewCandidatesComplete, ChecksKept, CandidateInv,
              RequiredChecks
<1>5. \A k \in DOMAIN checks' :
        checks'[k].state = "completed" => checks'[k].verdict \in CheckVerdicts
  BY <1>1 DEF Settled, ChecksKept, CompletionsJudged, CandidateInv
<1>6. \A j \in DOMAIN judgements' : judgements'[j].candidate \in DOMAIN candidates'
  BY <1>1 DEF Settled, JudgementsKept, JudgementsLinked, CandidatesKept, CandidateInv
<1>7. ASSUME NEW j \in selections'
      PROVE  /\ j \in DOMAIN judgements' /\ judgements'[j].state = "completed"
             /\ judgements'[j].verdict = "pass"
             /\ CandidateStatus(judgements[j].candidate)' = "eligible"
  <2>1. /\ j \in DOMAIN judgements /\ judgements[j].state = "completed"
        /\ judgements[j].verdict = "pass"
        /\ CandidateStatus(judgements[j].candidate) = "eligible"
    BY <1>1, <1>7 DEF Settled, SelectionsGuarded, CandidateInv
  <2>2. PICK d \in DOMAIN candidates : d = judgements[j].candidate
    BY <2>1 DEF CandidateInv
  <2>3. /\ j \in DOMAIN judgements' /\ judgements'[j].state = "completed"
        /\ judgements'[j].verdict = "pass" /\ judgements'[j].candidate = d
    BY <2>1, <2>2, <1>1 DEF Settled, JudgementsKept
  <2>4. CandidateStatus(d) = "eligible"
    BY <2>1, <2>2
  <2>5. CandidateStatus(d)' = "eligible"
    BY <1>1, <2>4, StatusKept
  <2> QED
    BY <2>3, <2>5
<1> QED
  BY <1>2, <1>3, <1>4, <1>5, <1>6, <1>7 DEF CandidateInv

LEMMA CandidateInvInit == Init => CandidateInv
<1> SUFFICES ASSUME Init PROVE CandidateInv
  OBVIOUS
<1>1. DOMAIN candidates = {} /\ DOMAIN checks = {} /\ DOMAIN judgements = {} /\ selections = {}
  BY EmptyTable DEF Init
<1> QED
  BY <1>1, TypeInit DEF CandidateInv, NoEscapedCheck

LEMMA CandidateInvariant == Spec => []CandidateInv
BY CandidateInvInit, CandidateInvStep, PTL DEF Spec

(* No required check of a declared transcript is missing from the list the *)
(* candidate froze, whenever the check was requested or released; and a    *)
(* recorded selection stays justified for the rest of the log, which is    *)
(* what _final_checks asserts at its end.                                  *)
THEOREM CandidatesStaySound == Spec => []CandidatesSound
BY CandidateInvariant, CandidateInvImplies, PTL DEF CandidatesSound

(* A candidate's transcript never changes, and its status never after it   *)
(* left provisional.                                                       *)
THEOREM CandidatesAreFinal == Spec => CandidateFinal
<1>1. ASSUME CandidateInv, [Next]_vars
      PROVE  [\A d \in DOMAIN candidates :
                /\ candidates'[d] = candidates[d]
                /\ CandidateStatus(d) # "provisional"
                     => CandidateStatus(d)' = CandidateStatus(d)]_vars
  <2>1. Settled
    BY <1>1, SettledStep DEF CandidateInv
  <2>2. ASSUME NEW d \in DOMAIN candidates
        PROVE  /\ candidates'[d] = candidates[d]
               /\ CandidateStatus(d) # "provisional"
                    => CandidateStatus(d)' = CandidateStatus(d)
    BY <1>1, <2>1, StatusKept DEF Settled, CandidatesKept
  <2> QED
    BY <2>2
<1> QED
  BY <1>1, CandidateInvariant, PTL DEF Spec, CandidateFinal

(***************************************************************************)
(* Routes.                                                                 *)
(***************************************************************************)

(* The inductive invariant: a route holds sealed steps, each at its slot,  *)
(* and two routes that agree somewhere agree on everything before.         *)
RouteInv ==
  /\ TypeOK
  /\ \A b \in DOMAIN branches : \A i \in DOMAIN branches[b].route :
       branches[b].route[i] \in DOMAIN steps /\ steps[branches[b].route[i]].slot = i
  /\ \A b1, b2 \in DOMAIN branches :
       \A i \in DOMAIN branches[b1].route \cap DOMAIN branches[b2].route :
         branches[b1].route[i] = branches[b2].route[i] =>
           \A n \in 1..i : branches[b1].route[n] = branches[b2].route[n]

(* What an event may do to the routes: nothing, or make the route of one   *)
(* branch b out of the first n steps of p's, with at most one fresh step,  *)
(* sealed at slot n + 1, behind them.  A branch that had a route keeps it. *)
RoutesSame ==
  /\ DOMAIN branches' = DOMAIN branches
  /\ \A x \in DOMAIN branches : branches'[x].route = branches[x].route
RouteMove(b, p, n) ==
  /\ DOMAIN branches' = DOMAIN branches \cup {b}
  /\ \A x \in DOMAIN branches : x # b => branches'[x].route = branches[x].route
  /\ n = 0 \/ (p \in DOMAIN branches /\ n <= Len(branches[p].route))
  /\ branches'[b].route \in Seq(Step)
  /\ Len(branches'[b].route) \in {n, n + 1}
  /\ \A i \in 1..n : branches'[b].route[i] = branches[p].route[i]
  /\ Len(branches'[b].route) = n + 1 =>
       LET s == branches'[b].route[n + 1] IN
       /\ s \notin DOMAIN steps /\ s \in DOMAIN steps'
       /\ steps'[s].slot = n + 1 /\ steps'[s].branch = b
  /\ b \in DOMAIN branches => p = b /\ n = Len(branches[b].route)
  /\ b \notin DOMAIN branches /\ n # 0 => branches'[b].parent = p

LEMMA RouteInvImplies == RouteInv => RouteTree
<1> SUFFICES ASSUME RouteInv, NEW b1 \in DOMAIN branches, NEW b2 \in DOMAIN branches,
                    NEW i \in DOMAIN branches[b1].route, NEW j \in DOMAIN branches[b2].route,
                    branches[b1].route[i] = branches[b2].route[j]
             PROVE  /\ i = j /\ i = steps[branches[b1].route[i]].slot
                    /\ \A n \in 1..i : branches[b1].route[n] = branches[b2].route[n]
  BY DEF RouteTree
<1>1. i = j /\ i = steps[branches[b1].route[i]].slot
  BY DEF RouteInv
<1> QED
  BY <1>1 DEF RouteInv

LEMMA RouteInvSame ==
  ASSUME RouteInv, TypeOK', StepsKept, RoutesSame
  PROVE  RouteInv'
<1>1. \A b \in DOMAIN branches' :
        b \in DOMAIN branches /\ branches'[b].route = branches[b].route
  BY DEF RoutesSame
<1> QED
  BY <1>1 DEF RouteInv, StepsKept

LEMMA RouteInvMove ==
  ASSUME RouteInv, TypeOK', StepsKept, NEW b, NEW p, NEW n \in Nat, RouteMove(b, p, n)
  PROVE  RouteInv'
<1> DEFINE R == branches'[b].route
<1>1. /\ R \in Seq(Step) /\ DOMAIN R = 1..Len(R) /\ Len(R) \in {n, n + 1}
      /\ \A x \in DOMAIN branches' :
           x # b => x \in DOMAIN branches /\ branches'[x].route = branches[x].route
  BY LenProperties DEF RouteMove
<1>2. \A x \in DOMAIN branches : branches[x].route \in Seq(Step)
        /\ DOMAIN branches[x].route = 1..Len(branches[x].route)
        /\ Len(branches[x].route) \in Nat
  <2> TAKE x \in DOMAIN branches
  <2>1. branches[x].route \in Seq(Step)
    BY DEF RouteInv, TypeOK, Table, BranchRec
  <2> QED
    BY <2>1, LenProperties
<1>3. ASSUME NEW i \in 1..n
      PROVE  p \in DOMAIN branches /\ i \in DOMAIN branches[p].route /\ R[i] = branches[p].route[i]
  BY <1>2 DEF RouteMove
<1>4. ASSUME NEW i \in DOMAIN R PROVE R[i] \in DOMAIN steps' /\ steps'[R[i]].slot = i
  <2>1. CASE i \in 1..n
    BY <2>1, <1>3 DEF RouteInv, StepsKept
  <2>2. CASE i = n + 1
    BY <2>2, <1>1 DEF RouteMove
  <2> QED
    BY <1>1, <2>1, <2>2
<1>5. ASSUME NEW x \in DOMAIN branches, x # b, NEW i \in DOMAIN R, i \in DOMAIN branches[x].route,
             R[i] = branches[x].route[i]
      PROVE  \A m \in 1..i : R[m] = branches[x].route[m]
  <2>1. i \in 1..n
    <3> SUFFICES ASSUME i = n + 1 PROVE FALSE
      BY <1>1
    <3>1. R[i] \notin DOMAIN steps
      BY <1>1 DEF RouteMove
    <3>2. branches[x].route[i] \in DOMAIN steps
      BY <1>5 DEF RouteInv
    <3> QED
      BY <3>1, <3>2, <1>5
  <2>2. /\ p \in DOMAIN branches /\ i \in DOMAIN branches[p].route
        /\ branches[p].route[i] = branches[x].route[i]
    BY <2>1, <1>3, <1>5
  <2>3. \A m \in 1..i : branches[p].route[m] = branches[x].route[m]
    BY <2>2, <1>5 DEF RouteInv
  <2>4. \A m \in 1..i : R[m] = branches[p].route[m]
    BY <2>1, <1>3
  <2> QED
    BY <2>3, <2>4
<1> HIDE DEF R
<1>6. \A x \in DOMAIN branches' : \A i \in DOMAIN branches'[x].route :
        branches'[x].route[i] \in DOMAIN steps' /\ steps'[branches'[x].route[i]].slot = i
  <2> TAKE x \in DOMAIN branches'
  <2>1. CASE x = b
    BY <2>1, <1>4 DEF R
  <2>2. CASE x # b
    <3>1. x \in DOMAIN branches /\ branches'[x].route = branches[x].route
      BY <2>2, <1>1
    <3>2. \A i \in DOMAIN branches[x].route :
            branches[x].route[i] \in DOMAIN steps /\ steps[branches[x].route[i]].slot = i
      BY <3>1 DEF RouteInv
    <3> QED
      BY <3>1, <3>2 DEF StepsKept
  <2> QED
    BY <2>1, <2>2
<1>7. ASSUME NEW b1 \in DOMAIN branches', NEW b2 \in DOMAIN branches',
             NEW i \in DOMAIN branches'[b1].route \cap DOMAIN branches'[b2].route,
             branches'[b1].route[i] = branches'[b2].route[i]
      PROVE  \A m \in 1..i : branches'[b1].route[m] = branches'[b2].route[m]
  <2>1. CASE b1 = b /\ b2 = b
    BY <2>1
  <2>2. CASE b1 = b /\ b2 # b
    BY <2>2, <1>1, <1>5, <1>7 DEF R
  <2>3. CASE b1 # b /\ b2 = b
    BY <2>3, <1>1, <1>5, <1>7 DEF R
  <2>4. CASE b1 # b /\ b2 # b
    <3>1. /\ b1 \in DOMAIN branches /\ branches'[b1].route = branches[b1].route
          /\ b2 \in DOMAIN branches /\ branches'[b2].route = branches[b2].route
      BY <2>4, <1>1
    <3> QED
      BY <3>1, <1>7 DEF RouteInv
  <2> QED
    BY <2>1, <2>2, <2>3, <2>4
<1> QED
  BY <1>6, <1>7 DEF RouteInv

(* The fork point of a step on a route is its slot.                        *)
LEMMA ForkPoint ==
  ASSUME RouteInv, NEW p \in DOMAIN branches, NEW s \in Elems(branches[p].route), NEW mode
  PROVE  LET pre == Prefix(branches[p].route, mode, s)
             n == IF mode = "after" THEN steps[s].slot ELSE steps[s].slot - 1 IN
         /\ pre \in Seq(Step) /\ Len(pre) = n /\ n \in Nat /\ n <= Len(branches[p].route)
         /\ \A i \in 1..n : pre[i] = branches[p].route[i]
<1>1. branches[p].route \in Seq(Step)
  BY DEF RouteInv, TypeOK, Table, BranchRec
<1>2. DOMAIN branches[p].route = 1..Len(branches[p].route) /\ Len(branches[p].route) \in Nat
  BY <1>1, LenProperties
<1>3. /\ IndexOf(branches[p].route, s) \in DOMAIN branches[p].route
      /\ branches[p].route[IndexOf(branches[p].route, s)] = s
  BY <1>1, IndexProperties
<1>4. IndexOf(branches[p].route, s) = steps[s].slot
  BY <1>3 DEF RouteInv
<1> QED
  BY <1>1, <1>2, <1>3, <1>4, PrefixProperties

LEMMA SealMove ==
  ASSUME TypeOK, NEW s \in Step, NEW b, NEW replaces, NEW content, NEW c, NEW a,
         Seal(s, b, replaces, content, c, a)
  PROVE  \E n \in Nat : RouteMove(b, b, n)
<1> DEFINE r == branches[b].route
           n == Len(branches[b].route)
<1>1. b \in DOMAIN branches /\ branches[b] \in BranchRec /\ r \in Seq(Step)
  BY DEF Seal, ActiveBranches, TypeOK, Table, BranchRec
<1>2. n \in Nat /\ NextSlot(b) = n + 1
  BY <1>1, LenProperties DEF NextSlot
<1>3. /\ DOMAIN branches' = DOMAIN branches
      /\ \A x \in DOMAIN branches : x # b => branches'[x] = branches[x]
      /\ branches'[b].route = Append(r, s)
  BY <1>1 DEF Seal, BranchRec, Extended
<1>4. /\ Append(r, s) \in Seq(Step) /\ Len(Append(r, s)) = n + 1 /\ Append(r, s)[n + 1] = s
      /\ \A i \in 1..n : Append(r, s)[i] = r[i]
  BY <1>1, <1>2
<1>5. s \notin DOMAIN steps /\ s \in DOMAIN steps' /\ steps'[s].slot = n + 1 /\ steps'[s].branch = b
  BY <1>2 DEF Seal, Put
<1> DEFINE R == Append(r, s)
<1>6. branches'[b].route = R /\ R \in Seq(Step) /\ Len(R) = n + 1 /\ R[n + 1] = s
      /\ \A i \in 1..n : R[i] = branches[b].route[i]
  BY <1>3, <1>4
<1>7. DOMAIN branches' = DOMAIN branches \cup {b}
      /\ \A x \in DOMAIN branches : x # b => branches'[x].route = branches[x].route
  BY <1>1, <1>3
<1>8. n \in Nat /\ n <= Len(branches[b].route) /\ n = Len(branches[b].route)
  BY <1>2
<1> HIDE DEF r, n, R
<1>9. RouteMove(b, b, n)
  BY <1>1, <1>5, <1>6, <1>7, <1>8 DEF RouteMove
<1> QED
  BY <1>8, <1>9

LEMMA RevisionMove ==
  ASSUME RouteInv, NEW s \in Step, NEW b, NEW p, NEW old, NEW c,
         ModelRevisionApplied(p, b, old, s, c)
  PROVE  \E n \in Nat : RouteMove(b, p, n)
<1> DEFINE pre == Prefix(branches[p].route, "replace", old)
           n == steps[old].slot - 1
           parked == [branches EXCEPT ![p].status = "parked", ![p].moved = "model_superseded"]
           child == [parent |-> p, mode |-> "replace", anchor |-> old,
                     inherited |-> Len(pre), route |-> Append(pre, s),
                     status |-> "active", reason |-> "model_revision", moved |-> "model_revision"]
<1>1. /\ p \in DOMAIN branches /\ b \notin DOMAIN branches /\ old \in Elems(branches[p].route)
      /\ branches' = Put(parked, b, child)
  BY DEF ModelRevisionApplied, ActiveBranches
<1>2. /\ pre \in Seq(Step) /\ Len(pre) = n /\ n \in Nat /\ n <= Len(branches[p].route)
      /\ \A i \in 1..n : pre[i] = branches[p].route[i]
  <2>0. PICK mode : mode = "replace"
    OBVIOUS
  <2> DEFINE m == IF mode = "after" THEN steps[old].slot ELSE steps[old].slot - 1
             prefix == Prefix(branches[p].route, mode, old)
  <2>1. /\ prefix \in Seq(Step) /\ Len(prefix) = m /\ m \in Nat /\ m <= Len(branches[p].route)
        /\ \A i \in 1..m : prefix[i] = branches[p].route[i]
    <3>1. p \in DOMAIN branches /\ old \in Elems(branches[p].route)
      BY <1>1
    <3> QED
      BY <3>1, ForkPoint
  <2>2. m = n /\ prefix = pre
    BY <2>0
  <2> HIDE DEF m, n, pre, prefix
  <2> QED
    BY <2>1, <2>2
<1> HIDE DEF pre
<1>3. /\ Append(pre, s) \in Seq(Step) /\ Len(Append(pre, s)) = n + 1 /\ Append(pre, s)[n + 1] = s
      /\ \A i \in 1..n : Append(pre, s)[i] = pre[i]
  BY <1>2
<1>4. s \notin DOMAIN steps /\ s \in DOMAIN steps' /\ steps'[s].slot = n + 1 /\ steps'[s].branch = b
  <2>1. steps[old].slot = n + 1
    BY <1>2, <1>1 DEF RouteInv, Elems
  <2> QED
    BY <2>1 DEF ModelRevisionApplied, Put
<1>5. /\ DOMAIN parked = DOMAIN branches
      /\ \A x \in DOMAIN branches : parked[x].route = branches[x].route
  BY <1>1 DEF RouteInv, TypeOK, Table, BranchRec
<1>6. /\ DOMAIN branches' = DOMAIN branches \cup {b} /\ branches'[b].route = Append(pre, s)
      /\ branches'[b].parent = p
      /\ \A x \in DOMAIN branches : branches'[x].route = branches[x].route
  <2>1. child.route = Append(pre, s) /\ child.parent = p
    OBVIOUS
  <2> HIDE DEF parked, child
  <2>2. /\ DOMAIN branches' = DOMAIN parked \cup {b} /\ branches'[b] = child
        /\ \A x \in DOMAIN parked : branches'[x] = parked[x]
    BY <1>1, <1>5 DEF Put
  <2> QED
    BY <1>5, <2>1, <2>2
<1> HIDE DEF n
<1>7. RouteMove(b, p, n)
  BY <1>1, <1>2, <1>3, <1>4, <1>6 DEF RouteMove
<1> QED
  BY <1>2, <1>7

LEMMA BranchEventMove ==
  ASSUME RouteInv, BranchEvent
  PROVE  RoutesSame \/ \E b, p : \E n \in Nat : RouteMove(b, p, n)
<1>1. PICK b \in Branch :
        \/ \E status \in {"active", "paused"} :
             \/ RootBranchCreated(b, status)
             \/ \E p \in DOMAIN branches, anchor \in DOMAIN steps, mode \in {"after", "replace"},
                  reason \in ChildReasons, a \in DOMAIN actions \cup {None} :
                  ChildBranchCreated(b, p, anchor, mode, reason, a, status)
        \/ \E to \in Statuses, reason \in Moves, a \in DOMAIN actions \cup {None},
              k \in DOMAIN checks \cup {None}, c \in DOMAIN calls \cup {None} :
              BranchStatusChanged(b, to, reason, a, k, c)
  BY Zenon DEF BranchEvent
<1>2. ASSUME NEW status, RootBranchCreated(b, status) PROVE RouteMove(b, b, 0)
  <2> DEFINE rec == [parent |-> None, mode |-> "root", anchor |-> None, inherited |-> 0,
                     route |-> <<>>, status |-> status, reason |-> "root", moved |-> "root"]
  <2>1. b \notin DOMAIN branches /\ branches' = Put(branches, b, rec) /\ rec.route = <<>>
    BY <1>2 DEF RootBranchCreated
  <2> HIDE DEF rec
  <2>2. /\ DOMAIN branches' = DOMAIN branches \cup {b} /\ branches'[b] = rec
        /\ \A x \in DOMAIN branches : branches'[x] = branches[x]
    BY <2>1 DEF Put
  <2> DEFINE R == <<>>
  <2>3. branches'[b].route = R /\ R \in Seq(Step) /\ Len(R) = 0
    BY <2>1, <2>2, EmptySeq
  <2> HIDE DEF R
  <2>4. /\ b \notin DOMAIN branches /\ DOMAIN branches' = DOMAIN branches \cup {b}
        /\ \A x \in DOMAIN branches : branches'[x].route = branches[x].route
    BY <2>1, <2>2
  <2>5. PICK n \in Nat : n = 0
    OBVIOUS
  <2>6. /\ branches'[b].route \in Seq(Step) /\ Len(branches'[b].route) \in {n, n + 1}
        /\ Len(branches'[b].route) # n + 1
        /\ \A i \in 1..n : branches'[b].route[i] = branches[b].route[i]
    BY <2>3, <2>5
  <2>7. RouteMove(b, b, n)
    BY <2>4, <2>5, <2>6 DEF RouteMove
  <2> QED
    BY <2>5, <2>7
<1>3. ASSUME NEW p, NEW anchor, NEW mode, NEW reason, NEW a, NEW status,
             ChildBranchCreated(b, p, anchor, mode, reason, a, status)
      PROVE  \E n \in Nat : RouteMove(b, p, n)
  <2> DEFINE pre == Prefix(branches[p].route, mode, anchor)
             n == IF mode = "after" THEN steps[anchor].slot ELSE steps[anchor].slot - 1
             rec == [parent |-> p, mode |-> mode, anchor |-> anchor, inherited |-> Len(pre),
                     route |-> pre, status |-> status, reason |-> reason, moved |-> reason]
  <2>0. p \in DOMAIN branches /\ anchor \in Elems(branches[p].route)
    BY <1>3 DEF ChildBranchCreated
  <2>1. /\ b \notin DOMAIN branches /\ branches' = Put(branches, b, rec)
        /\ rec.route = pre /\ rec.parent = p
    BY <1>3 DEF ChildBranchCreated
  <2>2. /\ pre \in Seq(Step) /\ Len(pre) = n /\ n \in Nat /\ n <= Len(branches[p].route)
        /\ \A i \in 1..n : pre[i] = branches[p].route[i]
    BY <2>0, ForkPoint
  <2> HIDE DEF pre, n, rec
  <2>3. /\ DOMAIN branches' = DOMAIN branches \cup {b} /\ branches'[b] = rec
        /\ \A x \in DOMAIN branches : branches'[x] = branches[x]
    BY <2>1 DEF Put
  <2>4. RouteMove(b, p, n)
    BY <2>0, <2>1, <2>2, <2>3 DEF RouteMove
  <2> QED
    BY <2>2, <2>4
<1>4. ASSUME NEW to, NEW reason, NEW a, NEW k, NEW c, BranchStatusChanged(b, to, reason, a, k, c)
      PROVE  RoutesSame
  BY <1>4 DEF BranchStatusChanged, RoutesSame, RouteInv, TypeOK, Table, BranchRec
<1> QED
  BY <1>1, <1>2, <1>3, <1>4, Zenon

LEMMA RouteChange ==
  ASSUME RouteInv, [Next]_vars
  PROVE  RoutesSame \/ \E b, p : \E n \in Nat : RouteMove(b, p, n)
<1>1. CASE branches' = branches
  BY <1>1 DEF RoutesSame
<1>2. CASE BranchEvent
  BY <1>2, BranchEventMove
<1>3. CASE StepEvent
  <2>1. PICK s \in Step, b \in Branch :
          \/ \E replaces \in DOMAIN steps \cup {None} :
               \/ \E c \in DOMAIN calls : ModelStepSealed(s, b, replaces, c)
               \/ \E a \in DOMAIN actions : HumanStepSealed(s, b, replaces, a)
          \/ \E p \in DOMAIN branches, old \in DOMAIN steps, c \in DOMAIN calls :
               ModelRevisionApplied(p, b, old, s, c)
    BY <1>3, Zenon DEF StepEvent
  <2> QED
    BY <2>1, SealMove, RevisionMove DEF ModelStepSealed, HumanStepSealed, RouteInv
<1>4. CASE CallEvent
  <2>1. ASSUME NEW b, NEW c, WriterRouteCompletion(b, c) PROVE RoutesSame
    BY <2>1 DEF WriterRouteCompletion, RoutesSame, RouteInv, TypeOK, Table, BranchRec
  <2>2. branches' = branches \/ \E b \in DOMAIN branches : \E c \in Call : WriterRouteCompletion(b, c)
    BY <1>4 DEF CallEvent, ModelCallStarted, ModelCallChunk, ModelCallFinished,
       ModelCallFailed, ModelCallAborted, Terminate, WriterOutputNormalized, ModelRevisionDeferred
  <2> QED
    BY <1>1, <2>1, <2>2, Zenon
<1>5. CASE CheckEvent
  <2>1. PICK k \in Check :
          \/ \E s \in DOMAIN steps, required \in BOOLEAN : CheckRequested(k, s, required)
          \/ \E c \in DOMAIN calls, verdict \in CheckVerdicts,
                evidence \in SUBSET (DOMAIN steps \cup DOMAIN branches \cup sources \cup {Task}) :
                CheckCompleted(k, c, verdict, evidence)
          \/ \E a \in DOMAIN actions : CheckRetryAuthorized(k, a)
    BY <1>5, Zenon DEF CheckEvent
  <2>2. branches' = branches
    BY <2>1 DEF CheckRequested, CheckCompleted, CheckRetryAuthorized
  <2> QED
    BY <1>1, <2>2
<1>6. CASE CandidateEvent
  <2>1. branches' = branches
    BY <1>6 DEF CandidateEvent, CandidateDeclared, JudgementRequested, JudgementCompleted,
                SelectionRecorded
  <2> QED
    BY <1>1, <2>1
<1>7. CASE RunCreated \/ (\E e \in Source : SourceEvidenceRegistered(e))
             \/ (\E a \in Action : HumanActionRecorded(a)) \/ UNCHANGED vars
  BY <1>1, <1>7 DEF RunCreated, SourceEvidenceRegistered, HumanActionRecorded, HumanAction, vars
<1> QED
  BY <1>2, <1>3, <1>4, <1>5, <1>6, <1>7, Zenon DEF Next

LEMMA RouteInvStep == RouteInv /\ [Next]_vars => RouteInv'
<1> SUFFICES ASSUME RouteInv, [Next]_vars PROVE RouteInv'
  OBVIOUS
<1>1. TypeOK' /\ StepsKept
  BY TypeStep, SettledStep DEF RouteInv, Settled
<1> QED
  BY <1>1, RouteChange, RouteInvSame, RouteInvMove

LEMMA RouteInvInit == Init => RouteInv
<1> SUFFICES ASSUME Init PROVE RouteInv
  OBVIOUS
<1>1. DOMAIN branches = {}
  BY EmptyTable DEF Init
<1> QED
  BY <1>1, TypeInit DEF RouteInv

LEMMA RouteInvariant == Spec => []RouteInv
BY RouteInvInit, RouteInvStep, PTL DEF Spec

(* Branches that share a step share its whole history, and hold it at the  *)
(* slot it was sealed for.                                                 *)
THEOREM RoutesFormATree == Spec => []RouteTree
BY RouteInvariant, RouteInvImplies, PTL

(* A kept prefix is a SubSeq.                                              *)
LEMMA KeptPrefix ==
  ASSUME NEW r \in Seq(Step), NEW r2 \in Seq(Step), Len(r) <= Len(r2),
         \A i \in 1..Len(r) : r2[i] = r[i]
  PROVE  SubSeq(r2, 1, Len(r)) = r
<1>1. Len(r) \in Nat /\ \A i \in 1..Len(r) : r2[i] \in Step
  BY LenProperties, ElementOfSeq
<1>2. /\ SubSeq(r2, 1, Len(r)) \in Seq(Step) /\ Len(SubSeq(r2, 1, Len(r))) = Len(r)
      /\ \A i \in 1..Len(r) : SubSeq(r2, 1, Len(r))[i] = r2[i]
  BY <1>1, SubSeqProperties
<1> QED
  BY <1>2, SeqEqual

(* A branch keeps its route as the beginning of its new one.               *)
RoutesKept ==
  \A b \in DOMAIN branches :
    /\ b \in DOMAIN branches'
    /\ branches'[b].route \in Seq(Step)
    /\ Len(branches[b].route) <= Len(branches'[b].route)
    /\ \A i \in 1..Len(branches[b].route) : branches'[b].route[i] = branches[b].route[i]

LEMMA RoutesKeptStep ==
  ASSUME RouteInv, [Next]_vars
  PROVE  RoutesKept
<1> SUFFICES ASSUME NEW b \in DOMAIN branches
             PROVE  /\ b \in DOMAIN branches'
                    /\ branches'[b].route \in Seq(Step)
                    /\ Len(branches[b].route) <= Len(branches'[b].route)
                    /\ \A i \in 1..Len(branches[b].route) :
                         branches'[b].route[i] = branches[b].route[i]
  BY DEF RoutesKept
<1> DEFINE Kept == /\ b \in DOMAIN branches'
                   /\ branches'[b].route \in Seq(Step)
                   /\ Len(branches[b].route) <= Len(branches'[b].route)
                   /\ \A i \in 1..Len(branches[b].route) :
                        branches'[b].route[i] = branches[b].route[i]
<1>1. branches[b].route \in Seq(Step) /\ Len(branches[b].route) \in Nat
  BY LenProperties DEF RouteInv, TypeOK, Table, BranchRec
<1>2. CASE RoutesSame
  BY <1>1, <1>2 DEF RoutesSame
<1>3. ASSUME NEW x, NEW p, NEW n \in Nat, RouteMove(x, p, n), x = b PROVE Kept
  BY <1>1, <1>3 DEF RouteMove
<1>4. ASSUME NEW x, NEW p, NEW n \in Nat, RouteMove(x, p, n), x # b PROVE Kept
  BY <1>1, <1>4 DEF RouteMove
<1> QED
  BY <1>2, <1>3, <1>4, RouteChange

(* A route only ever grows at its end.                                     *)
THEOREM RoutesGrow == Spec => RoutesOnlyGrow
<1>1. ASSUME RouteInv, [Next]_vars
      PROVE  \A b \in DOMAIN branches :
               SubSeq(branches'[b].route, 1, Len(branches[b].route)) = branches[b].route
  <2> TAKE b \in DOMAIN branches
  <2>1. branches[b].route \in Seq(Step)
    BY <1>1 DEF RouteInv, TypeOK, Table, BranchRec
  <2> QED
    BY <1>1, <2>1, RoutesKeptStep, KeptPrefix DEF RoutesKept
<1>2. ASSUME RouteInv, [Next]_vars
      PROVE  [\A b \in DOMAIN branches :
                SubSeq(branches'[b].route, 1, Len(branches[b].route)) = branches[b].route]_vars
  BY <1>1, <1>2
<1> QED
  BY <1>2, RouteInvariant, PTL DEF Spec, RoutesOnlyGrow

(***************************************************************************)
(* Revisions.                                                              *)
(***************************************************************************)

(* The inductive invariant: a sealed step lies at its slot of the branch   *)
(* it was sealed in, and a call that sealed a step of the branch it was    *)
(* started for was started for the step's slot - which no later step of    *)
(* the branch can have.                                                    *)
SealedAt ==
  \A s \in DOMAIN steps :
    /\ steps[s].branch \in DOMAIN branches
    /\ steps[s].slot \in DOMAIN branches[steps[s].branch].route
    /\ branches[steps[s].branch].route[steps[s].slot] = s
CallSealed ==
  \A s \in DOMAIN steps : steps[s].call # None =>
    /\ steps[s].call \in DOMAIN calls
    /\ steps[s].branch = calls[steps[s].call].target[1] =>
         calls[steps[s].call].target[2] = steps[s].slot
RevInv == RouteInv /\ SealedAt /\ CallSealed /\ OneStepPerCall /\ ActiveWithinCap

(* What an event may do to the calls and steps: a call keeps its target    *)
(* and, once it has ended, how it ended; at most one step s is sealed, at  *)
(* the end of a branch b: by a human, by a call for that very slot, or by  *)
(* a call of another branch that has sealed nothing yet.                   *)
CallsKept ==
  \A c \in DOMAIN calls :
    /\ c \in DOMAIN calls'
    /\ calls'[c].role = calls[c].role /\ calls'[c].target = calls[c].target
    /\ calls[c].state # "started" =>
         calls'[c].state = calls[c].state /\ calls'[c].out = calls[c].out
    /\ calls[c].disposition # None => calls'[c].disposition = calls[c].disposition
StepsSame == DOMAIN steps' = DOMAIN steps
NewStep(s, b) ==
  /\ s \notin DOMAIN steps /\ DOMAIN steps' = DOMAIN steps \cup {s} /\ calls' = calls
  /\ steps'[s].branch = b /\ b \in DOMAIN branches'
  /\ steps'[s].slot \in DOMAIN branches'[b].route
  /\ branches'[b].route[steps'[s].slot] = s
FreshCall(s, b) ==
  LET c == steps'[s].call IN
  \/ c = None
  \/ /\ c \in DOMAIN calls /\ b \in DOMAIN branches
     /\ calls[c].target[1] = b /\ calls[c].target[2] = steps'[s].slot
     /\ steps'[s].slot = Len(branches[b].route) + 1
  \/ /\ c \in DOMAIN calls /\ calls[c].target[1] # b /\ ~Materialized(c)
     /\ calls[c].target[1] \in DOMAIN branches /\ branches'[calls[c].target[1]].status = "parked"

(* The variables each kind of event leaves alone.                          *)
BranchFrame ==
  /\ UNCHANGED <<run, sources, actions, calls, steps, checks, candidates, judgements, selections>>
  /\ WithinCap

LEMMA BranchEventFrame ==
  ASSUME BranchEvent
  PROVE  BranchFrame
<1>1. PICK b \in Branch :
        \/ \E status \in {"active", "paused"} :
             \/ RootBranchCreated(b, status)
             \/ \E p \in DOMAIN branches, anchor \in DOMAIN steps, mode \in {"after", "replace"},
                  reason \in ChildReasons, a \in DOMAIN actions \cup {None} :
                  ChildBranchCreated(b, p, anchor, mode, reason, a, status)
        \/ \E to \in Statuses, reason \in Moves, a \in DOMAIN actions \cup {None},
              k \in DOMAIN checks \cup {None}, c \in DOMAIN calls \cup {None} :
              BranchStatusChanged(b, to, reason, a, k, c)
  BY Zenon DEF BranchEvent
<1>2. ASSUME NEW status, RootBranchCreated(b, status) PROVE BranchFrame
  BY <1>2 DEF RootBranchCreated, BranchFrame
<1>3. ASSUME NEW p, NEW anchor, NEW mode, NEW reason, NEW a, NEW status,
             ChildBranchCreated(b, p, anchor, mode, reason, a, status)
      PROVE  BranchFrame
  BY <1>3 DEF ChildBranchCreated, BranchFrame
<1>4. ASSUME NEW to, NEW reason, NEW a, NEW k, NEW c, BranchStatusChanged(b, to, reason, a, k, c)
      PROVE  BranchFrame
  BY <1>4 DEF BranchStatusChanged, BranchFrame
<1> QED
  BY <1>1, <1>2, <1>3, <1>4, Zenon

LEMMA StepEventFrame ==
  ASSUME StepEvent
  PROVE  UNCHANGED <<run, sources, actions, calls, checks, candidates, judgements, selections>>
<1>1. PICK s \in Step, b \in Branch :
        \/ \E replaces \in DOMAIN steps \cup {None} :
             \/ \E c \in DOMAIN calls : ModelStepSealed(s, b, replaces, c)
             \/ \E a \in DOMAIN actions : HumanStepSealed(s, b, replaces, a)
        \/ \E p \in DOMAIN branches, old \in DOMAIN steps, c \in DOMAIN calls :
             ModelRevisionApplied(p, b, old, s, c)
  BY Zenon DEF StepEvent
<1> QED
  BY <1>1 DEF ModelStepSealed, HumanStepSealed, Seal, ModelRevisionApplied

LEMMA CheckEventFrame ==
  ASSUME CheckEvent
  PROVE  UNCHANGED <<run, sources, actions, branches, calls, steps, candidates, judgements, selections>>
<1>1. PICK k \in Check :
        \/ \E s \in DOMAIN steps, required \in BOOLEAN : CheckRequested(k, s, required)
        \/ \E c \in DOMAIN calls, verdict \in CheckVerdicts,
              evidence \in SUBSET (DOMAIN steps \cup DOMAIN branches \cup sources \cup {Task}) :
              CheckCompleted(k, c, verdict, evidence)
        \/ \E a \in DOMAIN actions : CheckRetryAuthorized(k, a)
  BY Zenon DEF CheckEvent
<1> QED
  BY <1>1 DEF CheckRequested, CheckCompleted, CheckRetryAuthorized

LEMMA CandidateEventFrame ==
  ASSUME CandidateEvent
  PROVE  UNCHANGED <<run, sources, actions, branches, calls, steps, checks>>
BY DEF CandidateEvent, CandidateDeclared, JudgementRequested, JudgementCompleted,
       SelectionRecorded

LEMMA CallsKeptStep ==
  ASSUME TypeOK, [Next]_vars
  PROVE  CallsKept
<1>0. \A c \in DOMAIN calls : calls[c] \in CallRec
  BY DEF TypeOK, Table
<1>1. CASE calls' = calls
  BY <1>1 DEF CallsKept
<1>2. CASE CallEvent
  <2>1. PICK c \in Call :
          \/ \E role \in Roles, target \in Targets : ModelCallStarted(c, role, target)
          \/ \E ctl \in Control : ModelCallChunk(c, ctl)
          \/ \E out \in Content \cup {None} :
               \/ "finished" \in Ends /\ ModelCallFinished(c, out)
               \/ "failed" \in Ends /\ ModelCallFailed(c, out)
               \/ "aborted" \in Ends /\ \E a \in DOMAIN actions : ModelCallAborted(c, out, a)
          \/ \E content \in Content : WriterOutputNormalized(c, content)
          \/ \E target \in Step : ModelRevisionDeferred(c, target)
          \/ \E b \in DOMAIN branches : WriterRouteCompletion(b, c)
    BY <1>2, Zenon DEF CallEvent
  <2>2. ASSUME NEW role, NEW target, ModelCallStarted(c, role, target) PROVE CallsKept
    BY <2>2 DEF ModelCallStarted, Put, CallsKept
  <2>3. ASSUME NEW ctl, ModelCallChunk(c, ctl) PROVE CallsKept
    BY <2>3, <1>0 DEF ModelCallChunk, CallsKept, CallRec
  <2>4. ASSUME NEW state, NEW out, Terminate(c, state, out) PROVE CallsKept
    BY <2>4, <1>0 DEF Terminate, InFlight, CallsKept, CallRec
  <2>5. ASSUME NEW content, WriterOutputNormalized(c, content) PROVE CallsKept
    BY <2>5, <1>0 DEF WriterOutputNormalized, CallsKept, CallRec
  <2>6. ASSUME NEW target, ModelRevisionDeferred(c, target) PROVE CallsKept
    BY <2>6, <1>0 DEF ModelRevisionDeferred, CallsKept, CallRec
  <2>7. ASSUME NEW b, WriterRouteCompletion(b, c) PROVE CallsKept
    BY <2>7, <1>0 DEF WriterRouteCompletion, CallsKept, CallRec
  <2> QED
    BY <2>1, <2>2, <2>3, <2>4, <2>5, <2>6, <2>7
       DEF ModelCallFinished, ModelCallFailed, ModelCallAborted
<1>3. CASE BranchEvent \/ CheckEvent
  BY <1>1, <1>3, BranchEventFrame, CheckEventFrame DEF BranchFrame
<1>4. CASE StepEvent \/ CandidateEvent
  BY <1>1, <1>4, StepEventFrame, CandidateEventFrame
<1>5. CASE RunCreated \/ (\E e \in Source : SourceEvidenceRegistered(e))
             \/ (\E a \in Action : HumanActionRecorded(a)) \/ UNCHANGED vars
  BY <1>1, <1>5 DEF RunCreated, SourceEvidenceRegistered, HumanActionRecorded, HumanAction, vars
<1> QED
  BY <1>2, <1>3, <1>4, <1>5, Zenon DEF Next

LEMMA SealIsNew ==
  ASSUME TypeOK, NEW s \in Step, NEW b, NEW replaces, NEW content, NEW c, NEW a,
         Seal(s, b, replaces, content, c, a)
  PROVE  NewStep(s, b) /\ steps'[s].call = c /\ steps'[s].slot = Len(branches[b].route) + 1
           /\ b \in DOMAIN branches
<1>1. b \in DOMAIN branches /\ branches[b].route \in Seq(Step)
  BY DEF Seal, ActiveBranches, TypeOK, Table, BranchRec
<1>2. s \notin DOMAIN steps /\ DOMAIN steps' = DOMAIN steps \cup {s} /\ calls' = calls
      /\ steps'[s].branch = b /\ steps'[s].call = c
      /\ steps'[s].slot = Len(branches[b].route) + 1
  BY DEF Seal, Put, NextSlot
<1> DEFINE R == Append(branches[b].route, s)
<1>3. DOMAIN branches' = DOMAIN branches /\ branches'[b].route = R
  BY <1>1 DEF Seal, TypeOK, Table, BranchRec, Extended
<1>4. Len(branches[b].route) + 1 \in DOMAIN R /\ R[Len(branches[b].route) + 1] = s
  BY <1>1
<1> HIDE DEF R
<1> QED
  BY <1>1, <1>2, <1>3, <1>4 DEF NewStep

LEMMA RevisionIsNew ==
  ASSUME RouteInv, NEW s \in Step, NEW b, NEW p, NEW old, NEW c,
         ModelRevisionApplied(p, b, old, s, c)
  PROVE  NewStep(s, b) /\ steps'[s].call = c
<1> DEFINE pre == Prefix(branches[p].route, "replace", old)
<1>1. p \in DOMAIN branches /\ b \notin DOMAIN branches /\ old \in Elems(branches[p].route)
      /\ branches[p].route \in Seq(Step)
  BY DEF ModelRevisionApplied, ActiveBranches, RouteInv, TypeOK, Table, BranchRec
<1>2. pre \in Seq(Step) /\ Len(pre) = steps[old].slot - 1 /\ steps[old].slot \in Nat
  <2>1. Len(pre) = IndexOf(branches[p].route, old) - 1 /\ pre \in Seq(Step)
    BY <1>1, PrefixProperties
  <2>2. /\ IndexOf(branches[p].route, old) \in DOMAIN branches[p].route
        /\ branches[p].route[IndexOf(branches[p].route, old)] = old
    BY <1>1, IndexProperties
  <2>3. IndexOf(branches[p].route, old) = steps[old].slot
    BY <1>1, <2>2 DEF RouteInv
  <2>4. DOMAIN branches[p].route = 1..Len(branches[p].route)
    BY <1>1, LenProperties
  <2> HIDE DEF pre
  <2> QED
    BY <2>1, <2>2, <2>3, <2>4
<1>3. s \notin DOMAIN steps /\ DOMAIN steps' = DOMAIN steps \cup {s} /\ calls' = calls
      /\ steps'[s].branch = b /\ steps'[s].call = c /\ steps'[s].slot = steps[old].slot
  BY DEF ModelRevisionApplied, Put
<1>4. b \in DOMAIN branches' /\ branches'[b].route = Append(pre, s)
  BY <1>1 DEF ModelRevisionApplied, Put
<1> HIDE DEF pre
<1>5. steps[old].slot \in DOMAIN Append(pre, s) /\ Append(pre, s)[steps[old].slot] = s
  BY <1>2
<1> QED
  BY <1>3, <1>4, <1>5 DEF NewStep

LEMMA StepChange ==
  ASSUME RouteInv, [Next]_vars
  PROVE  StepsSame \/ \E s, b : NewStep(s, b) /\ FreshCall(s, b)
<1>1. CASE steps' = steps
  BY <1>1 DEF StepsSame
<1>2. CASE StepEvent
  <2>1. PICK s \in Step, b \in Branch :
          \/ \E replaces \in DOMAIN steps \cup {None} :
               \/ \E c \in DOMAIN calls : ModelStepSealed(s, b, replaces, c)
               \/ \E a \in DOMAIN actions : HumanStepSealed(s, b, replaces, a)
          \/ \E p \in DOMAIN branches, old \in DOMAIN steps, c \in DOMAIN calls :
               ModelRevisionApplied(p, b, old, s, c)
    BY <1>2, Zenon DEF StepEvent
  <2>2. TypeOK
    BY DEF RouteInv
  <2>3. ASSUME NEW replaces, NEW c \in DOMAIN calls, ModelStepSealed(s, b, replaces, c)
        PROVE  NewStep(s, b) /\ FreshCall(s, b)
    <3>1. Seal(s, b, replaces, WriterOutput(c), c, None)
          /\ calls[c].target = <<b, Len(branches[b].route) + 1>>
      BY <2>3 DEF ModelStepSealed, NextSlot
    <3>2. NewStep(s, b) /\ steps'[s].call = c /\ steps'[s].slot = Len(branches[b].route) + 1
            /\ b \in DOMAIN branches
      BY <2>2, <3>1, SealIsNew
    <3>3. calls[c].target[1] = b /\ calls[c].target[2] = steps'[s].slot
      BY <3>1, <3>2
    <3> QED
      BY <3>2, <3>3 DEF FreshCall
  <2>4. ASSUME NEW replaces, NEW a, HumanStepSealed(s, b, replaces, a)
        PROVE  NewStep(s, b) /\ FreshCall(s, b)
    BY <2>2, <2>4, SealIsNew DEF HumanStepSealed, FreshCall
  <2>5. ASSUME NEW p, NEW old, NEW c, ModelRevisionApplied(p, b, old, s, c)
        PROVE  NewStep(s, b) /\ FreshCall(s, b)
    <3>1. NewStep(s, b) /\ steps'[s].call = c
      BY <2>5, RevisionIsNew
    <3>2. c \in DOMAIN calls /\ calls[c].target = <<p, NextSlot(p)>> /\ ~Materialized(c)
          /\ p \in DOMAIN branches /\ b \notin DOMAIN branches
      BY <2>5 DEF ModelRevisionApplied, ActiveBranches
    <3>3. calls[c].target[1] # b /\ calls[c].target[1] = p
      BY <3>2
    <3>4. branches'[p].status = "parked"
      BY <2>2, <2>5, <3>2 DEF ModelRevisionApplied, Put, TypeOK, Table, BranchRec
    <3> QED
      BY <3>1, <3>2, <3>3, <3>4 DEF FreshCall
  <2> QED
    BY <2>1, <2>3, <2>4, <2>5
<1>3. CASE BranchEvent
  BY <1>1, <1>3, BranchEventFrame DEF BranchFrame
<1>4. CASE CallEvent
  BY <1>1, <1>4 DEF CallEvent, ModelCallStarted, ModelCallChunk, ModelCallFinished,
     ModelCallFailed, ModelCallAborted, Terminate, WriterOutputNormalized,
     ModelRevisionDeferred, WriterRouteCompletion
<1>5. CASE CheckEvent \/ CandidateEvent
  BY <1>1, <1>5, CheckEventFrame, CandidateEventFrame
<1>6. CASE RunCreated \/ (\E e \in Source : SourceEvidenceRegistered(e))
             \/ (\E a \in Action : HumanActionRecorded(a)) \/ UNCHANGED vars
  BY <1>1, <1>6 DEF RunCreated, SourceEvidenceRegistered, HumanActionRecorded, HumanAction, vars
<1> QED
  BY <1>2, <1>3, <1>4, <1>5, <1>6, Zenon DEF Next
LEMMA SealedKept ==
  ASSUME RouteInv, SealedAt, StepsKept, RoutesKept, NEW s \in DOMAIN steps
  PROVE  /\ steps'[s] = steps[s]
         /\ steps'[s].branch \in DOMAIN branches'
         /\ steps'[s].slot \in DOMAIN branches'[steps'[s].branch].route
         /\ branches'[steps'[s].branch].route[steps'[s].slot] = s
         /\ steps[s].slot <= Len(branches[steps[s].branch].route)
         /\ steps[s].slot \in Nat
<1> DEFINE b == steps[s].branch
           r == branches[b].route
           r2 == branches'[b].route
           i == steps[s].slot
<1>1. steps'[s] = steps[s] /\ b \in DOMAIN branches /\ i \in DOMAIN r /\ r[i] = s
  BY DEF StepsKept, SealedAt
<1>2. r \in Seq(Step) /\ b \in DOMAIN branches' /\ r2 \in Seq(Step) /\ Len(r) <= Len(r2)
      /\ \A j \in 1..Len(r) : r2[j] = r[j]
  BY <1>1 DEF RoutesKept, RouteInv, TypeOK, Table, BranchRec
<1> HIDE DEF r, r2, i
<1>3. DOMAIN r = 1..Len(r) /\ DOMAIN r2 = 1..Len(r2) /\ Len(r) \in Nat /\ Len(r2) \in Nat
  BY <1>2, LenProperties
<1>4. i \in DOMAIN r2 /\ r2[i] = s /\ i <= Len(r) /\ i \in Nat
  BY <1>1, <1>2, <1>3
<1> QED
  BY <1>1, <1>2, <1>4 DEF r, r2, i

LEMMA SealedAtStep ==
  ASSUME RouteInv, SealedAt, [Next]_vars
  PROVE  SealedAt'
<1>0. StepsKept /\ RoutesKept
  BY RoutesKeptStep, SettledStep DEF Settled, RouteInv
<1>1. ASSUME NEW s \in DOMAIN steps
      PROVE  /\ steps'[s].branch \in DOMAIN branches'
             /\ steps'[s].slot \in DOMAIN branches'[steps'[s].branch].route
             /\ branches'[steps'[s].branch].route[steps'[s].slot] = s
  BY <1>0, SealedKept
<1>2. ASSUME NEW s, NEW b, NewStep(s, b) PROVE SealedAt'
  <2>1. \A x : x \in DOMAIN steps' <=> x \in DOMAIN steps \/ x = s
    BY <1>2 DEF NewStep
  <2> QED
    BY <1>1, <1>2, <2>1 DEF SealedAt, NewStep
<1>3. CASE StepsSame
  BY <1>1, <1>3 DEF SealedAt, StepsSame
<1> QED
  BY <1>2, <1>3, StepChange


LEMMA OneStepKept ==
  ASSUME RevInv, CallsKept, StepsKept, RoutesKept, TypeOK',
         StepsSame \/ \E s, b : NewStep(s, b) /\ FreshCall(s, b)
  PROVE  CallSealed' /\ OneStepPerCall'
<1>1. ASSUME NEW s \in DOMAIN steps
      PROVE  /\ steps'[s] = steps[s]
             /\ steps[s].slot <= Len(branches[steps[s].branch].route)
             /\ steps[s].slot \in Nat
  BY SealedKept DEF RevInv
<1>2. ASSUME NEW s \in DOMAIN steps, steps[s].call # None
      PROVE  /\ steps[s].call \in DOMAIN calls
             /\ calls'[steps'[s].call].target = calls[steps[s].call].target
             /\ steps'[s].call \in DOMAIN calls'
             /\ steps'[s].branch = calls'[steps'[s].call].target[1] =>
                  calls'[steps'[s].call].target[2] = steps'[s].slot
  BY <1>1, <1>2 DEF CallsKept, RevInv, CallSealed
<1>3. CASE StepsSame
  <2>1. \A s : s \in DOMAIN steps' <=> s \in DOMAIN steps
    BY <1>3 DEF StepsSame
  <2>3. CallSealed'
    BY <1>1, <1>2, <2>1 DEF CallSealed
  <2>4. OneStepPerCall'
    <3> SUFFICES ASSUME NEW s1 \in DOMAIN steps', NEW s2 \in DOMAIN steps',
                        steps'[s1].call # None /\ steps'[s1].call = steps'[s2].call,
                        (steps'[s1].branch = calls'[steps'[s1].call].target[1])
                          = (steps'[s2].branch = calls'[steps'[s1].call].target[1])
                 PROVE  s1 = s2
      BY DEF OneStepPerCall
    <3>1. /\ s1 \in DOMAIN steps /\ s2 \in DOMAIN steps
          /\ steps'[s1] = steps[s1] /\ steps'[s2] = steps[s2]
      BY <2>1, <1>1
    <3>2. calls'[steps[s1].call].target = calls[steps[s1].call].target
      BY <3>1, <1>2
    <3> QED
      BY <3>1, <3>2 DEF RevInv, OneStepPerCall
  <2> QED
    BY <2>3, <2>4
<1>4. ASSUME NEW s, NEW b, NewStep(s, b), FreshCall(s, b)
      PROVE  CallSealed' /\ OneStepPerCall'
  <2>1. \A x : x \in DOMAIN steps' <=> x \in DOMAIN steps \/ x = s
    BY <1>4 DEF NewStep
  <2>3. CallSealed'
    BY <1>1, <1>2, <1>4, <2>1 DEF CallSealed, NewStep, FreshCall
  <2>4. ASSUME NEW x \in DOMAIN steps, steps[x].call = steps'[s].call, steps'[s].call # None,
               (steps[x].branch = calls[steps'[s].call].target[1])
                 = (steps'[s].branch = calls[steps'[s].call].target[1])
        PROVE  FALSE
    <3> DEFINE c == steps'[s].call
    <3>1. Materialized(c)
      BY <2>4 DEF Materialized
    <3>2. /\ c \in DOMAIN calls /\ b \in DOMAIN branches
          /\ calls[c].target[1] = b /\ calls[c].target[2] = steps'[s].slot
          /\ steps'[s].slot = Len(branches[b].route) + 1
      BY <3>1, <2>4, <1>4 DEF FreshCall
    <3>3. steps[x].branch = b
      BY <2>4, <3>2, <1>4 DEF NewStep
    <3>4. steps[x].slot = steps'[s].slot
      BY <2>4, <3>2, <3>3 DEF RevInv, CallSealed
    <3>5. Len(branches[b].route) \in Nat
      BY <3>2, LenProperties DEF RevInv, RouteInv, TypeOK, Table, BranchRec
    <3> QED
      BY <1>1, <3>2, <3>3, <3>4, <3>5
  <2>5. OneStepPerCall'
    <3> SUFFICES ASSUME NEW s1 \in DOMAIN steps', NEW s2 \in DOMAIN steps',
                        steps'[s1].call # None /\ steps'[s1].call = steps'[s2].call,
                        (steps'[s1].branch = calls'[steps'[s1].call].target[1])
                          = (steps'[s2].branch = calls'[steps'[s1].call].target[1])
                 PROVE  s1 = s2
      BY DEF OneStepPerCall
    <3>0. calls' = calls
      BY <1>4 DEF NewStep
    <3>1. CASE s1 \in DOMAIN steps /\ s2 \in DOMAIN steps
      <4>1. steps'[s1] = steps[s1] /\ steps'[s2] = steps[s2]
        BY <3>1, <1>1
      <4> QED
        BY <3>0, <3>1, <4>1 DEF RevInv, OneStepPerCall
    <3>2. CASE s1 = s /\ s2 \in DOMAIN steps
      <4>1. steps'[s2] = steps[s2]
        BY <3>2, <1>1
      <4> QED
        BY <2>4, <3>0, <3>2, <4>1
    <3>3. CASE s2 = s /\ s1 \in DOMAIN steps
      <4>1. steps'[s1] = steps[s1]
        BY <3>3, <1>1
      <4> QED
        BY <2>4, <3>0, <3>3, <4>1
    <3> QED
      BY <2>1, <3>1, <3>2, <3>3
  <2> QED
    BY <2>3, <2>5
<1> QED
  BY <1>3, <1>4

(* Raising the number of active branches is what the limit refuses; a      *)
(* revision raises it by the child and lowers it by the parent.            *)
LEMMA ActiveFinite ==
  ASSUME TypeOK
  PROVE  IsFiniteSet(ActiveBranches) /\ Cardinality(ActiveBranches) \in Nat
<1>1. ActiveBranches \subseteq Branch /\ IsFiniteSet(Branch)
  BY FiniteAssumption DEF ActiveBranches, TypeOK, Table
<1> QED
  BY <1>1, FS_Subset, FS_CardinalityType

LEMMA CapOfSame ==
  ASSUME ActiveWithinCap, ActiveBranches' = ActiveBranches
  PROVE  ActiveWithinCap'
BY DEF ActiveWithinCap

LEMMA CapStep ==
  ASSUME TypeOK, TypeOK', ActiveWithinCap, [Next]_vars
  PROVE  ActiveWithinCap'
<1>0. \A x \in DOMAIN branches : branches[x] \in BranchRec
  BY DEF TypeOK, Table
<1>1. CASE branches' = branches
  BY <1>1 DEF ActiveWithinCap, ActiveBranches
<1>2. CASE BranchEvent
  <2>1. WithinCap
    BY <1>2, BranchEventFrame DEF BranchFrame
  <2> QED
    BY <2>1 DEF WithinCap, ActiveWithinCap
<1>3. CASE StepEvent
  <2>1. PICK s \in Step, b \in Branch :
          \/ \E replaces \in DOMAIN steps \cup {None} :
               \/ \E c \in DOMAIN calls : ModelStepSealed(s, b, replaces, c)
               \/ \E a \in DOMAIN actions : HumanStepSealed(s, b, replaces, a)
          \/ \E p \in DOMAIN branches, old \in DOMAIN steps, c \in DOMAIN calls :
               ModelRevisionApplied(p, b, old, s, c)
    BY <1>3, Zenon DEF StepEvent
  <2>2. ASSUME NEW replaces, NEW content, NEW c, NEW a, Seal(s, b, replaces, content, c, a)
        PROVE  ActiveWithinCap'
    <3>1. /\ DOMAIN branches' = DOMAIN branches
          /\ \A x \in DOMAIN branches : branches'[x].status = branches[x].status
      BY <2>2, <1>0 DEF Seal, BranchRec
    <3>2. ActiveBranches' = ActiveBranches
      BY <3>1 DEF ActiveBranches
    <3> QED
      BY <3>2, CapOfSame
  <2>3. ASSUME NEW p, NEW old, NEW c, ModelRevisionApplied(p, b, old, s, c)
        PROVE  ActiveWithinCap'
    <3> DEFINE A == ActiveBranches
    <3>1. p \in A /\ b \notin DOMAIN branches /\ p \in DOMAIN branches
      BY <2>3 DEF ModelRevisionApplied, ActiveBranches
    <3>2. /\ DOMAIN branches' = DOMAIN branches \cup {b}
          /\ branches'[b].status = "active" /\ branches'[p].status = "parked"
          /\ \A x \in DOMAIN branches : x # p => branches'[x].status = branches[x].status
      BY <2>3, <3>1, <1>0 DEF ModelRevisionApplied, Put, BranchRec
    <3>3. ActiveBranches' = (A \ {p}) \cup {b}
      BY <3>1, <3>2 DEF ActiveBranches
    <3>4. b \notin A \ {p} /\ IsFiniteSet(A) /\ Cardinality(A) \in Nat
      BY <3>1, ActiveFinite DEF ActiveBranches
    <3> HIDE DEF A
    <3>5. IsFiniteSet(A \ {p}) /\ Cardinality(A \ {p}) = Cardinality(A) - 1
      BY <3>1, <3>4, FS_RemoveElement
    <3>6. Cardinality((A \ {p}) \cup {b}) = Cardinality(A \ {p}) + 1
      BY <3>4, <3>5, FS_AddElement
    <3>7. Cardinality(ActiveBranches') = Cardinality(A)
      BY <3>3, <3>4, <3>5, <3>6
    <3> QED
      BY <3>7 DEF ActiveWithinCap, A
  <2> QED
    BY <2>1, <2>2, <2>3 DEF ModelStepSealed, HumanStepSealed
<1>4. CASE CallEvent
  <2>1. ASSUME NEW b, NEW c, WriterRouteCompletion(b, c) PROVE ActiveWithinCap'
    <3>1. DOMAIN branches' = DOMAIN branches /\ b \in DOMAIN branches
          /\ branches'[b].status = "completed"
          /\ \A x \in DOMAIN branches : x # b => branches'[x].status = branches[x].status
      BY <2>1, <1>0 DEF WriterRouteCompletion, ActiveBranches, BranchRec
    <3>2. ActiveBranches' \subseteq ActiveBranches
      BY <3>1 DEF ActiveBranches
    <3>3. IsFiniteSet(ActiveBranches) /\ Cardinality(ActiveBranches) \in Nat
      BY ActiveFinite
    <3>4. Cardinality(ActiveBranches') \in Nat
          /\ Cardinality(ActiveBranches') <= Cardinality(ActiveBranches)
      BY <3>2, <3>3, FS_Subset, FS_CardinalityType
    <3> QED
      BY <3>3, <3>4, LimitAssumption DEF ActiveWithinCap
  <2>2. branches' = branches \/ \E b \in DOMAIN branches : \E c \in Call : WriterRouteCompletion(b, c)
    BY <1>4 DEF CallEvent, ModelCallStarted, ModelCallChunk, ModelCallFinished,
       ModelCallFailed, ModelCallAborted, Terminate, WriterOutputNormalized, ModelRevisionDeferred
  <2> QED
    BY <1>1, <2>1, <2>2, Zenon
<1>5. CASE CheckEvent \/ CandidateEvent
  BY <1>1, <1>5, CheckEventFrame, CandidateEventFrame
<1>6. CASE RunCreated \/ (\E e \in Source : SourceEvidenceRegistered(e))
             \/ (\E a \in Action : HumanActionRecorded(a)) \/ UNCHANGED vars
  BY <1>1, <1>6 DEF RunCreated, SourceEvidenceRegistered, HumanActionRecorded, HumanAction, vars
<1> QED
  BY <1>2, <1>3, <1>4, <1>5, <1>6, Zenon DEF Next

LEMMA RevInvStep == RevInv /\ [Next]_vars => RevInv'
<1> SUFFICES ASSUME RevInv, [Next]_vars PROVE RevInv'
  OBVIOUS
<1>1. RouteInv /\ TypeOK /\ ActiveWithinCap
  BY DEF RevInv, RouteInv
<1>2. RouteInv' /\ TypeOK' /\ StepsKept /\ CallsKept /\ RoutesKept
  BY <1>1, RouteInvStep, TypeStep, SettledStep, CallsKeptStep, RoutesKeptStep DEF Settled
<1>3. SealedAt' /\ CallSealed' /\ OneStepPerCall'
  BY <1>1, <1>2, StepChange, SealedAtStep, OneStepKept DEF RevInv
<1>4. ActiveWithinCap'
  BY <1>1, <1>2, CapStep
<1> QED
  BY <1>2, <1>3, <1>4 DEF RevInv

LEMMA RevInvInit == Init => RevInv
<1> SUFFICES ASSUME Init PROVE RevInv
  OBVIOUS
<1>1. DOMAIN branches = {} /\ DOMAIN steps = {}
  BY EmptyTable DEF Init
<1>2. ActiveBranches = {}
  BY <1>1 DEF ActiveBranches
<1>3. ActiveWithinCap
  BY <1>2, FS_EmptySet, LimitAssumption DEF ActiveWithinCap
<1> QED
  BY <1>1, <1>3, RouteInvInit DEF RevInv, SealedAt, CallSealed, OneStepPerCall

(* A call seals at most one step of its branch and at most one revision,   *)
(* and no event, the revision included, runs more branches than allowed.   *)
THEOREM RevisionsStaySound == Spec => []RevisionsSound
<1>1. RevInv => RevisionsSound
  BY DEF RevInv, RevisionsSound
<1> QED
  BY <1>1, RevInvInit, RevInvStep, PTL DEF Spec

(***************************************************************************)
(* What is settled stays.                                                  *)
(***************************************************************************)

(* The inductive invariant: the call a step cites exists and has finished, *)
(* and the step's text is that call's effective output.                    *)
TextSealed(s) ==
  /\ steps[s].call \in DOMAIN calls /\ calls[steps[s].call].state = "finished"
  /\ steps[s].content = WriterOutput(steps[s].call)
TextInv == TypeOK /\ \A s \in DOMAIN steps : steps[s].call # None => TextSealed(s)

(* What an event may do to them: the effective output of a finished call   *)
(* that sealed a step does not move, and a step sealed by a call takes the *)
(* effective output of a finished one.                                     *)
TextsKept ==
  \A c \in DOMAIN calls : calls[c].state = "finished" /\ Materialized(c) =>
    /\ c \in DOMAIN calls' /\ calls'[c].state = "finished"
    /\ calls'[c].out = calls[c].out /\ calls'[c].norm = calls[c].norm
NewTextSealed ==
  \A s \in DOMAIN steps' :
    \/ s \in DOMAIN steps
    \/ steps'[s].call = None
    \/ /\ calls' = calls /\ steps'[s].call \in DOMAIN calls
       /\ calls[steps'[s].call].state = "finished"
       /\ steps'[s].content = WriterOutput(steps'[s].call)

LEMMA TextsKeptStep ==
  ASSUME TypeOK, [Next]_vars
  PROVE  TextsKept
<1>0. \A c \in DOMAIN calls : calls[c] \in CallRec
  BY DEF TypeOK, Table
<1>1. CASE calls' = calls
  BY <1>1 DEF TextsKept
<1>2. CASE CallEvent
  <2>1. PICK c \in Call :
          \/ \E role \in Roles, target \in Targets : ModelCallStarted(c, role, target)
          \/ \E ctl \in Control : ModelCallChunk(c, ctl)
          \/ \E out \in Content \cup {None} :
               \/ "finished" \in Ends /\ ModelCallFinished(c, out)
               \/ "failed" \in Ends /\ ModelCallFailed(c, out)
               \/ "aborted" \in Ends /\ \E a \in DOMAIN actions : ModelCallAborted(c, out, a)
          \/ \E content \in Content : WriterOutputNormalized(c, content)
          \/ \E target \in Step : ModelRevisionDeferred(c, target)
          \/ \E b \in DOMAIN branches : WriterRouteCompletion(b, c)
    BY <1>2, Zenon DEF CallEvent
  <2>2. ASSUME NEW role, NEW target, ModelCallStarted(c, role, target) PROVE TextsKept
    BY <2>2 DEF ModelCallStarted, Put, TextsKept
  <2>3. ASSUME NEW ctl, ModelCallChunk(c, ctl) PROVE TextsKept
    BY <2>3, <1>0 DEF ModelCallChunk, TextsKept, CallRec
  <2>4. ASSUME NEW state, NEW out, Terminate(c, state, out) PROVE TextsKept
    BY <2>4, <1>0 DEF Terminate, InFlight, TextsKept, CallRec
  <2>5. ASSUME NEW content, WriterOutputNormalized(c, content) PROVE TextsKept
    BY <2>5, <1>0 DEF WriterOutputNormalized, TextsKept, CallRec
  <2>6. ASSUME NEW target, ModelRevisionDeferred(c, target) PROVE TextsKept
    BY <2>6, <1>0 DEF ModelRevisionDeferred, TextsKept, CallRec
  <2>7. ASSUME NEW b, WriterRouteCompletion(b, c) PROVE TextsKept
    BY <2>7, <1>0 DEF WriterRouteCompletion, TextsKept, CallRec
  <2> QED
    BY <2>1, <2>2, <2>3, <2>4, <2>5, <2>6, <2>7
       DEF ModelCallFinished, ModelCallFailed, ModelCallAborted
<1>3. CASE BranchEvent \/ CheckEvent
  BY <1>1, <1>3, BranchEventFrame, CheckEventFrame DEF BranchFrame
<1>4. CASE StepEvent \/ CandidateEvent
  BY <1>1, <1>4, StepEventFrame, CandidateEventFrame
<1>5. CASE RunCreated \/ (\E e \in Source : SourceEvidenceRegistered(e))
             \/ (\E a \in Action : HumanActionRecorded(a)) \/ UNCHANGED vars
  BY <1>1, <1>5 DEF RunCreated, SourceEvidenceRegistered, HumanActionRecorded, HumanAction, vars
<1> QED
  BY <1>2, <1>3, <1>4, <1>5, Zenon DEF Next

LEMMA NewTextSealedStep ==
  ASSUME TypeOK, [Next]_vars
  PROVE  NewTextSealed
<1>1. CASE steps' = steps
  BY <1>1 DEF NewTextSealed
<1>2. CASE StepEvent
  <2>1. PICK s \in Step, b \in Branch :
          \/ \E replaces \in DOMAIN steps \cup {None} :
               \/ \E c \in DOMAIN calls : ModelStepSealed(s, b, replaces, c)
               \/ \E a \in DOMAIN actions : HumanStepSealed(s, b, replaces, a)
          \/ \E p \in DOMAIN branches, old \in DOMAIN steps, c \in DOMAIN calls :
               ModelRevisionApplied(p, b, old, s, c)
    BY <1>2, Zenon DEF StepEvent
  <2>2. ASSUME NEW replaces, NEW c, ModelStepSealed(s, b, replaces, c) PROVE NewTextSealed
    BY <2>2 DEF ModelStepSealed, Seal, Put, FinishedWriter, NewTextSealed
  <2>3. ASSUME NEW replaces, NEW a, HumanStepSealed(s, b, replaces, a) PROVE NewTextSealed
    BY <2>3 DEF HumanStepSealed, Seal, Put, NewTextSealed
  <2>4. ASSUME NEW p, NEW old, NEW c, ModelRevisionApplied(p, b, old, s, c) PROVE NewTextSealed
    BY <2>4 DEF ModelRevisionApplied, Put, FinishedWriter, NewTextSealed
  <2> QED
    BY <2>1, <2>2, <2>3, <2>4
<1>3. CASE BranchEvent
  BY <1>1, <1>3, BranchEventFrame DEF BranchFrame
<1>4. CASE CallEvent
  BY <1>1, <1>4 DEF CallEvent, ModelCallStarted, ModelCallChunk, ModelCallFinished,
     ModelCallFailed, ModelCallAborted, Terminate, WriterOutputNormalized,
     ModelRevisionDeferred, WriterRouteCompletion
<1>5. CASE CheckEvent \/ CandidateEvent
  BY <1>1, <1>5, CheckEventFrame, CandidateEventFrame
<1>6. CASE RunCreated \/ (\E e \in Source : SourceEvidenceRegistered(e))
             \/ (\E a \in Action : HumanActionRecorded(a)) \/ UNCHANGED vars
  BY <1>1, <1>6 DEF RunCreated, SourceEvidenceRegistered, HumanActionRecorded, HumanAction, vars
<1> QED
  BY <1>2, <1>3, <1>4, <1>5, <1>6, Zenon DEF Next

LEMMA TextInvStep == TextInv /\ [Next]_vars => TextInv'
<1> SUFFICES ASSUME TextInv, [Next]_vars PROVE TextInv'
  OBVIOUS
<1>1. TypeOK /\ TypeOK' /\ StepsKept /\ TextsKept /\ NewTextSealed
  BY TypeStep, SettledStep, TextsKeptStep, NewTextSealedStep DEF TextInv, Settled
<1>2. ASSUME NEW s \in DOMAIN steps', steps'[s].call # None PROVE TextSealed(s)'
  <2> DEFINE c == steps'[s].call
  <2>1. CASE s \in DOMAIN steps
    <3>1. steps'[s] = steps[s] /\ c = steps[s].call
      BY <1>1, <2>1 DEF StepsKept
    <3>2. /\ c \in DOMAIN calls /\ calls[c].state = "finished"
          /\ steps[s].content = IF calls[c].norm = None THEN calls[c].out ELSE calls[c].norm
      BY <1>2, <2>1, <3>1 DEF TextInv, TextSealed, WriterOutput
    <3>3. Materialized(c)
      BY <2>1, <3>1 DEF Materialized
    <3>4. /\ c \in DOMAIN calls' /\ calls'[c].state = "finished"
          /\ calls'[c].out = calls[c].out /\ calls'[c].norm = calls[c].norm
      BY <1>1, <3>2, <3>3 DEF TextsKept
    <3> QED
      BY <3>1, <3>2, <3>4 DEF TextSealed, WriterOutput
  <2>2. CASE s \notin DOMAIN steps
    BY <1>1, <1>2, <2>2 DEF NewTextSealed, TextSealed, WriterOutput
  <2> QED
    BY <2>1, <2>2
<1> QED
  BY <1>1, <1>2 DEF TextInv

LEMMA TextInvInit == Init => TextInv
BY TypeInit, EmptyTable DEF Init, TextInv

(* Nothing moves a killed branch: no status follows "killed", and the      *)
(* events that seal, revise or complete ask for an active branch.          *)
LEMMA KilledKept ==
  ASSUME TypeOK, [Next]_vars
  PROVE  KilledStay
<1>0. \A x \in DOMAIN branches : branches[x] \in BranchRec
  BY DEF TypeOK, Table
<1>1. CASE branches' = branches
  BY <1>1 DEF KilledStay
<1>2. CASE BranchEvent
  <2>1. PICK b \in Branch :
          \/ \E status \in {"active", "paused"} :
               \/ RootBranchCreated(b, status)
               \/ \E p \in DOMAIN branches, anchor \in DOMAIN steps, mode \in {"after", "replace"},
                    reason \in ChildReasons, a \in DOMAIN actions \cup {None} :
                    ChildBranchCreated(b, p, anchor, mode, reason, a, status)
          \/ \E to \in Statuses, reason \in Moves, a \in DOMAIN actions \cup {None},
                k \in DOMAIN checks \cup {None}, c \in DOMAIN calls \cup {None} :
                BranchStatusChanged(b, to, reason, a, k, c)
    BY <1>2, Zenon DEF BranchEvent
  <2>2. ASSUME NEW status, RootBranchCreated(b, status) PROVE KilledStay
    BY <2>2 DEF RootBranchCreated, Put, KilledStay
  <2>3. ASSUME NEW p, NEW anchor, NEW mode, NEW reason, NEW a, NEW status,
               ChildBranchCreated(b, p, anchor, mode, reason, a, status)
        PROVE  KilledStay
    BY <2>3 DEF ChildBranchCreated, Put, KilledStay
  <2>4. ASSUME NEW to, NEW reason, NEW a, NEW k, NEW c,
               BranchStatusChanged(b, to, reason, a, k, c)
        PROVE  KilledStay
    <3>1. branches[b].status # "killed"
      BY <2>4 DEF BranchStatusChanged, Transitions
    <3> QED
      BY <2>4, <3>1, <1>0 DEF BranchStatusChanged, KilledStay, BranchRec
  <2> QED
    BY <2>1, <2>2, <2>3, <2>4, Zenon
<1>3. CASE StepEvent
  <2>1. PICK s \in Step, b \in Branch :
          \/ \E replaces \in DOMAIN steps \cup {None} :
               \/ \E c \in DOMAIN calls : ModelStepSealed(s, b, replaces, c)
               \/ \E a \in DOMAIN actions : HumanStepSealed(s, b, replaces, a)
          \/ \E p \in DOMAIN branches, old \in DOMAIN steps, c \in DOMAIN calls :
               ModelRevisionApplied(p, b, old, s, c)
    BY <1>3, Zenon DEF StepEvent
  <2>2. ASSUME NEW replaces, NEW content, NEW c, NEW a, Seal(s, b, replaces, content, c, a)
        PROVE  KilledStay
    BY <2>2, <1>0 DEF Seal, ActiveBranches, KilledStay, BranchRec
  <2>3. ASSUME NEW p, NEW old, NEW c, ModelRevisionApplied(p, b, old, s, c) PROVE KilledStay
    BY <2>3, <1>0 DEF ModelRevisionApplied, ActiveBranches, Put, KilledStay, BranchRec
  <2> QED
    BY <2>1, <2>2, <2>3 DEF ModelStepSealed, HumanStepSealed
<1>4. CASE CallEvent
  <2>1. ASSUME NEW b, NEW c, WriterRouteCompletion(b, c) PROVE KilledStay
    BY <2>1, <1>0 DEF WriterRouteCompletion, ActiveBranches, KilledStay, BranchRec
  <2>2. branches' = branches \/ \E b \in DOMAIN branches : \E c \in Call : WriterRouteCompletion(b, c)
    BY <1>4 DEF CallEvent, ModelCallStarted, ModelCallChunk, ModelCallFinished,
       ModelCallFailed, ModelCallAborted, Terminate, WriterOutputNormalized, ModelRevisionDeferred
  <2> QED
    BY <1>1, <2>1, <2>2, Zenon
<1>5. CASE CheckEvent \/ CandidateEvent
  BY <1>1, <1>5, CheckEventFrame, CandidateEventFrame
<1>6. CASE RunCreated \/ (\E e \in Source : SourceEvidenceRegistered(e))
             \/ (\E a \in Action : HumanActionRecorded(a)) \/ UNCHANGED vars
  BY <1>1, <1>6 DEF RunCreated, SourceEvidenceRegistered, HumanActionRecorded, HumanAction, vars
<1> QED
  BY <1>2, <1>3, <1>4, <1>5, <1>6, Zenon DEF Next

(* The text of a sealed step stays the effective output of the call it     *)
(* cites, after every event, and a killed branch is never touched again.   *)
THEOREM SettledStaysSettled == Spec => SettledStays
<1>1. TextInv /\ [Next]_vars => [SealedOutputFixed' /\ KilledStay]_vars
  <2> SUFFICES ASSUME TextInv, [Next]_vars PROVE SealedOutputFixed' /\ KilledStay
    OBVIOUS
  <2>1. TextInv'
    BY TextInvStep
  <2> QED
    BY <2>1, KilledKept DEF TextInv, TextSealed, SealedOutputFixed
<1> QED
  BY <1>1, TextInvInit, TextInvStep, PTL DEF Spec, SettledStays

(***************************************************************************)
(* Lineages, and what routes inherit.                                      *)
(***************************************************************************)

(* The recursion Lineage is defined by has a solution, whatever the parents*)
(* are: the least set that holds a branch and is closed under parents.     *)
Up(br, f, x) == {x} \cup IF br[x].parent \in DOMAIN br THEN f[br[x].parent] ELSE {}
LineageIn(br) == CHOOSE up : up = [x \in DOMAIN br |-> Up(br, up, x)]

LEMMA LineageExists ==
  ASSUME NEW br
  PROVE  \E up : up = [x \in DOMAIN br |-> Up(br, up, x)]
<1> DEFINE D == DOMAIN br
           Closed(S) == \A z \in S : br[z].parent \in D => br[z].parent \in S
           f == [x \in D |-> {y \in D : \A S \in SUBSET D : x \in S /\ Closed(S) => y \in S}]
<1>1. ASSUME NEW x \in D PROVE f[x] = Up(br, f, x)
  <2> DEFINE p == br[x].parent
  <2>1. x \in f[x]
    OBVIOUS
  <2>2. CASE p \in D
    <3>1. ASSUME NEW y \in f[x], y # x PROVE y \in f[p]
      <4>1. SUFFICES ASSUME NEW S \in SUBSET D, p \in S, Closed(S) PROVE y \in S
        BY <2>2, <3>1
      <4>2. S \cup {x} \in SUBSET D /\ Closed(S \cup {x})
        BY <4>1
      <4> QED
        BY <3>1, <4>2
    <3>2. ASSUME NEW y \in f[p] PROVE y \in f[x]
      BY <2>2
    <3>3. f[x] = {x} \cup f[p]
      BY <2>1, <3>1, <3>2
    <3> QED
      BY <2>2, <3>3 DEF Up
  <2>3. CASE p \notin D
    <3>1. {x} \in SUBSET D /\ Closed({x})
      BY <2>3
    <3>2. \A y \in f[x] : y = x
      BY <3>1
    <3> QED
      BY <2>1, <2>3, <3>2 DEF Up
  <2> QED
    BY <2>2, <2>3
<1>2. f = [x \in D |-> f[x]]
  OBVIOUS
<1> HIDE DEF f
<1>3. f = [x \in D |-> Up(br, f, x)]
  BY <1>1, <1>2
<1> QED
  BY <1>3

LEMMA LineageUnfolds ==
  ASSUME NEW br
  PROVE  \A x \in DOMAIN br : LineageIn(br)[x] = Up(br, LineageIn(br), x)
<1> DEFINE P(up) == up = [x \in DOMAIN br |-> Up(br, up, x)]
<1>1. \E up : P(up)
  BY LineageExists
<1>2. P(CHOOSE up : P(up))
  <2> HIDE DEF P
  <2> QED
    BY <1>1, Zenon
<1>3. P(LineageIn(br))
  BY <1>2 DEF LineageIn
<1> QED
  BY <1>3

LEMMA LineageHere ==
  \A b : Lineage(b) = LineageIn(branches)[b]
BY DEF Lineage, LineageIn, Up
LEMMA LineageThere ==
  \A b : Lineage(b)' = LineageIn(branches')[b]
BY DEF Lineage, LineageIn, Up

(* The parents of branches are branches, and going from parent to parent   *)
(* ends.                                                                   *)
Ordered == \A S \in SUBSET DOMAIN branches : S # {} => \E x \in S : branches[x].parent \notin S
ParentsKnown == \A b \in DOMAIN branches : branches[b].parent \in DOMAIN branches \cup {None}
(* What an event does to where a branch comes from: nothing, or give a new *)
(* branch an old parent.                                                   *)
ParentsKept ==
  \A b \in DOMAIN branches :
    /\ b \in DOMAIN branches' /\ branches'[b].parent = branches[b].parent
    /\ branches'[b].anchor = branches[b].anchor /\ branches'[b].reason = branches[b].reason
    /\ branches'[b].inherited = branches[b].inherited
NewParents ==
  \A b \in DOMAIN branches' :
    b \in DOMAIN branches \/ branches'[b].parent \in DOMAIN branches \cup {None}

LEMMA LineageOf ==
  ASSUME NEW b \in DOMAIN branches
  PROVE  /\ b \in Lineage(b)
         /\ branches[b].parent \in DOMAIN branches =>
              Lineage(b) = {b} \cup Lineage(branches[b].parent)
         /\ branches[b].parent \notin DOMAIN branches => Lineage(b) = {b}
<1>1. LineageIn(branches)[b] = Up(branches, LineageIn(branches), b)
  BY LineageUnfolds
<1> QED
  BY <1>1, LineageHere DEF Up

LEMMA LineageNext ==
  ASSUME NEW b \in DOMAIN branches'
  PROVE  /\ b \in Lineage(b)'
         /\ branches'[b].parent \in DOMAIN branches' =>
              \A p : p = branches'[b].parent => Lineage(b)' = {b} \cup Lineage(p)'
         /\ branches'[b].parent \notin DOMAIN branches' => Lineage(b)' = {b}
<1>1. LineageIn(branches')[b] = Up(branches', LineageIn(branches'), b)
  BY LineageUnfolds
<1> QED
  BY <1>1, LineageThere DEF Up

LEMMA LineageNested ==
  ASSUME Ordered, NEW b \in DOMAIN branches, NEW x \in Lineage(b)
  PROVE  x \in DOMAIN branches /\ Lineage(x) \subseteq Lineage(b)
<1> DEFINE Good(y, z) == z \in DOMAIN branches /\ Lineage(z) \subseteq Lineage(y)
           S == {y \in DOMAIN branches : \E z \in Lineage(y) : ~Good(y, z)}
<1>1. SUFFICES ASSUME S # {} PROVE FALSE
  OBVIOUS
<1>2. PICK y \in S : branches[y].parent \notin S
  BY <1>1 DEF Ordered
<1>3. PICK z \in Lineage(y) : ~Good(y, z)
  BY <1>2
<1>4. z # y /\ branches[y].parent \in DOMAIN branches
      /\ Lineage(y) = {y} \cup Lineage(branches[y].parent) /\ z \in Lineage(branches[y].parent)
  BY <1>2, <1>3, LineageOf
<1>5. Good(branches[y].parent, z)
  BY <1>2, <1>4
<1> QED
  BY <1>3, <1>4, <1>5

LEMMA LineageKept ==
  ASSUME TypeOK', Ordered, ParentsKnown, ParentsKept, NEW b \in DOMAIN branches
  PROVE  Lineage(b)' = Lineage(b)
<1> DEFINE S == {y \in DOMAIN branches : Lineage(y)' # Lineage(y)}
<1>1. SUFFICES ASSUME S # {} PROVE FALSE
  OBVIOUS
<1>2. PICK y \in S : branches[y].parent \notin S
  BY <1>1 DEF Ordered
<1>3. y \in DOMAIN branches /\ y \in DOMAIN branches' /\ branches'[y].parent = branches[y].parent
      /\ branches[y].parent \in DOMAIN branches \cup {None}
  BY <1>2 DEF ParentsKept, ParentsKnown
<1>4. None \notin DOMAIN branches'
  BY NoneAssumption DEF TypeOK, Table, Ids
<1>5. PICK p : p = branches[y].parent
  OBVIOUS
<1>6. CASE p \in DOMAIN branches
  <2>1. Lineage(p)' = Lineage(p) /\ p \in DOMAIN branches'
    BY <1>2, <1>5, <1>6 DEF ParentsKept
  <2>2. Lineage(y)' = {y} \cup Lineage(p)'
    BY <1>3, <1>5, <2>1, LineageNext
  <2>3. Lineage(y) = {y} \cup Lineage(p)
    BY <1>3, <1>5, <1>6, LineageOf
  <2> QED
    BY <1>2, <2>1, <2>2, <2>3
<1>7. CASE p = None /\ p \notin DOMAIN branches
  <2>1. Lineage(y)' = {y}
    BY <1>3, <1>4, <1>5, <1>7, LineageNext
  <2>2. Lineage(y) = {y}
    BY <1>3, <1>5, <1>7, LineageOf
  <2> QED
    BY <1>2, <2>1, <2>2
<1> QED
  BY <1>3, <1>5, <1>6, <1>7

LEMMA OrderedStep ==
  ASSUME TypeOK', Ordered, ParentsKnown, ParentsKept, NewParents
  PROVE  Ordered' /\ ParentsKnown'
<1>1. None \notin DOMAIN branches'
  BY NoneAssumption DEF TypeOK, Table, Ids
<1>2. ParentsKnown'
  BY DEF ParentsKnown, ParentsKept, NewParents
<1>3. ASSUME NEW S \in SUBSET DOMAIN branches', S # {}
      PROVE  \E x \in S : branches'[x].parent \notin S
  <2> DEFINE T == S \cap DOMAIN branches
  <2>1. CASE T # {}
    <3>1. PICK x \in T : branches[x].parent \notin T
      BY <2>1 DEF Ordered
    <3>2. branches'[x].parent = branches[x].parent
          /\ branches[x].parent \in DOMAIN branches \cup {None}
      BY <3>1 DEF ParentsKept, ParentsKnown
    <3> QED
      BY <3>1, <3>2, <1>1
  <2>2. CASE T = {}
    <3>1. PICK x \in S : x \notin DOMAIN branches
      BY <1>3, <2>2
    <3>2. branches'[x].parent \in DOMAIN branches \cup {None}
      BY <3>1 DEF NewParents
    <3> QED
      BY <3>2, <2>2, <1>1
  <2> QED
    BY <2>1, <2>2
<1> QED
  BY <1>2, <1>3 DEF Ordered

LEMMA ParentsSame ==
  ASSUME DOMAIN branches' = DOMAIN branches,
         \A x \in DOMAIN branches :
           /\ branches'[x].parent = branches[x].parent /\ branches'[x].anchor = branches[x].anchor
           /\ branches'[x].reason = branches[x].reason /\ branches'[x].inherited = branches[x].inherited
  PROVE  ParentsKept /\ NewParents
BY DEF ParentsKept, NewParents

LEMMA ParentsStep ==
  ASSUME TypeOK, [Next]_vars
  PROVE  ParentsKept /\ NewParents
<1>0. \A x \in DOMAIN branches : branches[x] \in BranchRec
  BY DEF TypeOK, Table
<1>1. CASE branches' = branches
  BY <1>1, ParentsSame
<1>2. CASE BranchEvent
  <2>1. PICK b \in Branch :
          \/ \E status \in {"active", "paused"} :
               \/ RootBranchCreated(b, status)
               \/ \E p \in DOMAIN branches, anchor \in DOMAIN steps, mode \in {"after", "replace"},
                    reason \in ChildReasons, a \in DOMAIN actions \cup {None} :
                    ChildBranchCreated(b, p, anchor, mode, reason, a, status)
          \/ \E to \in Statuses, reason \in Moves, a \in DOMAIN actions \cup {None},
                k \in DOMAIN checks \cup {None}, c \in DOMAIN calls \cup {None} :
                BranchStatusChanged(b, to, reason, a, k, c)
    BY <1>2, Zenon DEF BranchEvent
  <2>2. ASSUME NEW status, RootBranchCreated(b, status) PROVE ParentsKept /\ NewParents
    BY <2>2 DEF RootBranchCreated, Put, ParentsKept, NewParents
  <2>3. ASSUME NEW p, NEW anchor, NEW mode, NEW reason, NEW a, NEW status,
               ChildBranchCreated(b, p, anchor, mode, reason, a, status)
        PROVE  ParentsKept /\ NewParents
    BY <2>3 DEF ChildBranchCreated, Put, ParentsKept, NewParents
  <2>4. ASSUME NEW to, NEW reason, NEW a, NEW k, NEW c, BranchStatusChanged(b, to, reason, a, k, c)
        PROVE  ParentsKept /\ NewParents
    BY <2>4, <1>0, ParentsSame DEF BranchStatusChanged, BranchRec
  <2> QED
    BY <2>1, <2>2, <2>3, <2>4, Zenon
<1>3. CASE StepEvent
  <2>1. PICK s \in Step, b \in Branch :
          \/ \E replaces \in DOMAIN steps \cup {None} :
               \/ \E c \in DOMAIN calls : ModelStepSealed(s, b, replaces, c)
               \/ \E a \in DOMAIN actions : HumanStepSealed(s, b, replaces, a)
          \/ \E p \in DOMAIN branches, old \in DOMAIN steps, c \in DOMAIN calls :
               ModelRevisionApplied(p, b, old, s, c)
    BY <1>3, Zenon DEF StepEvent
  <2>2. ASSUME NEW replaces, NEW content, NEW c, NEW a, Seal(s, b, replaces, content, c, a)
        PROVE  ParentsKept /\ NewParents
    BY <2>2, <1>0, ParentsSame DEF Seal, BranchRec
  <2>3. ASSUME NEW p, NEW old, NEW c, ModelRevisionApplied(p, b, old, s, c)
        PROVE  ParentsKept /\ NewParents
    <3> DEFINE parked == [branches EXCEPT ![p].status = "parked", ![p].moved = "model_superseded"]
               prefix == Prefix(branches[p].route, "replace", old)
               child == [parent |-> p, mode |-> "replace", anchor |-> old,
                         inherited |-> Len(prefix), route |-> Append(prefix, s), status |-> "active",
                         reason |-> "model_revision", moved |-> "model_revision"]
    <3>1. /\ p \in DOMAIN branches /\ b \notin DOMAIN branches
          /\ branches' = Put(parked, b, child) /\ child.parent = p
      BY <2>3 DEF ModelRevisionApplied, ActiveBranches
    <3>2. /\ DOMAIN parked = DOMAIN branches
          /\ \A x \in DOMAIN branches :
               /\ parked[x].parent = branches[x].parent /\ parked[x].anchor = branches[x].anchor
               /\ parked[x].reason = branches[x].reason /\ parked[x].inherited = branches[x].inherited
      BY <3>1, <1>0 DEF BranchRec
    <3> HIDE DEF parked, child
    <3> QED
      BY <3>1, <3>2 DEF Put, ParentsKept, NewParents
  <2> QED
    BY <2>1, <2>2, <2>3 DEF ModelStepSealed, HumanStepSealed
<1>4. CASE CallEvent
  <2>1. ASSUME NEW b, NEW c, WriterRouteCompletion(b, c) PROVE ParentsKept /\ NewParents
    BY <2>1, <1>0, ParentsSame DEF WriterRouteCompletion, BranchRec
  <2>2. branches' = branches \/ \E b \in DOMAIN branches : \E c \in Call : WriterRouteCompletion(b, c)
    BY <1>4 DEF CallEvent, ModelCallStarted, ModelCallChunk, ModelCallFinished,
       ModelCallFailed, ModelCallAborted, Terminate, WriterOutputNormalized, ModelRevisionDeferred
  <2> QED
    BY <1>1, <2>1, <2>2, Zenon
<1>5. CASE CheckEvent \/ CandidateEvent
  BY <1>1, <1>5, CheckEventFrame, CandidateEventFrame
<1>6. CASE RunCreated \/ (\E e \in Source : SourceEvidenceRegistered(e))
             \/ (\E a \in Action : HumanActionRecorded(a)) \/ UNCHANGED vars
  BY <1>1, <1>6 DEF RunCreated, SourceEvidenceRegistered, HumanActionRecorded, HumanAction, vars
<1> QED
  BY <1>2, <1>3, <1>4, <1>5, <1>6, Zenon DEF Next

(* The inductive invariant: besides the routes, every step of a route was  *)
(* sealed in a branch of the route's lineage, and a check quotes what was  *)
(* visible in the branch its step was sealed in.                           *)
StepHome ==
  \A b \in DOMAIN branches : \A i \in DOMAIN branches[b].route :
    steps[branches[b].route[i]].branch \in Lineage(b)
Quoted(k) ==
  LET s == checks[k].step
      h == steps[s].branch IN
  /\ checks[k].evidence \cap Step \subseteq {branches[h].route[i] : i \in 1..steps[s].slot}
  /\ checks[k].evidence \cap Branch \subseteq Lineage(h)
QuotesKept ==
  \A k \in DOMAIN checks :
    /\ checks[k].step \in DOMAIN steps
    /\ V11 \/ checks[k].verdict = "hard_defect" => Quoted(k)
HomeInv == RouteInv /\ SealedAt /\ Ordered /\ ParentsKnown /\ StepHome
LineageInv == HomeInv /\ QuotesKept

LEMMA StepHomeStep ==
  ASSUME HomeInv, TypeOK', ParentsKept, StepsKept,
         RoutesSame \/ \E b, p : \E n \in Nat : RouteMove(b, p, n)
  PROVE  StepHome'
<1>1. ASSUME NEW x \in DOMAIN branches, NEW i \in DOMAIN branches[x].route
      PROVE  steps'[branches[x].route[i]].branch \in Lineage(x)'
  <2>1. /\ branches[x].route[i] \in DOMAIN steps
        /\ steps[branches[x].route[i]].branch \in Lineage(x)
    BY DEF HomeInv, RouteInv, StepHome
  <2>2. Lineage(x)' = Lineage(x)
    BY LineageKept DEF HomeInv
  <2> QED
    BY <2>1, <2>2 DEF StepsKept
<1>2. CASE RoutesSame
  BY <1>1, <1>2 DEF RoutesSame, StepHome
<1>3. ASSUME NEW b, NEW p, NEW n \in Nat, RouteMove(b, p, n) PROVE StepHome'
  <2> DEFINE R == branches'[b].route
  <2>1. /\ \A x \in DOMAIN branches' :
             x # b => x \in DOMAIN branches /\ branches'[x].route = branches[x].route
        /\ b \in DOMAIN branches'
        /\ R \in Seq(Step) /\ Len(R) \in {n, n + 1}
    BY <1>3 DEF RouteMove
  <2>2. b \in Lineage(b)'
    BY <2>1, LineageNext
  <2>3. ASSUME NEW i \in DOMAIN R PROVE steps'[R[i]].branch \in Lineage(b)'
    <3>1. DOMAIN R = 1..Len(R)
      BY <2>1, LenProperties
    <3>2. CASE i = n + 1
      BY <1>3, <2>1, <2>2, <3>1, <3>2 DEF RouteMove
    <3>3. CASE i \in 1..n
      <4>1. n # 0 /\ p \in DOMAIN branches /\ n <= Len(branches[p].route)
            /\ R[i] = branches[p].route[i]
        BY <1>3, <3>3 DEF RouteMove
      <4>2. i \in DOMAIN branches[p].route
        <5>1. branches[p].route \in Seq(Step)
          BY <4>1 DEF HomeInv, RouteInv, TypeOK, Table, BranchRec
        <5>2. DOMAIN branches[p].route = 1..Len(branches[p].route)
              /\ Len(branches[p].route) \in Nat
          BY <5>1, LenProperties
        <5> QED
          BY <3>3, <4>1, <5>2
      <4>3. steps'[R[i]].branch \in Lineage(p)'
        BY <4>1, <4>2, <1>1
      <4>4. CASE b \in DOMAIN branches
        <5>1. p = b
          BY <1>3, <4>4 DEF RouteMove
        <5> QED
          BY <4>3, <5>1
      <4>5. CASE b \notin DOMAIN branches
        <5>1. branches'[b].parent = p /\ p \in DOMAIN branches'
          BY <1>3, <4>1, <4>5 DEF RouteMove, ParentsKept
        <5>2. Lineage(b)' = {b} \cup Lineage(p)'
          BY <2>1, <5>1, LineageNext
        <5> QED
          BY <4>3, <5>2
      <4> QED
        BY <4>4, <4>5
    <3> QED
      BY <2>1, <3>1, <3>2, <3>3
  <2> HIDE DEF R
  <2>4. ASSUME NEW x \in DOMAIN branches', NEW i \in DOMAIN branches'[x].route
        PROVE  steps'[branches'[x].route[i]].branch \in Lineage(x)'
    <3>1. CASE x = b
      BY <2>3, <3>1 DEF R
    <3>2. CASE x # b
      BY <1>1, <2>1, <3>2
    <3> QED
      BY <3>1, <3>2
  <2> QED
    BY <2>4 DEF StepHome
<1> QED
  BY <1>2, <1>3

LEMMA HomeInvStep == HomeInv /\ [Next]_vars => HomeInv'
<1> SUFFICES ASSUME HomeInv, [Next]_vars PROVE HomeInv'
  OBVIOUS
<1>1. TypeOK /\ RouteInv /\ SealedAt /\ Ordered /\ ParentsKnown
  BY DEF HomeInv, RouteInv
<1>2. TypeOK' /\ RouteInv' /\ SealedAt' /\ ParentsKept /\ NewParents /\ StepsKept
  BY <1>1, TypeStep, RouteInvStep, SealedAtStep, ParentsStep, SettledStep DEF Settled
<1>3. Ordered' /\ ParentsKnown'
  BY <1>1, <1>2, OrderedStep
<1>4. StepHome'
  BY <1>1, <1>2, RouteChange, StepHomeStep
<1> QED
  BY <1>2, <1>3, <1>4 DEF HomeInv

(* What an event may do to a check: declare it on a sealed step, with      *)
(* nothing quoted, complete it with what may be quoted, or leave its step, *)
(* verdict and evidence alone.                                             *)
CheckSame(k) ==
  /\ k \in DOMAIN checks /\ checks'[k].step = checks[k].step
  /\ checks'[k].verdict = checks[k].verdict /\ checks'[k].evidence = checks[k].evidence
CheckNew(k) == checks'[k].step \in DOMAIN steps /\ checks'[k].evidence = {}
CheckJudged(k) ==
  /\ UNCHANGED <<branches, steps>>
  /\ k \in DOMAIN checks /\ checks'[k].step = checks[k].step
  /\ V11 \/ checks'[k].verdict = "hard_defect" =>
       checks'[k].evidence \subseteq Quotable(checks[k].step)
ChecksMove == \A k \in DOMAIN checks' : CheckSame(k) \/ CheckNew(k) \/ CheckJudged(k)

LEMMA ChecksMoveStep ==
  ASSUME TypeOK, [Next]_vars
  PROVE  ChecksMove
<1>0. \A x \in DOMAIN checks : checks[x] \in CheckRec
  BY DEF TypeOK, Table
<1>1. CASE checks' = checks
  BY <1>1 DEF ChecksMove, CheckSame
<1>2. CASE CheckEvent
  <2>1. PICK k \in Check :
          \/ \E s \in DOMAIN steps, required \in BOOLEAN : CheckRequested(k, s, required)
          \/ \E c \in DOMAIN calls, verdict \in CheckVerdicts,
                evidence \in SUBSET (DOMAIN steps \cup DOMAIN branches \cup sources \cup {Task}) :
                CheckCompleted(k, c, verdict, evidence)
          \/ \E a \in DOMAIN actions : CheckRetryAuthorized(k, a)
    BY <1>2, Zenon DEF CheckEvent
  <2>2. ASSUME NEW s \in DOMAIN steps, NEW required, CheckRequested(k, s, required) PROVE ChecksMove
    <3>1. /\ DOMAIN checks' = DOMAIN checks \cup {k} /\ CheckNew(k)
          /\ \A x \in DOMAIN checks : x # k => checks'[x] = checks[x]
      BY <2>2 DEF CheckRequested, Put, CheckNew
    <3> QED
      BY <3>1 DEF ChecksMove, CheckSame
  <2>3. ASSUME NEW c, NEW verdict \in CheckVerdicts, NEW evidence,
               CheckCompleted(k, c, verdict, evidence)
        PROVE  ChecksMove
    <3>1. /\ DOMAIN checks' = DOMAIN checks /\ k \in DOMAIN checks
          /\ \A x \in DOMAIN checks : x # k => checks'[x] = checks[x]
          /\ checks'[k].step = checks[k].step /\ checks'[k].verdict = verdict
          /\ checks'[k].evidence = evidence
          /\ UNCHANGED <<branches, steps>>
      BY <2>3, <1>0 DEF CheckCompleted, OpenCheck, CheckRec
    <3>2. V11 \/ verdict = "hard_defect" => evidence \subseteq Quotable(checks[k].step)
      BY <2>3 DEF CheckCompleted, EvidenceOk
    <3>3. CheckJudged(k)
      BY <3>1, <3>2, Zenon DEF CheckJudged
    <3> QED
      BY <3>1, <3>3 DEF ChecksMove, CheckSame
  <2>4. ASSUME NEW a, CheckRetryAuthorized(k, a) PROVE ChecksMove
    BY <2>4, <1>0 DEF CheckRetryAuthorized, CheckRec, ChecksMove, CheckSame
  <2> QED
    BY <2>1, <2>2, <2>3, <2>4
<1>3. CASE BranchEvent \/ StepEvent
  BY <1>1, <1>3, BranchEventFrame, StepEventFrame DEF BranchFrame
<1>4. CASE CallEvent
  BY <1>1, <1>4 DEF CallEvent, ModelCallStarted, ModelCallChunk, ModelCallFinished,
     ModelCallFailed, ModelCallAborted, Terminate, WriterOutputNormalized,
     ModelRevisionDeferred, WriterRouteCompletion
<1>5. CASE CandidateEvent
  BY <1>1, <1>5, CandidateEventFrame
<1>6. CASE RunCreated \/ (\E e \in Source : SourceEvidenceRegistered(e))
             \/ (\E a \in Action : HumanActionRecorded(a)) \/ UNCHANGED vars
  BY <1>1, <1>6 DEF RunCreated, SourceEvidenceRegistered, HumanActionRecorded, HumanAction, vars
<1> QED
  BY <1>2, <1>3, <1>4, <1>5, <1>6, Zenon DEF Next

(* The transcript a checker is given ends at the checked step's slot.      *)
LEMMA TranscriptUpTo ==
  ASSUME RouteInv, NEW b \in DOMAIN branches, NEW s \in Elems(branches[b].route)
  PROVE  Elems(Prefix(branches[b].route, "after", s))
           = {branches[b].route[i] : i \in 1..steps[s].slot}
<1>1. PICK mode : mode = "after"
  OBVIOUS
<1> DEFINE pre == Prefix(branches[b].route, mode, s)
           n == steps[s].slot
<1>2. pre \in Seq(Step) /\ Len(pre) = n /\ n \in Nat
      /\ \A i \in 1..n : pre[i] = branches[b].route[i]
  BY <1>1, ForkPoint
<1> HIDE DEF pre, n
<1>3. DOMAIN pre = 1..n
  BY <1>2, LenProperties
<1>4. Elems(pre) = {branches[b].route[i] : i \in 1..n}
  BY <1>2, <1>3 DEF Elems
<1> QED
  BY <1>1, <1>4 DEF pre, n

LEMMA HomeRoute ==
  ASSUME HomeInv, NEW s \in DOMAIN steps
  PROVE  LET h == steps[s].branch IN
         /\ h \in DOMAIN branches /\ s \in Elems(branches[h].route)
         /\ branches[h].route \in Seq(Step) /\ steps[s].slot \in 1..Len(branches[h].route)
         /\ Len(branches[h].route) \in Nat
<1> DEFINE h == steps[s].branch
<1>1. h \in DOMAIN branches /\ steps[s].slot \in DOMAIN branches[h].route
      /\ branches[h].route[steps[s].slot] = s
  BY DEF HomeInv, SealedAt
<1>2. branches[h].route \in Seq(Step)
  BY <1>1 DEF HomeInv, RouteInv, TypeOK, Table, BranchRec
<1> QED
  BY <1>1, <1>2, LenProperties DEF Elems

LEMMA QuotableSplit ==
  ASSUME HomeInv, NEW s \in DOMAIN steps, NEW e, e \in Quotable(s)
  PROVE  LET h == steps[s].branch IN
         /\ e \in Step => e \in {branches[h].route[i] : i \in 1..steps[s].slot}
         /\ e \in Branch => e \in Lineage(h)
<1> DEFINE h == steps[s].branch
           T == {branches[h].route[i] : i \in 1..steps[s].slot}
<1>1. h \in DOMAIN branches /\ s \in Elems(branches[h].route)
      /\ branches[h].route \in Seq(Step) /\ steps[s].slot \in 1..Len(branches[h].route)
      /\ Len(branches[h].route) \in Nat
  BY HomeRoute
<1>2. CheckedTranscript(s) = T
  <2>1. CheckedTranscript(s) = Elems(Prefix(branches[h].route, "after", s))
    BY DEF CheckedTranscript, Prefix
  <2>2. RouteInv
    BY DEF HomeInv
  <2>3. Elems(Prefix(branches[h].route, "after", s)) = T
    BY <1>1, <2>2, TranscriptUpTo
  <2> QED
    BY <2>1, <2>3, Zenon
<1>3. T \subseteq Step
  BY <1>1, ElementOfSeq
<1>4. Lineage(h) \subseteq Branch
  <2>1. DOMAIN branches \subseteq Branch /\ Ordered
    BY DEF HomeInv, RouteInv, TypeOK, Table
  <2> QED
    BY <1>1, <2>1, LineageNested
<1>5. sources \subseteq Source
  BY DEF HomeInv, RouteInv, TypeOK
<1> HIDE DEF T, h
<1>6. e \in T \/ e \in Lineage(h) \/ e \in Source \/ e = Task
  BY <1>2, <1>5 DEF Quotable, h
<1>7. (e \in Step => e \in T) /\ (e \in Branch => e \in Lineage(h))
  BY <1>3, <1>4, <1>6, KindAssumption
<1> QED
  BY <1>7 DEF T, h

LEMMA QuotedKept ==
  ASSUME HomeInv, TypeOK', RoutesKept, ParentsKept, StepsKept,
         NEW k \in DOMAIN checks, checks[k].step \in DOMAIN steps, Quoted(k), CheckSame(k)
  PROVE  Quoted(k)'
<1>1. PICK s \in DOMAIN steps : s = checks[k].step /\ s = checks'[k].step
  BY DEF CheckSame
<1>2. PICK h : h = steps[s].branch /\ h = steps'[s].branch
  BY DEF StepsKept
<1>3. h \in DOMAIN branches /\ steps[s].slot \in 1..Len(branches[h].route)
      /\ Len(branches[h].route) \in Nat /\ steps'[s].slot = steps[s].slot
  BY <1>2, HomeRoute DEF StepsKept
<1>4. \A i \in 1..steps[s].slot : branches'[h].route[i] = branches[h].route[i]
  BY <1>3 DEF RoutesKept
<1>5. {branches'[h].route[i] : i \in 1..steps[s].slot}
        = {branches[h].route[i] : i \in 1..steps[s].slot}
  BY <1>4
<1>6. Lineage(h)' = Lineage(h)
  BY <1>3, LineageKept DEF HomeInv
<1>7. /\ checks[k].evidence \cap Step \subseteq {branches[h].route[i] : i \in 1..steps[s].slot}
      /\ checks[k].evidence \cap Branch \subseteq Lineage(h)
  BY <1>1, <1>2 DEF Quoted
<1>8. /\ checks'[k].evidence \cap Step \subseteq {branches'[h].route[i] : i \in 1..steps'[s].slot}
      /\ checks'[k].evidence \cap Branch \subseteq Lineage(h)'
  BY <1>3, <1>5, <1>6, <1>7, Zenon DEF CheckSame
<1> QED
  BY <1>1, <1>2, <1>8 DEF Quoted

LEMMA QuotesKeptStep ==
  ASSUME LineageInv, TypeOK', HomeInv', ChecksMove, RoutesKept, ParentsKept, StepsKept
  PROVE  QuotesKept'
<1> SUFFICES ASSUME NEW k \in DOMAIN checks'
             PROVE  /\ checks'[k].step \in DOMAIN steps'
                    /\ V11 \/ checks'[k].verdict = "hard_defect" => Quoted(k)'
  BY DEF QuotesKept
<1>1. HomeInv /\ QuotesKept
  BY DEF LineageInv
<1>2. CASE CheckSame(k)
  <2>1. k \in DOMAIN checks /\ checks[k].step \in DOMAIN steps
        /\ (V11 \/ checks'[k].verdict = "hard_defect" => Quoted(k))
    BY <1>1, <1>2 DEF CheckSame, QuotesKept
  <2>2. checks'[k].step \in DOMAIN steps'
    BY <1>2, <2>1 DEF CheckSame, StepsKept
  <2> QED
    BY <1>1, <1>2, <2>1, <2>2, QuotedKept
<1>3. CASE CheckNew(k)
  BY <1>3 DEF CheckNew, Quoted, StepsKept
<1>4. CASE CheckJudged(k)
  <2>1. PICK s \in DOMAIN steps : s = checks[k].step /\ s = checks'[k].step
    BY <1>1, <1>4 DEF CheckJudged, QuotesKept
  <2>2. s \in DOMAIN steps'
    BY <1>4 DEF CheckJudged
  <2>3. ASSUME V11 \/ checks'[k].verdict = "hard_defect" PROVE Quoted(k)'
    <3>1. \A e \in checks'[k].evidence : e \in Quotable(s)
      BY <1>4, <2>1, <2>3 DEF CheckJudged
    <3>2. PICK h : h = steps[s].branch
      OBVIOUS
    <3>3. /\ checks'[k].evidence \cap Step \subseteq {branches[h].route[i] : i \in 1..steps[s].slot}
          /\ checks'[k].evidence \cap Branch \subseteq Lineage(h)
      BY <1>1, <3>1, <3>2, QuotableSplit
    <3>4. branches' = branches /\ steps' = steps
      BY <1>4 DEF CheckJudged
    <3>5. Lineage(h)' = Lineage(h)
      BY <3>4, LineageHere, LineageThere
    <3> QED
      BY <2>1, <3>2, <3>3, <3>4, <3>5 DEF Quoted
  <2> QED
    BY <2>1, <2>2, <2>3
<1> QED
  BY <1>2, <1>3, <1>4 DEF ChecksMove

LEMMA LineageInvStep == LineageInv /\ [Next]_vars => LineageInv'
<1> SUFFICES ASSUME LineageInv, [Next]_vars PROVE LineageInv'
  OBVIOUS
<1>1. TypeOK /\ RouteInv /\ HomeInv
  BY DEF LineageInv, HomeInv, RouteInv
<1>2. TypeOK' /\ HomeInv' /\ ChecksMove /\ RoutesKept /\ ParentsKept /\ StepsKept
  BY <1>1, TypeStep, HomeInvStep, ChecksMoveStep, RoutesKeptStep, ParentsStep, SettledStep DEF Settled
<1> QED
  BY <1>2, QuotesKeptStep DEF LineageInv

LEMMA LineageInvInit == Init => LineageInv
<1> SUFFICES ASSUME Init PROVE LineageInv
  OBVIOUS
<1>1. DOMAIN branches = {} /\ DOMAIN steps = {} /\ DOMAIN checks = {}
  BY EmptyTable DEF Init
<1> QED
  BY <1>1, RouteInvInit
     DEF LineageInv, HomeInv, SealedAt, Ordered, ParentsKnown, StepHome, QuotesKept

(* Every step of a route was written in a branch of the route's lineage,   *)
(* whose own lineage is part of it.                                        *)
LEMMA HomeLineage ==
  ASSUME HomeInv, NEW b \in DOMAIN branches, NEW s \in Elems(branches[b].route)
  PROVE  s \in DOMAIN steps /\ Lineage(steps[s].branch) \subseteq Lineage(b)
<1>1. PICK i \in DOMAIN branches[b].route : s = branches[b].route[i]
  BY DEF Elems
<1>2. s \in DOMAIN steps /\ steps[s].branch \in Lineage(b)
  BY <1>1 DEF HomeInv, RouteInv, StepHome
<1> QED
  BY <1>2, LineageNested DEF HomeInv

LEMMA LineageInvImplies == LineageInv => InheritanceSound
<1> SUFFICES ASSUME LineageInv PROVE InheritanceSound
  OBVIOUS
<1>0. HomeInv /\ QuotesKept /\ RouteInv
  BY DEF LineageInv, HomeInv
<1>1. ASSUME NEW k \in DOMAIN checks, NEW b \in DOMAIN branches,
             V11 \/ checks[k].verdict = "hard_defect",
             checks[k].step \in Elems(branches[b].route)
      PROVE  /\ checks[k].evidence \cap Step
                   \subseteq Elems(Prefix(branches[b].route, "after", checks[k].step))
             /\ checks[k].evidence \cap Branch \subseteq Lineage(b)
  <2>1. PICK s \in DOMAIN steps : s = checks[k].step
    BY <1>0 DEF QuotesKept
  <2>2. PICK h : h = steps[s].branch
    OBVIOUS
  <2>3. /\ checks[k].evidence \cap Step \subseteq {branches[h].route[i] : i \in 1..steps[s].slot}
        /\ checks[k].evidence \cap Branch \subseteq Lineage(h)
    BY <1>0, <1>1, <2>1, <2>2 DEF QuotesKept, Quoted
  <2>4. Lineage(h) \subseteq Lineage(b)
    BY <1>0, <1>1, <2>1, <2>2, HomeLineage
  <2>5. Elems(Prefix(branches[b].route, "after", s))
          = {branches[b].route[i] : i \in 1..steps[s].slot}
    BY <1>0, <1>1, <2>1, TranscriptUpTo
  <2>6. \A i \in 1..steps[s].slot : branches[h].route[i] = branches[b].route[i]
    <3>1. h \in DOMAIN branches /\ steps[s].slot \in DOMAIN branches[h].route
          /\ branches[h].route[steps[s].slot] = s
      BY <1>0, <2>1, <2>2 DEF HomeInv, SealedAt
    <3>2. PICK i \in DOMAIN branches[b].route : s = branches[b].route[i]
      BY <1>1, <2>1 DEF Elems
    <3>3. i = steps[s].slot
      BY <1>0, <3>2 DEF RouteInv
    <3> QED
      BY <1>0, <1>1, <3>1, <3>2, <3>3 DEF RouteInv
  <2>7. {branches[h].route[i] : i \in 1..steps[s].slot}
          = {branches[b].route[i] : i \in 1..steps[s].slot}
    BY <2>6
  <2>8. checks[k].evidence \cap Step \subseteq Elems(Prefix(branches[b].route, "after", s))
    BY <2>3, <2>5, <2>7, Zenon
  <2> QED
    BY <2>1, <2>3, <2>4, <2>8
<1>2. ASSUME NEW b \in DOMAIN branches, ContentClass(b) = "model_only",
             NEW s \in Elems(branches[b].route)
      PROVE  /\ steps[s].action = None
             /\ \A x \in Lineage(steps[s].branch) : branches[x].reason \notin HumanReasons
  <2>1. ~Edited(b) /\ ~Steered(b)
    BY <1>2 DEF ContentClass
  <2>2. \A x \in Lineage(b) : branches[x].reason \notin HumanReasons
    BY <2>1 DEF Edited, Steered, HumanReasons
  <2>3. Lineage(steps[s].branch) \subseteq Lineage(b)
    BY <1>0, <1>2, HomeLineage
  <2> QED
    BY <1>2, <2>1, <2>2, <2>3 DEF Edited
<1> QED
  BY <1>1, <1>2 DEF InheritanceSound, EvidenceVisible, ProvenanceSound

(* What a check quoted is visible on every route that inherits its step,   *)
(* and a route reported model_only holds nothing a human wrote or steered. *)
THEOREM InheritanceStaysSound == Spec => []InheritanceSound
BY LineageInvInit, LineageInvStep, LineageInvImplies, PTL DEF Spec
=============================================================================
