--------------------------- MODULE ProviderProofs ---------------------------
(***************************************************************************)
(* What holds of the provider's side of a run for any budgets and any      *)
(* number of calls, crashes and restarts.                                  *)
(***************************************************************************)
EXTENDS FormulaGate, WriterSessions, Reviews, FiniteSetTheorems, SequenceTheorems, WellFoundedInduction, TLAPS

-----------------------------------------------------------------------------
(* The formula gate.  Before a slot is written again every finished output *)
(* of it has been judged and rejected, and the last of them did not use up *)
(* the budget; so what is superseded was rejected, for good.               *)

Finished(s) == {c \in OnSlot(s) : writer[c].state = "finished"}
Budget == IF policy = "v2" THEN MaxRewrites ELSE FormatRetries
Verdict == {"accepted", "accepted_with_format_issues", "rejected", "infrastructure_failure"}
WriterCall == [slot : 1..MaxSlot, state : {"started", "finished", "failed"}, output : Output, feedback : 0..MaxOutputs]

AuditsKept ==
    \A c \in DOMAIN audits :
       /\ c \in DOMAIN writer /\ writer[c].state = "finished"
       /\ Disposition(c) \in Verdict \ (IF policy = "v2" THEN {"infrastructure_failure"} ELSE {})
       /\ audits[c].form \in IF policy = "v2" /\ writer[c].output.edited THEN 1..normalizer ELSE {0}
       /\ c \in DOMAIN normalized => normalized[c] = audits[c].form

SealedInOrder ==
    \A i \in DOMAIN stepForms : stepForms[i].call \in DOMAIN writer /\ writer[stepForms[i].call].slot = i

CallUnderWay ==
    /\ gateAt = "calling" => writer # <<>> /\ writer[Len(writer)].state = "started"
    /\ \A c \in DOMAIN writer :
          writer[c].state = "started" =>
             c = Len(writer) /\ gateAt \in {"calling", "down"} /\ ~unready /\ ~formatStop /\ Slot <= MaxSlot

BudgetLeft ==
    /\ \A c \in DOMAIN writer : Cardinality({d \in Finished(writer[c].slot) : d < c}) <= Budget
    /\ policy = "v2" => \A s \in 1..MaxSlot : Cardinality(Rejections(s)) <= MaxRewrites

GateShape ==
    /\ GateTypeOK
    /\ stepForms \in Seq([call : Nat, form : Nat])
    /\ Len(writer) <= MaxOutputs
    /\ policy = "v2" => ~formatStop

GateInv ==
    /\ GateShape /\ AuditsKept /\ SealedInOrder /\ CallUnderWay /\ BudgetLeft
    /\ SealedAsAudited /\ GoodOutputKept /\ ToldOfRejection /\ FailsOnlyAfterUpgrade

(* A nonempty set of positions has a last one.                             *)
LEMMA LastCall ==
  ASSUME NEW n \in Nat, NEW T \in SUBSET (1..n), T # {}
  PROVE  LastOf(T) \in T /\ \A y \in T : y <= LastOf(T)
<1> DEFINE LT == {ss \in Nat \X Nat : ss[1] < ss[2]}
           Rest == {n - x : x \in T}
<1>1. IsWellFoundedOn(LT, Nat)
  BY NatLessThanWellFounded, Zenon DEF OpToRel
<1>2. Rest \subseteq Nat /\ Rest # {}
  <2>1. \A x \in T : n - x \in Nat
    OBVIOUS
  <2>2. PICK x \in T : TRUE
    OBVIOUS
  <2>3. n - x \in Rest
    OBVIOUS
  <2> QED
    BY <2>1, <2>3
<1>3. PICK m \in Rest : \A r \in Rest : ~(<<r, m>> \in LT)
  <2> HIDE DEF LT, Rest
  <2> QED
    BY <1>1, <1>2, WFMin
<1>4. PICK x \in T : m = n - x
  BY <1>3
<1>5. ASSUME NEW y \in T PROVE y <= x
  <2>1. n - y \in Rest /\ ~(<<n - y, m>> \in LT)
    BY <1>3
  <2>2. <<n - y, m>> \in Nat \X Nat /\ <<n - y, m>>[1] = n - y /\ <<n - y, m>>[2] = m
    BY <1>2, <1>3, <2>1
  <2>3. ~(n - y < m)
    BY <2>1, <2>2 DEF LT
  <2> QED
    BY <1>4, <2>3
<1>6. PICK z \in T : \A y \in T : y <= z
  BY <1>4, <1>5
<1>7. LastOf(T) = CHOOSE c \in T : \A d \in T : d <= c
  BY DEF LastOf
<1> QED
  BY <1>6, <1>7, Zenon

(* The calls of a slot are finitely many positions.                        *)
LEMMA SlotFinite ==
  ASSUME GateShape, NEW s
  PROVE  /\ DOMAIN writer = 1..Len(writer) /\ Len(writer) \in Nat /\ writer \in Seq(WriterCall)
         /\ \A T : T \subseteq OnSlot(s) => T \subseteq 1..Len(writer) /\ IsFiniteSet(T) /\ Cardinality(T) \in Nat
         /\ Finished(s) \subseteq OnSlot(s) /\ Rejections(s) \subseteq OnSlot(s)
<1>1. DOMAIN writer = 1..Len(writer) /\ Len(writer) \in Nat /\ writer \in Seq(WriterCall)
  BY DEF GateShape, GateTypeOK, WriterCall
<1>2. IsFiniteSet(1..Len(writer))
  BY <1>1, FS_Interval
<1>3. OnSlot(s) \subseteq 1..Len(writer)
  BY <1>1 DEF OnSlot
<1> QED
  BY <1>1, <1>2, <1>3, FS_Subset, FS_CardinalityType DEF Finished, Rejections

LEMMA GateInvInit == GateInit => GateInv
<1> SUFFICES ASSUME GateInit PROVE GateInv OBVIOUS
<1> USE GateAssumption DEF GateInit
<1>1. DOMAIN writer = {} /\ DOMAIN audits = {} /\ DOMAIN rechecks = {} /\ DOMAIN normalized = {} /\ DOMAIN stepForms = {}
  OBVIOUS
<1>2. GateShape
  <2>1. normalizer \in 1..MaxNormalizer /\ Len(writer) = 0
    OBVIOUS
  <2>2. writer \in Seq(WriterCall) /\ stepForms \in Seq([call : Nat, form : Nat])
    BY EmptySeq
  <2>3. GateTypeOK
    BY <1>1, <2>1, <2>2 DEF GateTypeOK, WriterCall
  <2> QED
    BY <2>1, <2>2, <2>3 DEF GateShape
<1>3. \A s : Rejections(s) = {}
  BY <1>1 DEF Rejections, OnSlot
<1>4. BudgetLeft
  BY <1>1, <1>3, FS_EmptySet DEF BudgetLeft
<1>5. CallUnderWay /\ AuditsKept /\ SealedInOrder
  BY <1>1 DEF CallUnderWay, AuditsKept, SealedInOrder
<1>6. SealedAsAudited /\ GoodOutputKept /\ ToldOfRejection /\ FailsOnlyAfterUpgrade
  BY <1>1 DEF SealedAsAudited, GoodOutputKept, ToldOfRejection, FailsOnlyAfterUpgrade
<1> QED
  BY <1>2, <1>4, <1>5, <1>6 DEF GateInv

(* Steps that only move the driver, or bring a newer normalizer.           *)
LEMMA ControlOnly ==
  ASSUME GateInv, UNCHANGED <<policy, writer, audits, rechecks, normalized, stepForms>>,
         normalizer' \in 1..MaxNormalizer, normalizer <= normalizer',
         formatStop' \in BOOLEAN, unready' \in BOOLEAN, policy = "v2" => ~formatStop',
         gateAt' \in {"loop", "calling", "recheck", "resume", "idle", "down", "error"},
         CallUnderWay', FailsOnlyAfterUpgrade'
  PROVE  GateInv'
<1>1. GateShape'
  BY DEF GateInv, GateShape, GateTypeOK
<1>2. \A c \in DOMAIN audits : Disposition(c)' = Disposition(c)
  BY DEF Disposition
<1>3. \A c, d : Judged(c, d)' = Judged(c, d)
  BY DEF Disposition, Judged
<1>4. \A s : OnSlot(s)' = OnSlot(s) /\ Finished(s)' = Finished(s)
  BY DEF OnSlot, Finished
<1>5. \A s : Rejections(s)' = Rejections(s)
  BY <1>3, <1>4 DEF Rejections
<1>6. AuditsKept'
  BY <1>2 DEF GateInv, GateShape, GateTypeOK, AuditsKept
<1>7. BudgetLeft'
  BY <1>4, <1>5 DEF GateInv, BudgetLeft, Budget
<1>8. SealedInOrder' /\ SealedAsAudited'
  BY <1>3 DEF GateInv, SealedInOrder, SealedAsAudited
<1>9. GoodOutputKept'
  BY <1>3, <1>4 DEF GateInv, GoodOutputKept, Superseded
<1>10. ToldOfRejection'
  BY <1>5 DEF GateInv, ToldOfRejection
<1> QED
  BY <1>1, <1>6, <1>7, <1>8, <1>9, <1>10 DEF GateInv

(* One more element of a set that is still too small.                      *)
LEMMA OneMore ==
  ASSUME NEW S, NEW x, IsFiniteSet(S), NEW k \in Nat, Cardinality(S) < k
  PROVE  Cardinality(S \cup {x}) <= k
<1>1. Cardinality(S) \in Nat
  BY FS_CardinalityType
<1>2. Cardinality(S \cup {x}) = IF x \in S THEN Cardinality(S) ELSE Cardinality(S) + 1
  BY FS_AddElement
<1> QED
  BY <1>1, <1>2

(* A verdict on the last call of a slot, where none had accepted or        *)
(* rejected it, changes nothing that was said of another call.             *)
LEMMA NewVerdict ==
  ASSUME GateInv, NEW c \in DOMAIN writer, writer[c].state = "finished", ~Superseded(c),
         \A d \in Verdict \ {"infrastructure_failure"} : ~Judged(c, d),
         UNCHANGED <<policy, normalizer, writer, normalized, formatStop, stepForms, unready>>,
         gateAt \in {"loop", "recheck"}, gateAt' \in {"loop", "resume"},
         DOMAIN audits' = DOMAIN audits \cup {c}, DOMAIN rechecks' \subseteq DOMAIN audits',
         \A e \in DOMAIN audits : audits'[e] = audits[e],
         \A e \in DOMAIN audits \ {c} : Disposition(e)' = Disposition(e),
         AuditsKept',
         policy = "v2" /\ Judged(c, "rejected")' => Cardinality(Rejections(writer[c].slot)) < MaxRewrites
  PROVE  GateInv'
<1> USE GateAssumption DEF GateInv
<1>1. GateShape'
  BY DEF GateShape, GateTypeOK
<1>2. \A e, d : e # c => Judged(e, d)' = Judged(e, d)
  BY DEF Judged
<1>3. \A s : OnSlot(s)' = OnSlot(s) /\ Finished(s)' = Finished(s)
  BY DEF OnSlot, Finished
<1>4. \A e \in DOMAIN writer : Superseded(e)' = Superseded(e)
  BY <1>3 DEF Superseded
<1>5. \A s : Rejections(s) \subseteq Rejections(s)' /\ Rejections(s)' \subseteq Rejections(s) \cup {c}
  <2>1. ~Judged(c, "rejected")
    BY DEF Verdict
  <2> QED
    BY <1>2, <1>3, <2>1 DEF Rejections
<1>6. SealedInOrder' /\ SealedAsAudited'
  <2>1. SealedInOrder'
    BY DEF SealedInOrder
  <2>2. \A j \in DOMAIN stepForms : stepForms[j].call \in DOMAIN audits /\ stepForms[j].call # c
    BY DEF SealedAsAudited, Verdict, Judged
  <2>3. SealedAsAudited'
    BY <1>2, <2>2 DEF SealedAsAudited
  <2> QED
    BY <2>1, <2>3
<1>7. GoodOutputKept'
  BY <1>2, <1>4 DEF GoodOutputKept
<1>8. ToldOfRejection'
  <2>1. ASSUME NEW k \in DOMAIN writer
        PROVE  {d \in Rejections(writer[k].slot) : d < k}' = {d \in Rejections(writer[k].slot) : d < k}
    <3>1. c \notin {d \in Rejections(writer[k].slot) : d < k}'
      <4>1. ASSUME c \in Rejections(writer[k].slot)', c < k PROVE FALSE
        <5>1. writer[c].slot = writer[k].slot
          BY <4>1 DEF Rejections, OnSlot
        <5> QED
          BY <4>1, <5>1, <2>1 DEF Superseded, OnSlot
      <4> QED
        BY <4>1
    <3> QED
      BY <1>5, <3>1
  <2> QED
    BY <2>1 DEF ToldOfRejection
<1>9. BudgetLeft'
  <2>1. ASSUME NEW s \in 1..MaxSlot, policy = "v2" PROVE Cardinality(Rejections(s)') <= MaxRewrites
    <3>1. CASE c \in Rejections(s)'
      <4>1. Judged(c, "rejected")' /\ s = writer[c].slot
        BY <3>1 DEF Rejections, OnSlot
      <4>2. Cardinality(Rejections(s)) < MaxRewrites /\ IsFiniteSet(Rejections(s)) /\ Cardinality(Rejections(s)) \in Nat
        BY <2>1, <4>1, SlotFinite
      <4>3. Rejections(s)' = Rejections(s) \cup {c}
        BY <1>5, <3>1
      <4>4. Cardinality(Rejections(s) \cup {c}) <= MaxRewrites
        BY <4>2, OneMore
      <4> QED
        BY <4>3, <4>4
    <3>2. CASE c \notin Rejections(s)'
      <4>1. Rejections(s)' = Rejections(s)
        BY <1>5, <3>2
      <4> QED
        BY <2>1, <4>1 DEF BudgetLeft
    <3> QED
      BY <3>1, <3>2
  <2> QED
    BY <1>3, <2>1 DEF BudgetLeft, Budget
<1>10. CallUnderWay' /\ FailsOnlyAfterUpgrade'
  BY DEF CallUnderWay, FailsOnlyAfterUpgrade
<1> QED
  BY <1>1, <1>6, <1>7, <1>8, <1>9, <1>10

(* A finished call that was not judged is the last of its slot.            *)
LEMMA UnjudgedIsLast ==
  ASSUME GateInv, NEW c \in DOMAIN writer, writer[c].state = "finished", ~Judged(c, "rejected")
  PROVE  ~Superseded(c)
BY DEF GateInv, GoodOutputKept

LEMMA AuditKeeps == GateInv /\ AuditOutput => GateInv'
<1> SUFFICES ASSUME GateInv, AuditOutput PROVE GateInv' OBVIOUS
<1> USE GateAssumption DEF GateInv
<1>0. PICK c \in Unsettled \ DOMAIN audits :
         \E d \in IF policy = "v2" THEN {StaticVerdict(c)} ELSE Verdicts(c) :
            audits' = With(audits, c, [disposition |-> d, form |-> Form(c)])
  BY DEF AuditOutput
<1>1. PICK d \in IF policy = "v2" THEN {StaticVerdict(c)} ELSE Verdicts(c) :
         audits' = With(audits, c, [disposition |-> d, form |-> Form(c)])
  BY <1>0
<1>2. UNCHANGED <<policy, normalizer, writer, rechecks, normalized, formatStop, stepForms, unready, gateAt>> /\ gateAt = "loop"
  BY DEF AuditOutput
<1>3. c \in DOMAIN writer /\ writer[c].state = "finished" /\ c \notin DOMAIN audits
  BY <1>1 DEF Unsettled
<1>4. c \notin DOMAIN rechecks /\ c \notin DOMAIN normalized
  BY <1>3 DEF GateShape, GateTypeOK
<1>5. /\ DOMAIN audits' = DOMAIN audits \cup {c}
      /\ audits'[c] = [disposition |-> d, form |-> Form(c)]
      /\ \A e \in DOMAIN audits : audits'[e] = audits[e]
  BY <1>1, <1>3 DEF With
<1>6. Disposition(c)' = d
  BY <1>2, <1>4, <1>5 DEF Disposition
<1>7. \A e \in DOMAIN audits : Disposition(e)' = Disposition(e)
  BY <1>2, <1>5 DEF Disposition
<1>8. d \in Verdict \ (IF policy = "v2" THEN {"infrastructure_failure"} ELSE {})
  BY <1>1 DEF StaticVerdict, Verdicts, Verdict
<1>9. audits'[c].form \in IF policy = "v2" /\ writer[c].output.edited THEN 1..normalizer ELSE {0}
  BY <1>5 DEF Form, GateShape, GateTypeOK
<1>10. AuditsKept'
  BY <1>2, <1>3, <1>4, <1>5, <1>6, <1>7, <1>8, <1>9 DEF AuditsKept
<1>11. policy = "v2" /\ d = "rejected" => Cardinality(Rejections(writer[c].slot)) < MaxRewrites
  BY <1>1 DEF StaticVerdict, RewriteLeft
<1>12. ~Superseded(c) /\ \A e : ~Judged(c, e)
  BY <1>3, UnjudgedIsLast DEF Judged
<1>13. DOMAIN rechecks' \subseteq DOMAIN audits'
  BY <1>2, <1>5 DEF GateShape, GateTypeOK
<1>14. Judged(c, "rejected")' => d = "rejected"
  BY <1>6 DEF Judged
<1> QED
  BY <1>2, <1>3, <1>5, <1>7, <1>10, <1>11, <1>12, <1>13, <1>14, NewVerdict

LEMMA RecheckKeeps == GateInv /\ RecheckOutput => GateInv'
<1> SUFFICES ASSUME GateInv, RecheckOutput PROVE GateInv' OBVIOUS
<1> USE GateAssumption DEF GateInv
<1>0. PICK c \in Unavailable : \E d \in Verdicts(c) : rechecks' = With(rechecks, c, d)
  BY DEF RecheckOutput
<1>1. PICK d \in Verdicts(c) : rechecks' = With(rechecks, c, d)
  BY <1>0
<1>2. /\ UNCHANGED <<policy, normalizer, writer, audits, normalized, formatStop, stepForms, unready>>
      /\ gateAt = "recheck" /\ gateAt' = "resume"
  BY DEF RecheckOutput
<1>3. c \in DOMAIN writer /\ c \in DOMAIN audits /\ Disposition(c) = "infrastructure_failure"
  BY <1>1 DEF Unavailable, Judged
<1>4. writer[c].state = "finished" /\ policy # "v2"
  BY <1>3 DEF AuditsKept
<1>5. DOMAIN rechecks' = DOMAIN rechecks \cup {c} /\ rechecks'[c] = d /\ \A e \in DOMAIN rechecks \ {c} : rechecks'[e] = rechecks[e]
  BY <1>1 DEF With
<1>6. Disposition(c)' = d /\ \A e \in DOMAIN audits \ {c} : Disposition(e)' = Disposition(e)
  BY <1>2, <1>5 DEF Disposition
<1>7. d \in Verdict
  BY <1>1 DEF Verdicts, Verdict
<1>8. AuditsKept'
  BY <1>2, <1>4, <1>6, <1>7 DEF AuditsKept
<1>9. ~Superseded(c) /\ \A e \in Verdict \ {"infrastructure_failure"} : ~Judged(c, e)
  BY <1>3, <1>4, UnjudgedIsLast DEF Judged
<1>10. DOMAIN audits' = DOMAIN audits \cup {c} /\ DOMAIN rechecks' \subseteq DOMAIN audits'
  BY <1>2, <1>3, <1>5 DEF GateShape, GateTypeOK
<1> QED
  BY <1>2, <1>3, <1>4, <1>6, <1>8, <1>9, <1>10, NewVerdict

(* Recorded edits are the audited ones, and an output without recorded     *)
(* edits is sealed only in the form in which it was audited.               *)
LEMMA SealKeeps == GateInv /\ SealOutput => GateInv'
<1> SUFFICES ASSUME GateInv, SealOutput PROVE GateInv' OBVIOUS
<1> USE GateAssumption DEF GateInv
<1>1. PICK c \in DOMAIN audits :
         /\ Accepted(c) /\ ~Superseded(c) /\ writer[c].slot = Slot
         /\ c \in DOMAIN normalized \/ (~Irreproducible(c) /\ Form(c) = 0)
         /\ stepForms' = Append(stepForms, [call |-> c, form |-> IF c \in DOMAIN normalized THEN normalized[c] ELSE 0])
  BY DEF SealOutput
<1>2. UNCHANGED <<policy, normalizer, writer, gateStore, unready, gateAt>> /\ gateAt = "loop"
  BY DEF SealOutput
<1> DEFINE n == Len(stepForms) + 1
           step == [call |-> c, form |-> IF c \in DOMAIN normalized THEN normalized[c] ELSE 0]
<1>3. c \in DOMAIN writer /\ c \in Nat
  BY SlotFinite DEF AuditsKept
<1>4. step.form = audits[c].form
  BY <1>1 DEF AuditsKept, Irreproducible
<1>5. step \in [call : Nat, form : Nat]
  <2>1. audits[c].form \in Nat
    BY DEF AuditsKept, GateShape, GateTypeOK
  <2> QED
    BY <1>3, <1>4, <2>1
<1>6. /\ stepForms' \in Seq([call : Nat, form : Nat]) /\ DOMAIN stepForms' = 1..n /\ DOMAIN stepForms = 1..(n - 1)
      /\ Len(stepForms) \in Nat /\ stepForms'[n] = step /\ \A i \in DOMAIN stepForms : stepForms'[i] = stepForms[i]
  <2>1. stepForms \in Seq([call : Nat, form : Nat])
    BY DEF GateShape
  <2> HIDE DEF step
  <2> QED
    BY <1>1, <1>5, <2>1 DEF step
<1>7. GateShape'
  BY <1>2, <1>6 DEF GateShape, GateTypeOK, gateStore
<1>8. \A e, d : Judged(e, d)' = Judged(e, d)
  BY <1>2 DEF Judged, Disposition, gateStore
<1>9. \A s : OnSlot(s)' = OnSlot(s) /\ Finished(s)' = Finished(s) /\ Rejections(s)' = Rejections(s)
  BY <1>2, <1>8 DEF OnSlot, Finished, Rejections
<1>10. AuditsKept'
  BY <1>2 DEF AuditsKept, Disposition, gateStore
<1>11. SealedInOrder'
  BY <1>1, <1>2, <1>3, <1>6 DEF SealedInOrder, Slot
<1>12. SealedAsAudited'
  <2>1. Judged(c, "accepted") \/ Judged(c, "accepted_with_format_issues")
    BY <1>1 DEF Accepted
  <2>2. audits' = audits /\ stepForms'[n].call = c /\ stepForms'[n].form = audits[c].form
    BY <1>2, <1>4, <1>6 DEF gateStore
  <2> HIDE DEF step
  <2>3. ASSUME NEW i \in 1..n, NEW e, e = stepForms'[i].call
        PROVE  (Judged(e, "accepted")' \/ Judged(e, "accepted_with_format_issues")') /\ stepForms'[i].form = audits'[e].form
    <3>1. CASE i = n
      BY <1>8, <2>1, <2>2, <2>3, <3>1
    <3>2. CASE i # n
      <4>1. i \in DOMAIN stepForms /\ stepForms'[i] = stepForms[i]
        <5>1. PICK k \in Nat : k = Len(stepForms)
          BY <1>6
        <5>2. i \in 1..k
          BY <3>2, <5>1
        <5>3. DOMAIN stepForms = 1..k
          BY <1>6, <5>1
        <5> QED
          BY <1>6, <5>2, <5>3
      <4>2. (Judged(e, "accepted") \/ Judged(e, "accepted_with_format_issues")) /\ stepForms[i].form = audits[e].form
        BY <2>3, <4>1 DEF SealedAsAudited
      <4> QED
        BY <1>8, <2>2, <4>1, <4>2
    <3> QED
      BY <3>1, <3>2
  <2> QED
    BY <1>6, <2>3 DEF SealedAsAudited, Judged, Disposition
<1>13. GoodOutputKept' /\ ToldOfRejection' /\ BudgetLeft' /\ FailsOnlyAfterUpgrade'
  BY <1>2, <1>8, <1>9 DEF GoodOutputKept, ToldOfRejection, BudgetLeft, Budget, FailsOnlyAfterUpgrade, Superseded, gateStore
<1>14. CallUnderWay'
  BY <1>2 DEF CallUnderWay
<1> QED
  BY <1>7, <1>10, <1>11, <1>12, <1>13, <1>14

(* When the driver may write a slot again, every output of it was rejected *)
(* and a rewrite is left.                                                  *)
LEMMA RewriteAllowed ==
  ASSUME GateInv, Gated, ~formatStop, CanCall
  PROVE  /\ \A c \in Finished(Slot) : Judged(c, "rejected")
         /\ Cardinality(Finished(Slot)) <= Budget
<1> USE GateAssumption DEF GateInv
<1>1. ASSUME NEW c \in Finished(Slot)
      PROVE  /\ c \in Unsettled /\ c \in DOMAIN audits /\ Judged(c, "rejected")
             /\ ~Superseded(c) => Cardinality(Rejections(Slot)) <= FormatRetries \/ policy = "v2"
  <2>1. c \in DOMAIN writer /\ writer[c].state = "finished" /\ writer[c].slot = Slot
    BY DEF Finished, OnSlot
  <2>2. c \in Unsettled
    <3>1. ASSUME NEW j \in DOMAIN stepForms, stepForms[j].call = c PROVE FALSE
      <4>1. j = Slot /\ stepForms \in Seq([call : Nat, form : Nat])
        BY <2>1, <3>1 DEF SealedInOrder, GateShape
      <4> QED
        BY <4>1 DEF Slot
    <3> QED
      BY <2>1, <3>1 DEF Unsettled
  <2>3. c \in DOMAIN audits /\ ~Accepted(c)
    BY <2>2 DEF Gated
  <2>4. Disposition(c) \in {"rejected", "infrastructure_failure"} /\ (policy = "v2" => Disposition(c) = "rejected")
    BY <2>2, <2>3 DEF AuditsKept, Accepted, Judged, Verdict
  <2>5. policy \in {"v1", "v2"} /\ ~Stopping /\ ~unready
    BY DEF Gated, CanCall, GateShape, GateTypeOK
  <2>6. Disposition(c) = "rejected"
    <3>1. CASE Superseded(c)
      BY <2>1, <3>1 DEF GoodOutputKept, Judged
    <3>2. CASE ~Superseded(c)
      BY <2>2, <2>3, <2>4, <2>5, <3>2 DEF Stopping
    <3> QED
      BY <3>1, <3>2
  <2>7. ~Superseded(c) => ~(Cardinality(Rejections(Slot)) > FormatRetries) \/ policy = "v2"
    BY <2>1, <2>2, <2>3, <2>5, <2>6 DEF Stopping
  <2>8. Cardinality(Rejections(Slot)) \in Nat
    BY SlotFinite
  <2> QED
    BY <2>2, <2>3, <2>6, <2>7, <2>8 DEF Judged
<1>2. Finished(Slot) \subseteq Rejections(Slot)
  BY <1>1 DEF Rejections, Finished
<1>3. Cardinality(Finished(Slot)) <= Cardinality(Rejections(Slot)) /\ Cardinality(Finished(Slot)) \in Nat
      /\ Cardinality(Rejections(Slot)) \in Nat
  BY <1>2, SlotFinite, FS_Subset
<1>4. Slot \in 1..MaxSlot
  BY DEF CanCall, Slot, GateShape
<1>5. CASE policy = "v2"
  <2>1. Cardinality(Rejections(Slot)) <= MaxRewrites
    BY <1>4, <1>5 DEF BudgetLeft
  <2> QED
    BY <1>1, <1>3, <1>5, <2>1 DEF Budget
<1>6. CASE policy # "v2"
  <2>1. CASE OnSlot(Slot) = {}
    <3>1. Finished(Slot) = {}
      BY <2>1, SlotFinite
    <3> QED
      BY <1>6, <3>1, FS_EmptySet DEF Budget
  <2>2. CASE OnSlot(Slot) # {}
    <3>1. PICK l \in OnSlot(Slot) : \A d \in OnSlot(Slot) : d <= l
      BY <2>2, SlotFinite, LastCall
    <3>2. l \in DOMAIN writer /\ writer[l].slot = Slot /\ DOMAIN writer \subseteq Nat
      BY <3>1, SlotFinite DEF OnSlot
    <3>3. ~Superseded(l)
      <4>1. \A d \in OnSlot(Slot) : d \in Nat /\ l \in Nat /\ ~(d > l)
        BY <3>1, <3>2 DEF OnSlot
      <4> QED
        BY <3>2, <4>1 DEF Superseded
    <3>4. CASE l \in Finished(Slot)
      BY <1>1, <1>3, <1>6, <3>3, <3>4 DEF Budget
    <3>5. CASE l \notin Finished(Slot)
      <4>1. PICK s : s = Slot /\ writer[l].slot = s
        BY <3>2
      <4>2. \A d \in Finished(s) : d < l
        <5>1. \A d \in Finished(s) : d \in OnSlot(Slot) /\ d \in DOMAIN writer /\ d # l
          BY <3>5, <4>1 DEF Finished, OnSlot
        <5> QED
          BY <3>1, <3>2, <5>1
      <4>3. {d \in Finished(s) : d < l} = Finished(s)
        BY <4>2
      <4>4. \A c \in DOMAIN writer : \A t : t = writer[c].slot => Cardinality({d \in Finished(t) : d < c}) <= Budget
        BY DEF BudgetLeft
      <4>5. Cardinality({d \in Finished(s) : d < l}) <= Budget
        BY <3>2, <4>1, <4>4
      <4>6. Cardinality(Finished(s)) <= Budget
        BY <4>3, <4>5, Zenon
      <4> QED
        BY <1>1, <4>1, <4>6
    <3> QED
      BY <3>4, <3>5
  <2> QED
    BY <2>1, <2>2
<1> QED
  BY <1>1, <1>5, <1>6

LEMMA CallKeeps == GateInv /\ CallForSlot => GateInv'
<1> SUFFICES ASSUME GateInv, CallForSlot PROVE GateInv' OBVIOUS
<1> USE GateAssumption DEF GateInv
<1> DEFINE n == Len(writer) + 1
           new == [slot |-> Slot, state |-> "started", output |-> NoOutput, feedback |-> FormatFeedback(Slot)]
<1>1. /\ writer' = Append(writer, new) /\ gateAt' = "calling" /\ Gated /\ ~formatStop /\ CanCall
      /\ UNCHANGED <<policy, normalizer, gateStore, stepForms, unready>>
  BY DEF CallForSlot
<1>2. Slot \in 1..MaxSlot /\ Len(writer) < MaxOutputs /\ ~unready /\ Slot' = Slot
  BY <1>1 DEF CanCall, Slot, GateShape
<1>3. DOMAIN writer = 1..Len(writer) /\ Len(writer) \in Nat /\ writer \in Seq(WriterCall)
  BY SlotFinite
<1>4. FormatFeedback(Slot) \in 0..Len(writer)
  <2>1. Rejections(Slot) \subseteq 1..Len(writer)
    BY SlotFinite
  <2>2. CASE Rejections(Slot) = {}
    BY <1>3, <2>2 DEF FormatFeedback, LastOf
  <2>3. CASE Rejections(Slot) # {}
    <3>1. LastOf(Rejections(Slot)) \in Rejections(Slot)
      BY <1>3, <2>1, <2>3, LastCall
    <3> QED
      BY <1>3, <2>1, <3>1 DEF FormatFeedback
  <2> QED
    BY <2>2, <2>3
<1>5. new \in WriterCall
  BY <1>2, <1>3, <1>4 DEF WriterCall, Output, NoOutput, GateShape
<1>6. /\ writer' \in Seq(WriterCall) /\ DOMAIN writer' = 1..n /\ Len(writer') = n
      /\ writer'[n] = new /\ \A c \in DOMAIN writer : c # n /\ writer'[c] = writer[c]
  <2> HIDE DEF new
  <2> QED
    BY <1>1, <1>3, <1>5
<1>7. writer'[n].slot = Slot /\ writer'[n].state = "started" /\ writer'[n].feedback = FormatFeedback(Slot)
  BY <1>6
<1> HIDE DEF new
<1>8. DOMAIN writer' = DOMAIN writer \cup {n}
  BY <1>3, <1>6
<1>9. GateShape'
  BY <1>1, <1>2, <1>3, <1>6 DEF GateShape, GateTypeOK, WriterCall, gateStore
<1>10. n \notin DOMAIN audits /\ n \notin DOMAIN writer
  BY <1>3 DEF AuditsKept
<1>11. \A c, d : Judged(c, d)' = Judged(c, d)
  BY <1>1 DEF Judged, Disposition, gateStore
<1>12. \A s : Finished(s)' = Finished(s) /\ Rejections(s)' = Rejections(s)
  <2>1. \A s : \A c : c \in Finished(s)' <=> c \in Finished(s)
    BY <1>6, <1>7, <1>8 DEF Finished, OnSlot
  <2>2. \A s : \A c : c \in Rejections(s)' <=> c \in Rejections(s)
    BY <1>6, <1>8, <1>10, <1>11 DEF Rejections, OnSlot, Judged
  <2> QED
    BY <2>1, <2>2
<1>13. AuditsKept'
  BY <1>1, <1>6, <1>8 DEF AuditsKept, Disposition, gateStore
<1>14. SealedInOrder' /\ SealedAsAudited'
  BY <1>1, <1>6, <1>8, <1>11 DEF SealedInOrder, SealedAsAudited, gateStore
<1>15. CallUnderWay'
  <2>1. \A c \in DOMAIN writer : writer[c].state # "started"
    BY <1>1 DEF CallUnderWay, CallForSlot
  <2> QED
    BY <1>1, <1>2, <1>3, <1>6, <1>7, <1>8, <2>1 DEF CallUnderWay, gateStore
<1>16. GoodOutputKept'
  <2>1. ASSUME NEW c \in DOMAIN writer, writer[c].state = "finished", Superseded(c)' PROVE Judged(c, "rejected")
    <3>1. CASE writer[c].slot = Slot
      <4>1. c \in Finished(Slot)
        BY <2>1, <3>1 DEF Finished, OnSlot
      <4> QED
        BY <1>1, <4>1, RewriteAllowed
    <3>2. CASE writer[c].slot # Slot
      <4>1. Superseded(c)
        BY <1>6, <1>7, <1>8, <2>1, <3>2 DEF Superseded, OnSlot
      <4> QED
        BY <2>1, <4>1 DEF GoodOutputKept
    <3> QED
      BY <3>1, <3>2
  <2> QED
    BY <1>6, <1>7, <1>8, <1>11, <2>1 DEF GoodOutputKept
<1>17. ToldOfRejection'
  <2>1. {d \in Rejections(Slot) : d < n} = Rejections(Slot)
    <3>1. Rejections(Slot) \subseteq 1..Len(writer)
      BY SlotFinite
    <3> QED
      BY <1>3, <3>1
  <2>2. LastOf({d \in Rejections(Slot) : d < n}) = FormatFeedback(Slot)
    BY <2>1, Zenon DEF FormatFeedback
  <2>3. \A c \in DOMAIN writer : writer'[c].feedback = LastOf({d \in Rejections(writer'[c].slot) : d < c})
    BY <1>6 DEF ToldOfRejection
  <2>4. writer'[n].feedback = LastOf({d \in Rejections(writer'[n].slot) : d < n})
    BY <1>7, <2>2
  <2> QED
    BY <1>8, <1>12, <2>3, <2>4 DEF ToldOfRejection
<1>18. BudgetLeft'
  <2>1. Budget' = Budget
    BY <1>1 DEF Budget
  <2>2. Cardinality({d \in Finished(Slot) : d < n}) <= Budget
    <3>1. {d \in Finished(Slot) : d < n} = Finished(Slot)
      <4>1. Finished(Slot) \subseteq 1..Len(writer)
        BY SlotFinite
      <4> QED
        BY <1>3, <4>1
    <3>2. Cardinality(Finished(Slot)) <= Budget
      BY <1>1, RewriteAllowed
    <3> QED
      BY <3>1, <3>2, Zenon
  <2>3. \A c \in DOMAIN writer : Cardinality({d \in Finished(writer'[c].slot) : d < c}) <= Budget
    BY <1>6 DEF BudgetLeft
  <2>4. Cardinality({d \in Finished(writer'[n].slot) : d < n}) <= Budget
    BY <1>7, <2>2
  <2> QED
    BY <1>1, <1>8, <1>12, <2>1, <2>3, <2>4 DEF BudgetLeft
<1>19. FailsOnlyAfterUpgrade'
  BY <1>1 DEF FailsOnlyAfterUpgrade
<1> QED
  BY <1>9, <1>13, <1>14, <1>15, <1>16, <1>17, <1>18, <1>19

LEMMA CallEndsKeeps == GateInv /\ CallEnds => GateInv'
<1> SUFFICES ASSUME GateInv, CallEnds PROVE GateInv' OBVIOUS
<1> USE GateAssumption DEF GateInv
<1> DEFINE l == Len(writer)
<1>1. /\ gateAt = "calling" /\ gateAt' = "loop" /\ UNCHANGED <<policy, normalizer, gateStore, stepForms>>
      /\ unready' \in BOOLEAN
  BY DEF CallEnds, GateShape, GateTypeOK
<1>2. DOMAIN writer = 1..l /\ l \in Nat /\ writer \in Seq(WriterCall)
  BY SlotFinite
<1>3. l \in DOMAIN writer /\ writer[l].state = "started" /\ writer[l] \in WriterCall
  BY <1>1, <1>2 DEF CallUnderWay
<1>4. PICK to \in {"finished", "failed"}, out \in Output :
         /\ DOMAIN writer' = DOMAIN writer /\ Len(writer') = l /\ writer' \in Seq(WriterCall)
         /\ writer'[l].state = to /\ writer'[l].slot = writer[l].slot /\ writer'[l].feedback = writer[l].feedback
         /\ \A c \in DOMAIN writer : c # l => writer'[c] = writer[c]
  <2>1. PICK to \in {"finished", "failed"}, out \in Output : writer' = EndedWith(to, out)
    BY DEF CallEnds, Output, NoOutput
  <2> DEFINE new == [slot |-> writer[l].slot, state |-> to, output |-> out, feedback |-> writer[l].feedback]
  <2>2. writer' = [writer EXCEPT ![l] = new]
    BY <2>1 DEF EndedWith
  <2>3. new \in WriterCall
    BY <1>3 DEF WriterCall
  <2>4. new.state = to /\ new.slot = writer[l].slot /\ new.feedback = writer[l].feedback
    OBVIOUS
  <2> HIDE DEF new
  <2>5. writer' \in Seq(WriterCall) /\ Len(writer') = l /\ DOMAIN writer' = DOMAIN writer
    BY <1>2, <1>3, <2>2, <2>3, ExceptSeq
  <2> QED
    BY <1>2, <1>3, <2>2, <2>4, <2>5
<1>5. l \notin DOMAIN audits
  BY <1>3 DEF AuditsKept
<1>6. \A c, d : Judged(c, d)' = Judged(c, d)
  BY <1>1 DEF Judged, Disposition, gateStore
<1>7. \A c \in DOMAIN writer : writer'[c].slot = writer[c].slot /\ writer'[c].feedback = writer[c].feedback /\ c <= l
  BY <1>2, <1>4
<1>8. \A s : OnSlot(s)' = OnSlot(s) /\ Finished(s) \subseteq Finished(s)' /\ Finished(s)' \subseteq Finished(s) \cup {l}
  BY <1>3, <1>4, <1>7 DEF Finished, OnSlot
<1>9. \A s : Rejections(s)' = Rejections(s)
  BY <1>6, <1>8 DEF Rejections
<1>10. GateShape'
  BY <1>1, <1>4 DEF GateShape, GateTypeOK, WriterCall, gateStore
<1>11. AuditsKept'
  BY <1>1, <1>4, <1>5 DEF AuditsKept, Disposition, gateStore
<1>12. SealedInOrder' /\ SealedAsAudited'
  BY <1>1, <1>4, <1>6, <1>7 DEF SealedInOrder, SealedAsAudited, gateStore
<1>13. CallUnderWay'
  BY <1>1, <1>4, <1>3 DEF CallUnderWay
<1>14. GoodOutputKept'
  <2>1. ~Superseded(l)'
    BY <1>2, <1>4, <1>7 DEF Superseded, OnSlot
  <2>2. \A c \in DOMAIN writer : c # l => Superseded(c)' = Superseded(c)
    BY <1>4, <1>7, <1>8 DEF Superseded
  <2> QED
    BY <1>4, <1>6, <2>1, <2>2 DEF GoodOutputKept
<1>15. ToldOfRejection'
  BY <1>4, <1>7, <1>9 DEF ToldOfRejection
<1>16. BudgetLeft'
  <2>1. ASSUME NEW c \in DOMAIN writer, NEW s PROVE {d \in Finished(s)' : d < c} = {d \in Finished(s) : d < c}
    BY <1>2, <1>7, <1>8
  <2> QED
    BY <1>1, <1>4, <1>7, <1>9, <2>1 DEF BudgetLeft, Budget
<1>17. FailsOnlyAfterUpgrade'
  BY <1>1 DEF FailsOnlyAfterUpgrade
<1> QED
  BY <1>10, <1>11, <1>12, <1>13, <1>14, <1>15, <1>16, <1>17

(* An audit is irreproducible only under formula-v2, by a newer normalizer; *)
(* and what was superseded is not accepted.                                 *)
LEMMA GateFailsKeeps == GateInv /\ GateFails => GateInv'
<1> SUFFICES ASSUME GateInv, GateFails PROVE GateInv' OBVIOUS
<1> USE GateAssumption DEF GateInv
<1>1. PICK c \in DOMAIN audits : Irreproducible(c) \/ (Accepted(c) /\ Superseded(c))
  BY DEF GateFails
<1>2. gateAt = "loop" /\ gateAt' = "error" /\ UNCHANGED <<policy, normalizer, writer, gateStore, stepForms, unready>>
  BY DEF GateFails
<1>3. c \in DOMAIN writer /\ writer[c].state = "finished"
  BY DEF AuditsKept
<1>4. Accepted(c) /\ ~Superseded(c)
  <2>1. Accepted(c)
    BY <1>1 DEF Irreproducible
  <2>2. ~Judged(c, "rejected")
    <3> HIDE DEF GateInv
    <3> QED
      BY <2>1 DEF Accepted, Judged
  <2>3. ~Superseded(c)
    <3> HIDE DEF GateInv
    <3> QED
      BY <1>3, <2>2, UnjudgedIsLast
  <2> QED
    BY <2>1, <2>3
<1>5. Form(c) # audits[c].form
  BY <1>1, <1>4 DEF Irreproducible
<1>6. 0 < audits[c].form /\ audits[c].form < normalizer
  <2>1. audits[c].form \in IF policy = "v2" /\ writer[c].output.edited THEN 1..normalizer ELSE {0}
    BY DEF AuditsKept
  <2> QED
    BY <1>5, <2>1 DEF Form, GateShape, GateTypeOK
<1>7. Accepted(c)'
  BY <1>2, <1>4 DEF Accepted, Unsettled, Judged, Disposition, gateStore
<1>8. FailsOnlyAfterUpgrade'
  BY <1>2, <1>6, <1>7 DEF FailsOnlyAfterUpgrade, gateStore
<1>9. CallUnderWay'
  BY <1>2 DEF CallUnderWay, gateStore
<1>10. normalizer' \in 1..MaxNormalizer /\ normalizer <= normalizer' /\ formatStop' \in BOOLEAN /\ unready' \in BOOLEAN
       /\ (policy = "v2" => ~formatStop')
  BY <1>2 DEF GateShape, GateTypeOK, gateStore
<1> QED
  BY <1>2, <1>8, <1>9, <1>10, ControlOnly DEF gateStore

LEMMA GateInvStep == GateInv /\ [GateNext]_gateVars => GateInv'
<1> SUFFICES ASSUME GateInv, [GateNext]_gateVars PROVE GateInv' OBVIOUS
<1> USE GateAssumption DEF GateInv, gateStore
<1>1. normalizer \in 1..MaxNormalizer /\ policy \in {"v1", "v2"} /\ formatStop \in BOOLEAN /\ unready \in BOOLEAN
      /\ (policy = "v2" => ~formatStop)
  BY DEF GateShape, GateTypeOK
<1>2. CASE NormalizeOutput
  <2>1. PICK c \in DOMAIN audits : /\ Accepted(c) /\ c \notin DOMAIN normalized /\ ~Irreproducible(c)
                                  /\ normalized' = With(normalized, c, Form(c))
    BY <1>2 DEF NormalizeOutput
  <2>2. UNCHANGED <<policy, normalizer, writer, audits, rechecks, formatStop, stepForms, unready, gateAt>>
    BY <1>2 DEF NormalizeOutput
  <2>3. DOMAIN normalized' = DOMAIN normalized \cup {c} /\ normalized'[c] = audits[c].form
        /\ \A e \in DOMAIN normalized : normalized'[e] = normalized[e]
    BY <2>1 DEF With, Irreproducible
  <2>4. AuditsKept'
    BY <2>2, <2>3 DEF AuditsKept, Disposition
  <2>5. GateShape'
    BY <2>2, <2>3 DEF GateShape, GateTypeOK
  <2>6. SealedInOrder' /\ CallUnderWay'
    BY <2>2 DEF SealedInOrder, CallUnderWay, Slot
  <2>7. BudgetLeft' /\ SealedAsAudited' /\ GoodOutputKept' /\ ToldOfRejection' /\ FailsOnlyAfterUpgrade'
    BY <2>2 DEF BudgetLeft, SealedAsAudited, GoodOutputKept, ToldOfRejection, FailsOnlyAfterUpgrade, Budget, Finished,
       Rejections, OnSlot, Judged, Disposition, Superseded, Accepted, Unsettled
  <2> QED
    BY <2>4, <2>5, <2>6, <2>7
<1>3. CASE StopForFormat
  <2>1. CallUnderWay' /\ FailsOnlyAfterUpgrade'
    BY <1>3 DEF StopForFormat, CallUnderWay, FailsOnlyAfterUpgrade
  <2> QED
    BY <1>1, <1>3, <2>1, ControlOnly DEF StopForFormat, Stopping, GateShape, GateTypeOK
<1>4. CASE GateRests
  <2>1. CallUnderWay' /\ FailsOnlyAfterUpgrade'
    BY <1>4 DEF GateRests, CallUnderWay, FailsOnlyAfterUpgrade
  <2> QED
    BY <1>1, <1>4, <2>1, ControlOnly DEF GateRests
<1>5. CASE ResumeGate
  <2>1. CallUnderWay' /\ FailsOnlyAfterUpgrade'
    BY <1>5 DEF ResumeGate, CallUnderWay, FailsOnlyAfterUpgrade
  <2>2. gateAt' \in {"recheck", "resume"}
    BY <1>5 DEF ResumeGate
  <2> QED
    BY <1>1, <1>5, <2>1, <2>2, ControlOnly DEF ResumeGate
<1>6. CASE DriveGate
  <2>1. CallUnderWay' /\ FailsOnlyAfterUpgrade'
    BY <1>6 DEF DriveGate, CallUnderWay, FailsOnlyAfterUpgrade
  <2>2. ~formatStop' /\ formatStop' \in BOOLEAN /\ unready' \in BOOLEAN /\ gateAt' = "loop"
    BY <1>6 DEF DriveGate
  <2> QED
    BY <1>1, <1>6, <2>1, <2>2, ControlOnly DEF DriveGate
<1>7. CASE GateCrash
  <2>1. CallUnderWay' /\ FailsOnlyAfterUpgrade'
    BY <1>7 DEF GateCrash, CallUnderWay, FailsOnlyAfterUpgrade, Slot
  <2> QED
    BY <1>1, <1>7, <2>1, ControlOnly DEF GateCrash
<1>8. CASE RestartGate
  <2>1. normalizer' \in 1..MaxNormalizer /\ normalizer <= normalizer' /\ gateAt' \in {"idle", "calling", "loop"}
        /\ UNCHANGED <<policy, writer, gateStore, stepForms, unready>>
    BY <1>1, <1>8 DEF RestartGate
  <2>2. CallUnderWay'
    <3>1. CASE \E c \in DOMAIN writer : writer[c].state = "started"
      <4>1. PICK c \in DOMAIN writer : writer[c].state = "started"
        BY <3>1
      <4>2. c = Len(writer) /\ ~unready /\ ~formatStop /\ Slot <= MaxSlot /\ Slot \in Nat
        BY <4>1 DEF CallUnderWay, Slot, GateShape
      <4>3. gateAt' = "calling" /\ writer # <<>>
        BY <1>8, <4>1, <4>2 DEF RestartGate
      <4> QED
        BY <2>1, <4>1, <4>2, <4>3 DEF CallUnderWay, Slot
    <3>2. CASE ~\E c \in DOMAIN writer : writer[c].state = "started"
      BY <1>8, <2>1, <3>2 DEF CallUnderWay, RestartGate
    <3> QED
      BY <3>1, <3>2
  <2>3. FailsOnlyAfterUpgrade'
    BY <2>1 DEF FailsOnlyAfterUpgrade
  <2> QED
    BY <1>1, <2>1, <2>2, <2>3, ControlOnly
<1>9. CASE UNCHANGED gateVars
  <2>1. CallUnderWay' /\ FailsOnlyAfterUpgrade'
    BY <1>9 DEF gateVars, CallUnderWay, FailsOnlyAfterUpgrade, Accepted, Unsettled, Judged, Disposition, Slot
  <2>2. gateAt' \in {"loop", "calling", "recheck", "resume", "idle", "down", "error"}
    BY <1>9 DEF gateVars, GateShape, GateTypeOK
  <2> QED
    BY <1>1, <1>9, <2>1, <2>2, ControlOnly DEF gateVars
<1> QED
  BY <1>2, <1>3, <1>4, <1>5, <1>6, <1>7, <1>8, <1>9, AuditKeeps, RecheckKeeps, SealKeeps, CallKeeps, CallEndsKeeps,
     GateFailsKeeps DEF GateNext

(* Under either policy, for any budgets and any number of outputs, crashes *)
(* and releases: what is sealed is what was accepted, no good output is    *)
(* written again, and the rewrites of a slot stay in its budget.           *)
THEOREM GateThm == GateSpec => []GateSound
<1>1. GateInv => WithinFormatBudget
  <2> SUFFICES ASSUME GateInv PROVE WithinFormatBudget OBVIOUS
  <2> USE GateAssumption DEF GateInv
  <2>1. ASSUME NEW s \in 1..MaxSlot PROVE Cardinality(Finished(s)) <= 1 + Budget
    <3>1. CASE Finished(s) = {}
      BY <3>1, FS_EmptySet DEF Budget
    <3>2. CASE Finished(s) # {}
      <4>1. PICK c \in Finished(s) : \A d \in Finished(s) : d <= c
        BY <3>2, SlotFinite, LastCall
      <4>2. PICK before : before = {d \in Finished(s) : d < c}
        OBVIOUS
      <4>3. c \in DOMAIN writer /\ writer[c].slot = s
        BY <4>1 DEF Finished, OnSlot
      <4>4. Cardinality(before) <= Budget
        BY <4>2, <4>3 DEF BudgetLeft
      <4>5. before \subseteq Finished(s) /\ Finished(s) = before \cup {c}
        <5>1. Finished(s) \subseteq 1..Len(writer)
          BY SlotFinite
        <5> QED
          BY <4>1, <4>2, <5>1
      <4>6. IsFiniteSet(before) /\ Cardinality(before) \in Nat
        BY <4>5, SlotFinite
      <4>7. Budget + 1 \in Nat /\ Cardinality(before) < Budget + 1
        BY <4>4, <4>6 DEF Budget
      <4>8. Cardinality(before \cup {c}) <= Budget + 1
        BY <4>6, <4>7, OneMore
      <4>9. Cardinality(Finished(s)) <= Budget + 1
        BY <4>5, <4>8, Zenon
      <4> QED
        BY <4>9 DEF Budget
    <3> QED
      BY <3>1, <3>2
  <2> QED
    BY <2>1 DEF WithinFormatBudget, Finished, Budget, GateShape
<1>2. GateInv => GateSound
  BY <1>1 DEF GateInv, GateShape, GateSound
<1> QED
  BY <1>2, GateInvInit, GateInvStep, PTL DEF GateSpec

-----------------------------------------------------------------------------
(* Writer sessions.  The control store, the runtime's tables and the       *)
(* provider remember which thread carries a branch; the invariant says     *)
(* what each of them knows at every point between two of their changes.    *)

OnBranch == Stage \ {"idle", "forked", "resting", "stuck"}
OnThread == {"started", "attached", "running", "answered", "recover", "recovered", "unsealed", "sealed", "marked"}

\* The runtime has this thread for the branch.
Holds(t, b) == threadOwner[t] = b /\ bound[b] = t

\* Whatever is noted of a thread is noted of one that was opened.
ThreadsInv ==
    /\ \A b \in Branch : session[b] \in threads \cup {Nobody}
    /\ \A s \in Step : mark[s].thread \in threads \cup {Nobody}
    /\ turn.thread \in threads \cup {Nobody}

\* Nothing is known of a branch or a step before there is one.
UnbornInv ==
    /\ \A b \in Branch : status[b] = "unborn" => route[b] = <<>> /\ session[b] = Nobody /\ bound[b] = Nobody
    /\ \A b \in Branch : \A i \in 1 .. Len(route[b]) : decision[route[b][i]] # "none"
    /\ \A s \in Step : decision[s] = "none" => mark[s].thread = Nobody

\* The thread behind a step carried the route up to that step.
MarkInv ==
    \A s \in Step : mark[s].thread # Nobody =>
      LET m == mark[s]  b == by[s] IN
      /\ b \in Branch /\ m.turn \in 1 .. Len(route[b]) /\ m.turn <= Len(history[m.thread])
      /\ \A i \in 1 .. Len(route[b]) : route[b][i] = s => i = m.turn
      /\ FirstOf(history[m.thread], m.turn) = FirstOf(route[b], m.turn)

\* A step whose output the runtime has is on a thread that it has.
OutputInv ==
    \A s \in Step : mark[s].thread # Nobody /\ ~unbooked =>
      /\ output[s] = "live" => threadOwner[mark[s].thread] = by[s]
      /\ output[s] = "recovered" => threadOwner[mark[s].thread] \in Branch

\* The session of a branch carries its route, and the runtime would take it.
SessionInv ==
    \A b \in Branch : session[b] # Nobody =>
      /\ history[session[b]] = route[b]
      /\ Open(b) => Accepts(session[b], b) \/ unbooked
      /\ \/ b \in again \/ route[b] # <<>>
         \/ turn.branch = b /\ turn.at \in {"running", "answered", "recover", "recovered", "unsealed"}

BoundInv ==
    \A b \in Branch : bound[b] # Nobody =>
      \/ b \in again \/ route[b] # <<>>
      \/ turn.branch = b /\ turn.at \in {"started", "attached", "running", "answered", "recover", "recovered", "unsealed"}

OnesOwn == \A b, c \in Branch : b # c /\ session[b] # Nobody => session[b] # session[c]

ForkedInv == LET b == turn.branch t == turn.thread IN
    turn.at \in {"forked", "child"} =>
      /\ b \in Branch /\ status[b] # "unborn" /\ t # Nobody /\ route[b] # <<>>
      /\ \A c \in Branch : session[c] # t
      /\ t \in loaded /\ threadOwner[t] = Unclaimed
      /\ turn.at = "forked" => turn.anchor \in 1 .. Len(route[b]) /\ history[t] = FirstOf(route[b], turn.anchor)
      /\ turn.at = "child" => history[t] = route[b] /\ bound[b] = Nobody

ReadyInv == LET b == turn.branch t == turn.thread IN
    turn.at = "ready" => IF t = Nobody THEN route[b] = <<>> /\ session[b] = Nobody /\ bound[b] = Nobody
                                       ELSE session[b] = t

TurnInv == LET b == turn.branch t == turn.thread IN
    turn.at \in OnThread =>
      /\ t # Nobody /\ history[t] = route[b]
      /\ session[b] \in {t, Nobody} /\ \A c \in Branch : c # b => session[c] # t
      /\ turn.at \in {"started", "attached", "running", "answered"} => Holds(t, b) /\ t \in loaded
      /\ turn.at \in {"running", "answered"} => session[b] = t
      /\ turn.at \in {"recover", "recovered", "sealed", "marked"} => unbooked \/ (session[b] = t /\ Holds(t, b))
      /\ turn.at \in {"sealed", "marked"} => WroteTip(b) /\ \A i \in 1 .. Len(route[b]) : route[b][i] = Tip(b) => i = Len(route[b])

OpenInv == turn.at \in OnBranch => turn.branch \in Branch /\ Open(turn.branch)

SessionsParts ==
    /\ ThreadsInv /\ UnbornInv /\ MarkInv /\ OutputInv /\ SessionInv /\ BoundInv
    /\ ForkedInv /\ ReadyInv /\ TurnInv /\ OpenInv

SessionsInv ==
    /\ SessionsTypeOK /\ OnesOwn
    /\ error = "none" => SessionsParts
    /\ error # "none" => turn.at \in {"idle", "ready"}
    /\ error = "owner" => unbooked

Answering == {"running", "answered", "recover", "recovered", "unsealed"}
SessionsCtx == SessionsTypeOK /\ OnesOwn /\ SessionsParts /\ error = "none"

-----------------------------------------------------------------------------
(* The beginning of a sequence.                                            *)
LEMMA FirstFacts ==
  ASSUME NEW q \in Seq(Step), NEW n \in 0 .. Len(q)
  PROVE  /\ FirstOf(q, n) \in Seq(Step) /\ Len(FirstOf(q, n)) = n
         /\ \A i \in 1 .. n : FirstOf(q, n)[i] = q[i]
<1>1. n \in Int /\ \A i \in 1 .. n : q[i] \in Step
  BY ElementOfSeq
<1>2. /\ SubSeq(q, 1, n) \in Seq(Step)
      /\ Len(SubSeq(q, 1, n)) = IF 1 <= n THEN n - 1 + 1 ELSE 0
      /\ \A i \in 1 .. n - 1 + 1 : SubSeq(q, 1, n)[i] = q[1 + i - 1]
  BY <1>1, SubSeqProperties
<1> QED
  BY <1>2 DEF FirstOf

LEMMA FirstAll ==
  ASSUME NEW q \in Seq(Step)
  PROVE  FirstOf(q, Len(q)) = q
BY SubSeqFull DEF FirstOf

LEMMA FirstOfMore ==
  ASSUME NEW q \in Seq(Step), NEW s \in Step, NEW n \in 0 .. Len(q)
  PROVE  FirstOf(Append(q, s), n) = FirstOf(q, n)
<1>1. Append(q, s) \in Seq(Step) /\ Len(Append(q, s)) = Len(q) + 1 /\ \A i \in 1 .. Len(q) : Append(q, s)[i] = q[i]
  OBVIOUS
<1>2. n \in 0 .. Len(Append(q, s))
  BY <1>1
<1>3. /\ FirstOf(Append(q, s), n) \in Seq(Step) /\ Len(FirstOf(Append(q, s), n)) = n
      /\ \A i \in 1 .. n : FirstOf(Append(q, s), n)[i] = Append(q, s)[i]
  BY <1>1, <1>2, FirstFacts
<1>4. /\ FirstOf(q, n) \in Seq(Step) /\ Len(FirstOf(q, n)) = n
      /\ \A i \in 1 .. n : FirstOf(q, n)[i] = q[i]
  BY FirstFacts
<1>5. \A i \in 1 .. n : i \in 1 .. Len(q)
  OBVIOUS
<1>6. \A i \in 1 .. Len(FirstOf(q, n)) : FirstOf(Append(q, s), n)[i] = FirstOf(q, n)[i]
  BY <1>1, <1>3, <1>4, <1>5
<1> HIDE DEF FirstOf
<1> QED
  BY <1>3, <1>4, <1>6, SeqEqual

LEMMA AppendFacts ==
  ASSUME NEW q \in Seq(Step), NEW s \in Step
  PROVE  /\ Append(q, s) \in Seq(Step) /\ Append(q, s) # <<>>
         /\ Len(q) \in Nat /\ Len(Append(q, s)) = Len(q) + 1 /\ Append(q, s)[Len(q) + 1] = s
         /\ \A i \in 1 .. Len(q) : Append(q, s)[i] = q[i]
OBVIOUS

LEMMA LeastIn == \A S : Least(S) \subseteq S
BY DEF Least

-----------------------------------------------------------------------------
(* Steps that leave threads, sessions and routes alone.                    *)

Quiet ==
    /\ UNCHANGED <<route, decision, by, session, mark, threads, history, threadOwner, bound, output, error, unbooked>>
    /\ loaded \subseteq loaded' /\ again \subseteq again'
    /\ \A b \in Branch : /\ status'[b] = "unborn" => status[b] = "unborn"
                         /\ Open(b)' => Open(b)
    /\ turn.at \in Answering =>
          turn.branch \in again' \/ (turn'.branch = turn.branch /\ turn'.at \in Answering)
    /\ turn.at \in {"started", "attached"} =>
          turn.branch \in again' \/ (turn'.branch = turn.branch /\ turn'.at \in {"started", "attached"} \cup Answering)

(* The tables stay true; what is said of the turn is for each step.        *)
LEMMA QuietKeeps ==
  ASSUME SessionsCtx, Quiet
  PROVE  /\ OnesOwn' /\ UnbornInv' /\ MarkInv' /\ OutputInv' /\ SessionInv' /\ BoundInv'
         /\ turn'.thread \in threads \cup {Nobody} => ThreadsInv'
<1> USE DEF SessionsCtx, SessionsParts
<1>1. /\ route' = route /\ decision' = decision /\ by' = by /\ session' = session /\ mark' = mark
      /\ threads' = threads /\ history' = history /\ threadOwner' = threadOwner /\ bound' = bound
      /\ output' = output /\ unbooked' = unbooked
  BY DEF Quiet
<1>2. OnesOwn' /\ OutputInv'
  BY <1>1 DEF OnesOwn, OutputInv
<1>3. UnbornInv'
  BY <1>1 DEF UnbornInv, Quiet
<1>4. MarkInv'
  BY <1>1 DEF MarkInv
<1>5. SessionInv'
  <2> SUFFICES ASSUME NEW b \in Branch, session[b] # Nobody
               PROVE  /\ history[session[b]] = route[b]
                      /\ Open(b)' => Accepts(session[b], b)' \/ unbooked
                      /\ \/ b \in again' \/ route[b] # <<>>
                         \/ turn'.branch = b /\ turn'.at \in Answering
    BY <1>1 DEF SessionInv, Answering
  <2>1. Accepts(session[b], b) => Accepts(session[b], b)'
    BY <1>1 DEF Accepts, Quiet
  <2> QED
    BY <1>1, <2>1 DEF SessionInv, Quiet, Answering
<1>6. BoundInv'
  BY <1>1 DEF BoundInv, Quiet, Answering
<1> QED
  BY <1>1, <1>2, <1>3, <1>4, <1>5, <1>6 DEF ThreadsInv

(* Where the turn goes to a stage that has no thread, nothing is said of it. *)
LEMMA NothingOfTurn ==
  ASSUME turn'.at \in {"idle", "tried", "called", "resting", "stuck"},
         turn'.at \in OnBranch => turn'.branch \in Branch /\ Open(turn.branch)'
  PROVE  ForkedInv' /\ ReadyInv' /\ TurnInv' /\ OpenInv'
BY DEF ForkedInv, ReadyInv, TurnInv, OpenInv, OnThread

LEMMA QuietTurns ==
  ASSUME SessionsCtx, NEW b \in Branch,
         ForkSuppressed(b) \/ WriterCalled(b) \/ BranchEnds(b) \/ TurnFails \/ NothingSealed \/ Resumes
  PROVE  SessionsParts' /\ OnesOwn'
<1> USE DEF SessionsCtx, SessionsParts
<1>1. Quiet /\ turn'.thread \in {Nobody, turn.thread}
      /\ turn'.at \in {"idle", "tried", "called"}
      /\ (turn'.at \in OnBranch => turn'.branch \in Branch /\ Open(turn.branch)')
  <2>1. CASE ForkSuppressed(b)
    BY <2>1 DEF ForkSuppressed, Forking, IsFront, Quiet, Open, Do, Answering, recordVars, runtimeTables
  <2>2. CASE WriterCalled(b)
    BY <2>2 DEF WriterCalled, IsFront, Quiet, Open, Do, Answering, recordVars, runtimeTables, OpenInv, OnBranch, Stage
  <2>3. CASE BranchEnds(b)
    BY <2>3 DEF BranchEnds, IsFront, Quiet, Open, Answering, runtimeTables, OnBranch, SessionsTypeOK
  <2>4. CASE TurnFails
    BY <2>4 DEF TurnFails, Quiet, Open, NoTurn, Do, Answering, OnBranch, OpenInv, Stage, SessionsTypeOK
  <2>5. CASE NothingSealed
    BY <2>5 DEF NothingSealed, HasAnswer, Quiet, Open, NoTurn, Do, Answering, OnBranch, OpenInv, Stage, SessionsTypeOK, runtimeTables
  <2>6. CASE Resumes
    BY <2>6 DEF Resumes, Quiet, Open, Answering, OnBranch, runtimeTables
  <2> QED
    BY <2>1, <2>2, <2>3, <2>4, <2>5, <2>6
<1>2. ForkedInv' /\ ReadyInv' /\ TurnInv' /\ OpenInv'
  BY <1>1, NothingOfTurn
<1>3. turn'.thread \in threads \cup {Nobody}
  BY <1>1 DEF ThreadsInv
<1> QED
  BY <1>1, <1>2, <1>3, QuietKeeps

LEMMA SessionFound ==
  ASSUME SessionsCtx, SessionReused \/ SessionLeftOpen
  PROVE  SessionsParts' /\ OnesOwn'
<1> USE DEF SessionsCtx, SessionsParts
<1> DEFINE b == turn.branch
<1>1. turn.at = "called" /\ b \in Branch /\ Open(b)
  BY DEF SessionReused, SessionLeftOpen, OpenInv, OnBranch, Stage
<1>2. /\ turn'.at = "ready" /\ turn'.branch = b
      /\ \/ turn'.thread = session[b] /\ session[b] # Nobody
         \/ turn'.thread = Nobody /\ route[b] = <<>> /\ b \notin again
  BY DEF SessionReused, SessionLeftOpen, Do
<1>3. Quiet /\ status' = status
  BY <1>1, <1>2 DEF SessionReused, SessionLeftOpen, Quiet, Answering, recordVars, runtimeTables, Open
<1>4. turn'.thread \in threads \cup {Nobody}
  BY <1>1, <1>2 DEF ThreadsInv
<1>5. ReadyInv'
  <2>1. CASE turn'.thread = Nobody
    <3>1. route[b] = <<>> /\ b \notin again
      BY <1>1, <1>2, <2>1
    <3>2. session[b] = Nobody /\ bound[b] = Nobody
      BY <1>1, <3>1 DEF SessionInv, BoundInv
    <3> QED
      BY <1>2, <1>3, <2>1, <3>1, <3>2 DEF ReadyInv, Quiet
  <2>2. CASE turn'.thread # Nobody
    BY <1>2, <1>3, <2>2 DEF ReadyInv, Quiet
  <2> QED
    BY <2>1, <2>2
<1>6. ForkedInv' /\ TurnInv' /\ OpenInv'
  BY <1>1, <1>2, <1>3 DEF ForkedInv, TurnInv, OpenInv, OnThread, Open
<1> QED
  BY <1>3, <1>4, <1>5, <1>6, QuietKeeps

LEMMA TurnGoesOn ==
  ASSUME SessionsCtx, HandleAttached \/ TurnAnswers
  PROVE  SessionsParts' /\ OnesOwn'
<1> USE DEF SessionsCtx, SessionsParts
<1> DEFINE b == turn.branch  t == turn.thread
<1>1. /\ turn.at \in {"started", "running", "recover"} /\ b \in Branch /\ Open(b)
      /\ turn'.branch = b /\ turn'.thread = t
      /\ \/ turn.at = "started" /\ turn'.at = "attached"
         \/ turn.at = "running" /\ turn'.at = "answered"
         \/ turn.at = "recover" /\ turn'.at = "recovered"
  BY DEF HandleAttached, TurnAnswers, OpenInv, OnBranch, Stage, SessionsTypeOK
<1>2. Quiet /\ status' = status /\ loaded' \in {loaded, loaded \cup {t}}
  BY <1>1 DEF HandleAttached, TurnAnswers, Quiet, Answering, recordVars, runtimeTables, Open
<1>3. turn'.thread \in threads \cup {Nobody}
  BY <1>1 DEF ThreadsInv
<1>4. TurnInv'
  <2>1. /\ t # Nobody /\ history[t] = route[b]
        /\ session[b] \in {t, Nobody} /\ \A c \in Branch : c # b => session[c] # t
        /\ turn.at \in {"started", "running"} => Holds(t, b) /\ t \in loaded
        /\ turn.at = "running" => session[b] = t
        /\ turn.at = "recover" => unbooked \/ (session[b] = t /\ Holds(t, b))
    BY <1>1 DEF TurnInv, OnThread
  <2>2. threadOwner' = threadOwner /\ bound' = bound /\ session' = session /\ history' = history /\ route' = route
        /\ unbooked' = unbooked /\ loaded \subseteq loaded'
    BY <1>2 DEF Quiet
  <2> QED
    BY <1>1, <2>1, <2>2 DEF TurnInv, Holds
<1>5. ForkedInv' /\ ReadyInv' /\ OpenInv'
  BY <1>1, <1>2 DEF ForkedInv, ReadyInv, OpenInv, Open
<1> QED
  BY <1>2, <1>3, <1>4, <1>5, QuietKeeps

-----------------------------------------------------------------------------
(* A thread is opened for an alternative: it is told the route.            *)

ForkOpened(b, t, n) ==
    /\ t \in WriterThread /\ t \notin threads /\ b \in Branch /\ status[b] # "unborn" /\ n \in 1 .. Len(route[b])
    /\ turn.at \in {"idle", "resting"}
    /\ Opens(t, FirstOf(route[b], n), Unclaimed)
    /\ turn' = [Do("forked", b, t) EXCEPT !.anchor = n]
    /\ UNCHANGED <<recordVars, session, mark, bound, output, error, unbooked>>

LEMMA ForkOpenedKeeps ==
  ASSUME SessionsCtx, NEW b, NEW t, NEW n, ForkOpened(b, t, n)
  PROVE  SessionsParts' /\ OnesOwn'
<1> USE DEF SessionsCtx, SessionsParts
<1>1. /\ t \in WriterThread /\ t \notin threads /\ b \in Branch /\ status[b] # "unborn" /\ n \in 1 .. Len(route[b])
      /\ turn.at \in {"idle", "resting"} /\ t # Nobody
  BY SessionsAssumption DEF ForkOpened
<1>2. turn'.at = "forked" /\ turn'.branch = b /\ turn'.thread = t /\ turn'.anchor = n
  BY DEF ForkOpened, Do
<1>3. /\ route' = route /\ status' = status /\ decision' = decision /\ by' = by /\ again' = again
      /\ session' = session /\ mark' = mark /\ bound' = bound /\ output' = output /\ unbooked' = unbooked
  BY DEF ForkOpened, recordVars
<1>4. /\ threads' = threads \cup {t} /\ loaded' = loaded \cup {t}
      /\ history'[t] = FirstOf(route[b], n) /\ threadOwner'[t] = Unclaimed
      /\ \A u \in threads : history'[u] = history[u] /\ threadOwner'[u] = threadOwner[u] /\ (u \in loaded' <=> u \in loaded)
  BY <1>1 DEF ForkOpened, Opens, SessionsTypeOK
<1>5. /\ \A c \in Branch : session[c] \in threads \cup {Nobody} /\ session[c] # t
      /\ \A s \in Step : mark[s].thread \in threads \cup {Nobody}
  BY <1>1 DEF ThreadsInv
<1>6. OnesOwn' /\ UnbornInv' /\ ThreadsInv'
  BY <1>2, <1>3, <1>4, <1>5 DEF OnesOwn, UnbornInv, ThreadsInv
<1>7. MarkInv'
  BY <1>3, <1>4, <1>5 DEF MarkInv
<1>8. OutputInv'
  BY <1>3, <1>4, <1>5 DEF OutputInv
<1>9. SessionInv'
  <2> SUFFICES ASSUME NEW c \in Branch, session[c] # Nobody
               PROVE  /\ history'[session[c]] = route[c]
                      /\ Open(c) => Accepts(session[c], c)' \/ unbooked
                      /\ c \in again \/ route[c] # <<>>
    BY <1>3 DEF SessionInv, Open
  <2>1. session[c] \in threads
    BY <1>5
  <2>2. Accepts(session[c], c) => Accepts(session[c], c)'
    BY <1>3, <1>4, <2>1 DEF Accepts
  <2> QED
    BY <1>1, <1>4, <2>1, <2>2 DEF SessionInv
<1>10. BoundInv'
  BY <1>1, <1>3 DEF BoundInv
<1>11. ForkedInv'
  <2>1. route[b] # <<>>
    BY <1>1
  <2> QED
    BY <1>1, <1>2, <1>3, <1>4, <1>5, <2>1 DEF ForkedInv
<1>12. ReadyInv' /\ TurnInv' /\ OpenInv'
  BY <1>2 DEF ReadyInv, TurnInv, OpenInv, OnThread, OnBranch
<1> QED
  BY <1>6, <1>7, <1>8, <1>9, <1>10, <1>11, <1>12

LEMMA ForkMakes ==
  ASSUME SessionsCtx, NEW b \in Branch,
         ForksNatively(b) \/ ForksAnew(b) \/ \E n \in 1 .. Len(route[b]) : Directs(b, n)
  PROVE  SessionsParts' /\ OnesOwn'
<1> USE DEF SessionsCtx, SessionsParts
<1>1. route[b] \in Seq(Step) /\ status[b] \in {"unborn", "active", "paused", "closed"}
  BY DEF SessionsTypeOK
<1>2. status[b] = "unborn" => route[b] = <<>>
  BY DEF UnbornInv
<1>3. CASE ForksNatively(b)
  <2> DEFINE s == Tip(b)  m == mark[s]  n == Len(route[b])
  <2>1. Forking(b) /\ HasBookmark(s)
    BY <1>3 DEF ForksNatively, Readable
  <2>2. route[b] # <<>> /\ by[s] = b /\ m.thread # Nobody /\ turn.at = "idle"
    BY <2>1 DEF Forking, WantsFork, WroteTip, HasBookmark
  <2>3. n \in 1 .. Len(route[b]) /\ s = route[b][n] /\ s \in Step
    BY <1>1, <2>2 DEF Tip
  <2>4. /\ \A i \in 1 .. Len(route[b]) : route[b][i] = s => i = m.turn
        /\ FirstOf(history[m.thread], m.turn) = FirstOf(route[b], m.turn)
    BY <2>2, <2>3 DEF MarkInv
  <2>5. m.turn = n
    BY <2>3, <2>4
  <2>6. PICK t \in NextThread : Opens(t, FirstOf(history[m.thread], m.turn), Unclaimed) /\ ForkMade(b, t, n)
    BY <1>3 DEF ForksNatively
  <2>7. t \in WriterThread \ threads
    BY LeastIn DEF NextThread
  <2>8. ForkOpened(b, t, n)
    BY <1>2, <1>3, <2>2, <2>3, <2>4, <2>5, <2>6, <2>7 DEF ForkOpened, ForksNatively, ForkMade
  <2> QED
    BY <2>8, ForkOpenedKeeps
<1>4. ASSUME NEW n \in 1 .. Len(route[b]), Rehydrated(b, n), turn.at \in {"idle", "resting"}
      PROVE  SessionsParts' /\ OnesOwn'
  <2>1. PICK t \in NextThread : Opens(t, FirstOf(route[b], n), Unclaimed) /\ ForkMade(b, t, n)
    BY <1>4 DEF Rehydrated
  <2>2. t \in WriterThread \ threads /\ route[b] # <<>>
    BY <1>1, LeastIn DEF NextThread
  <2>3. ForkOpened(b, t, n)
    BY <1>2, <1>4, <2>1, <2>2 DEF ForkOpened, Rehydrated, ForkMade
  <2> QED
    BY <2>3, ForkOpenedKeeps
<1>5. CASE ForksAnew(b)
  <2>1. route[b] # <<>> /\ turn.at = "idle" /\ Rehydrated(b, Len(route[b]))
    BY <1>5 DEF ForksAnew, Forking, WantsFork, WroteTip
  <2>2. Len(route[b]) \in 1 .. Len(route[b])
    BY <1>1, <2>1
  <2> QED
    BY <1>4, <2>1, <2>2
<1>6. CASE \E n \in 1 .. Len(route[b]) : Directs(b, n)
  BY <1>4, <1>6 DEF Directs
<1> QED
  BY <1>3, <1>5, <1>6

(* The alternative's branch is born with what its thread was told.         *)
LEMMA ChildIsBorn ==
  ASSUME SessionsCtx, ChildCreated
  PROVE  SessionsParts' /\ OnesOwn'
<1> USE DEF SessionsCtx, SessionsParts
<1> DEFINE b == turn.branch  t == turn.thread  q == FirstOf(route[b], turn.anchor)
<1>1. PICK c \in NextBranch : /\ route' = [route EXCEPT ![c] = q]
                              /\ status' = [status EXCEPT ![c] = "active"]
                              /\ turn' = Do("child", c, t)
  BY DEF ChildCreated
<1>2. c \in Branch /\ status[c] = "unborn"
  BY LeastIn DEF NextBranch
<1>3. /\ b \in Branch /\ status[b] # "unborn" /\ t # Nobody
      /\ \A d \in Branch : session[d] # t
      /\ t \in loaded /\ threadOwner[t] = Unclaimed
      /\ turn.anchor \in 1 .. Len(route[b]) /\ history[t] = q
  BY DEF ForkedInv, ChildCreated
<1>4. q # <<>> /\ \A i \in 1 .. Len(q) : decision[q[i]] # "none"
  <2>1. route[b] \in Seq(Step)
    BY <1>3 DEF SessionsTypeOK
  <2>2. Len(q) = turn.anchor /\ \A i \in 1 .. turn.anchor : q[i] = route[b][i]
    BY <1>3, <2>1, FirstFacts
  <2> QED
    BY <1>3, <2>1, <2>2 DEF UnbornInv
<1>5. /\ decision' = decision /\ by' = by /\ again' = again /\ session' = session /\ mark' = mark
      /\ threads' = threads /\ history' = history /\ loaded' = loaded /\ threadOwner' = threadOwner
      /\ bound' = bound /\ output' = output /\ unbooked' = unbooked
  BY DEF ChildCreated, runtimeTables
<1>6. /\ route'[c] = q /\ status'[c] = "active" /\ session[c] = Nobody /\ bound[c] = Nobody /\ route[c] = <<>>
      /\ \A d \in Branch : d # c => route'[d] = route[d] /\ status'[d] = status[d]
      /\ turn'.at = "child" /\ turn'.branch = c /\ turn'.thread = t /\ turn.at = "forked"
  BY <1>1, <1>2 DEF SessionsTypeOK, UnbornInv, Do, ChildCreated
<1>7. OnesOwn' /\ ThreadsInv' /\ OutputInv'
  BY <1>5, <1>6 DEF OnesOwn, ThreadsInv, OutputInv
<1>8. UnbornInv'
  BY <1>4, <1>5, <1>6 DEF UnbornInv
<1>9. MarkInv'
  <2> SUFFICES ASSUME NEW s \in Step, mark[s].thread # Nobody
               PROVE  LET m == mark[s]  d == by[s] IN
                      /\ d \in Branch /\ m.turn \in 1 .. Len(route'[d]) /\ m.turn <= Len(history[m.thread])
                      /\ \A i \in 1 .. Len(route'[d]) : route'[d][i] = s => i = m.turn
                      /\ FirstOf(history[m.thread], m.turn) = FirstOf(route'[d], m.turn)
    BY <1>5 DEF MarkInv
  <2>1. by[s] # c
    BY <1>6 DEF MarkInv
  <2> QED
    BY <1>6, <2>1 DEF MarkInv
<1>10. SessionInv'
  <2> SUFFICES ASSUME NEW d \in Branch, session[d] # Nobody
               PROVE  /\ history[session[d]] = route'[d]
                      /\ Open(d)' => Accepts(session[d], d)' \/ unbooked
                      /\ d \in again \/ route'[d] # <<>>
    BY <1>5 DEF SessionInv
  <2>1. d # c /\ (Accepts(session[d], d) <=> Accepts(session[d], d)')
    BY <1>5, <1>6 DEF Accepts
  <2> QED
    BY <1>6, <2>1 DEF SessionInv, Open
<1>11. BoundInv'
  BY <1>5, <1>6 DEF BoundInv
<1>12. ForkedInv'
  BY <1>2, <1>3, <1>4, <1>5, <1>6 DEF ForkedInv
<1>13. ReadyInv' /\ TurnInv' /\ OpenInv'
  BY <1>2, <1>6 DEF ReadyInv, TurnInv, OpenInv, OnThread, Open
<1> QED
  BY <1>7, <1>8, <1>9, <1>10, <1>11, <1>12, <1>13

(* A session is noted for the branch of the turn.                          *)
LEMMA SessionIsNoted ==
  ASSUME SessionsCtx, ChildBooked \/ BranchBooked \/ SessionKept
  PROVE  SessionsParts' /\ OnesOwn'
<1> USE DEF SessionsCtx, SessionsParts
<1> DEFINE b == turn.branch  t == turn.thread
<1>1. /\ turn.at \in {"child", "attached", "marked"} /\ b \in Branch /\ Open(b)
      /\ t # Nobody /\ history[t] = route[b] /\ \A c \in Branch : c # b => session[c] # t
  <2>1. turn.at \in {"child", "attached", "marked"}
    BY DEF ChildBooked, BranchBooked, SessionKept
  <2> QED
    BY <2>1 DEF OpenInv, OnBranch, Stage, ForkedInv, TurnInv, OnThread
<1>2. /\ session' = [session EXCEPT ![b] = t]
      /\ route' = route /\ status' = status /\ decision' = decision /\ by' = by /\ again' = again /\ mark' = mark
      /\ threads' = threads /\ history' = history /\ loaded' = loaded /\ threadOwner' = threadOwner
      /\ bound' = bound /\ output' = output /\ unbooked' = unbooked
  BY DEF ChildBooked, BranchBooked, SessionKept, recordVars, runtimeTables
<1>3. session'[b] = t /\ \A c \in Branch : c # b => session'[c] = session[c]
  BY <1>1, <1>2 DEF SessionsTypeOK
<1>4. \/ turn'.at = "running" /\ turn'.branch = b /\ turn'.thread = t /\ turn.at = "attached"
      \/ turn'.at = "idle" /\ turn'.thread = Nobody /\ turn.at \in {"child", "marked"}
  BY DEF ChildBooked, BranchBooked, SessionKept, NoTurn, Do, SessionsTypeOK
<1>5. Accepts(t, b) \/ unbooked
  <2>1. CASE turn.at = "child"
    BY <2>1 DEF ForkedInv, Accepts
  <2>2. CASE turn.at = "attached"
    BY <2>2 DEF TurnInv, OnThread, Holds, Accepts
  <2>3. CASE turn.at = "marked"
    BY <2>3 DEF TurnInv, OnThread, Holds, Accepts
  <2> QED
    BY <1>1, <2>1, <2>2, <2>3
<1>6. turn.at \in {"child", "marked"} => route[b] # <<>>
  BY DEF ForkedInv, TurnInv, OnThread, WroteTip
<1>7. OnesOwn'
  BY <1>1, <1>3 DEF OnesOwn
<1>8. ThreadsInv'
  BY <1>2, <1>3, <1>4 DEF ThreadsInv
<1>9. UnbornInv'
  BY <1>1, <1>2, <1>3 DEF UnbornInv, Open
<1>10. MarkInv' /\ OutputInv'
  BY <1>2 DEF MarkInv, OutputInv
<1>11. SessionInv'
  <2> SUFFICES ASSUME NEW c \in Branch, session'[c] # Nobody
               PROVE  /\ history[session'[c]] = route[c]
                      /\ Open(c) => Accepts(session'[c], c) \/ unbooked
                      /\ c \in again \/ route[c] # <<>> \/ (turn'.branch = c /\ turn'.at \in Answering)
    BY <1>2 DEF SessionInv, Open, Answering, Accepts
  <2>1. CASE c = b
    BY <1>1, <1>3, <1>4, <1>5, <1>6, <2>1 DEF Answering
  <2>2. CASE c # b
    <3>1. session'[c] = session[c]
      BY <1>3, <2>2
    <3>2. turn.branch # c
      BY <2>2
    <3> QED
      BY <3>1, <3>2 DEF SessionInv
  <2> QED
    BY <2>1, <2>2
<1>12. BoundInv'
  <2> SUFFICES ASSUME NEW c \in Branch, bound[c] # Nobody
               PROVE  c \in again \/ route[c] # <<>> \/ (turn'.branch = c /\ turn'.at = "running")
    BY <1>2 DEF BoundInv
  <2> QED
    BY <1>4, <1>6 DEF BoundInv
<1>13. TurnInv'
  <2>1. turn.at = "attached" => Holds(t, b) /\ t \in loaded
    BY DEF TurnInv, OnThread
  <2> QED
    BY <1>1, <1>2, <1>3, <1>4, <2>1 DEF TurnInv, OnThread, Holds
<1>14. ForkedInv' /\ ReadyInv' /\ OpenInv'
  BY <1>1, <1>2, <1>4 DEF ForkedInv, ReadyInv, OpenInv, OnBranch, Open
<1> QED
  BY <1>7, <1>8, <1>9, <1>10, <1>11, <1>12, <1>13, <1>14

(* A fresh thread that is told the route becomes the session.              *)
LEMMA SessionIsRehydrated ==
  ASSUME SessionsCtx, SessionRehydrated
  PROVE  SessionsParts' /\ OnesOwn'
<1> USE DEF SessionsCtx, SessionsParts
<1> DEFINE b == turn.branch
<1>1. PICK t \in NextThread :
         /\ Opens(t, route[b], b) /\ bound' = Rebound(b, t)
         /\ session' = [session EXCEPT ![b] = t]
         /\ turn' = Do("ready", b, t)
  BY DEF SessionRehydrated
<1>2. /\ t \in WriterThread /\ t \notin threads /\ t # Nobody /\ b \in Branch /\ Open(b)
      /\ b \in again \/ route[b] # <<>>
  BY LeastIn, SessionsAssumption DEF NextThread, SessionRehydrated, OpenInv, OnBranch, Stage
<1>3. /\ route' = route /\ status' = status /\ decision' = decision /\ by' = by /\ again' = again /\ mark' = mark
      /\ output' = output /\ unbooked' = unbooked
  BY DEF SessionRehydrated, recordVars
<1>4. /\ session'[b] = t /\ bound'[b] = t
      /\ \A c \in Branch : c # b => session'[c] = session[c] /\ bound'[c] = bound[c]
      /\ turn'.at = "ready" /\ turn'.branch = b /\ turn'.thread = t /\ turn.at = "called"
  BY <1>1, <1>2 DEF SessionsTypeOK, Rebound, Do, SessionRehydrated
<1>5. /\ threads' = threads \cup {t} /\ loaded' = loaded \cup {t}
      /\ history'[t] = route[b] /\ threadOwner'[t] = b
      /\ \A u \in threads : history'[u] = history[u] /\ threadOwner'[u] = threadOwner[u] /\ (u \in loaded' <=> u \in loaded)
  BY <1>1, <1>2 DEF Opens, SessionsTypeOK
<1>6. /\ \A c \in Branch : session[c] \in threads \cup {Nobody} /\ session[c] # t
      /\ \A s \in Step : mark[s].thread \in threads \cup {Nobody}
  BY <1>2 DEF ThreadsInv
<1>7. OnesOwn' /\ ThreadsInv'
  BY <1>2, <1>3, <1>4, <1>5, <1>6 DEF OnesOwn, ThreadsInv
<1>8. UnbornInv'
  BY <1>2, <1>3, <1>4 DEF UnbornInv, Open
<1>9. MarkInv'
  BY <1>3, <1>5, <1>6 DEF MarkInv
<1>10. OutputInv'
  BY <1>3, <1>5, <1>6 DEF OutputInv
<1>11. SessionInv'
  <2> SUFFICES ASSUME NEW c \in Branch, session'[c] # Nobody
               PROVE  /\ history'[session'[c]] = route[c]
                      /\ Open(c) => (Accepts(session[c], c))' \/ unbooked
                      /\ c \in again \/ route[c] # <<>>
    BY <1>3 DEF SessionInv, Open
  <2>1. CASE c = b
    BY <1>2, <1>4, <1>5, <2>1 DEF Accepts
  <2>2. CASE c # b
    <3>1. session'[c] = session[c] /\ bound'[c] = bound[c] /\ session[c] \in threads
      BY <1>4, <1>6, <2>2
    <3>2. Accepts(session[c], c) => (Accepts(session[c], c))'
      BY <1>5, <3>1 DEF Accepts
    <3> QED
      BY <1>4, <1>5, <2>2, <3>1, <3>2 DEF SessionInv
  <2> QED
    BY <2>1, <2>2
<1>12. BoundInv'
  BY <1>2, <1>3, <1>4 DEF BoundInv
<1>13. ForkedInv' /\ ReadyInv' /\ TurnInv' /\ OpenInv'
  BY <1>2, <1>3, <1>4 DEF ForkedInv, ReadyInv, TurnInv, OpenInv, OnThread, Open
<1> QED
  BY <1>7, <1>8, <1>9, <1>10, <1>11, <1>12, <1>13

(* A turn starts on the session of its branch ...                          *)
LEMMA TurnIsStarted ==
  ASSUME SessionsCtx, TurnStarts
  PROVE  SessionsParts' /\ OnesOwn'
<1> USE DEF SessionsCtx, SessionsParts
<1> DEFINE b == turn.branch  t == turn.thread
<1>1. /\ turn.at = "ready" /\ b \in Branch /\ Open(b) /\ t # Nobody /\ t \in threads /\ t \in WriterThread /\ session[b] = t
      /\ history[t] = route[b] /\ Accepts(t, b) /\ \A c \in Branch : c # b => session[c] # t
  <2>1. turn.at = "ready" /\ t # Nobody /\ Accepts(t, b)
    BY DEF TurnStarts
  <2>2. b \in Branch /\ Open(b) /\ session[b] = t /\ t \in threads
    BY <2>1 DEF OpenInv, OnBranch, Stage, ReadyInv, ThreadsInv
  <2> QED
    BY <2>1, <2>2 DEF SessionInv, OnesOwn, SessionsTypeOK
<1>2. /\ route' = route /\ status' = status /\ decision' = decision /\ by' = by /\ again' = again
      /\ session' = session /\ mark' = mark /\ threads' = threads /\ history' = history
      /\ output' = output /\ unbooked' = unbooked /\ loaded' = loaded \cup {t}
  BY DEF TurnStarts, recordVars
<1>3. /\ threadOwner'[t] = b /\ bound'[b] = t
      /\ \A u \in WriterThread : u # t => threadOwner'[u] = threadOwner[u]
      /\ \A c \in Branch : c # b => bound'[c] = bound[c]
  BY <1>1 DEF TurnStarts, SessionsTypeOK
<1>4. turn'.at = "started" /\ turn'.branch = b /\ turn'.thread = t
  BY DEF TurnStarts, SessionsTypeOK
<1>5. threadOwner[t] \in {b, Unclaimed}
  BY <1>1 DEF Accepts
<1>6. OnesOwn' /\ ThreadsInv' /\ MarkInv'
  BY <1>1, <1>2, <1>4 DEF OnesOwn, ThreadsInv, MarkInv
<1>7. UnbornInv'
  BY <1>1, <1>2, <1>3 DEF UnbornInv, Open
<1>8. OutputInv'
  <2> SUFFICES ASSUME NEW s \in Step, mark[s].thread # Nobody, ~unbooked
               PROVE  /\ output[s] = "live" => threadOwner'[mark[s].thread] = by[s]
                      /\ output[s] = "recovered" => threadOwner'[mark[s].thread] \in Branch
    BY <1>2 DEF OutputInv
  <2>1. mark[s].thread \in WriterThread /\ by[s] \in Branch
    BY DEF MarkInv, ThreadsInv, SessionsTypeOK
  <2>2. Unclaimed \notin Branch
    BY SessionsAssumption
  <2> QED
    BY <1>1, <1>3, <1>5, <2>1, <2>2 DEF OutputInv
<1>9. SessionInv'
  <2> SUFFICES ASSUME NEW c \in Branch, session[c] # Nobody
               PROVE  /\ history[session[c]] = route[c]
                      /\ Open(c) => Accepts(session[c], c)' \/ unbooked
                      /\ c \in again \/ route[c] # <<>>
    BY <1>2 DEF SessionInv, Open
  <2>1. CASE c = b
    BY <1>1, <1>2, <1>3, <2>1 DEF Accepts, SessionInv
  <2>2. CASE c # b
    <3>1. session[c] \in WriterThread /\ session[c] # t
      BY <1>1, <2>2 DEF SessionsTypeOK
    <3>2. Accepts(session[c], c) => Accepts(session[c], c)'
      BY <1>2, <1>3, <2>2, <3>1 DEF Accepts
    <3> QED
      BY <1>1, <3>2 DEF SessionInv
  <2> QED
    BY <2>1, <2>2
<1>10. BoundInv'
  BY <1>1, <1>2, <1>3, <1>4 DEF BoundInv
<1>11. TurnInv'
  BY <1>1, <1>2, <1>3, <1>4 DEF TurnInv, Holds
<1>12. ForkedInv' /\ ReadyInv' /\ OpenInv'
  BY <1>1, <1>2, <1>4 DEF ForkedInv, ReadyInv, OpenInv, Open
<1> QED
  BY <1>6, <1>7, <1>8, <1>9, <1>10, <1>11, <1>12

(* ... or, the first of the root, on a thread of its own.                  *)
LEMMA FirstTurnIsStarted ==
  ASSUME SessionsCtx, FirstTurnStarts
  PROVE  SessionsParts' /\ OnesOwn'
<1> USE DEF SessionsCtx, SessionsParts
<1> DEFINE b == turn.branch
<1>1. PICK t \in NextThread : /\ Opens(t, <<>>, b)
                              /\ bound' = [bound EXCEPT ![b] = t]
                              /\ turn' = Do("started", b, t)
  BY DEF FirstTurnStarts
<1>2. /\ t \in WriterThread /\ t \notin threads /\ t # Nobody /\ b \in Branch /\ Open(b)
      /\ route[b] = <<>> /\ session[b] = Nobody
  BY LeastIn, SessionsAssumption DEF NextThread, FirstTurnStarts, OpenInv, OnBranch, Stage, ReadyInv
<1>3. /\ route' = route /\ status' = status /\ decision' = decision /\ by' = by /\ again' = again /\ mark' = mark
      /\ session' = session /\ output' = output /\ unbooked' = unbooked
  BY DEF FirstTurnStarts, recordVars
<1>4. /\ bound'[b] = t /\ \A c \in Branch : c # b => bound'[c] = bound[c]
      /\ turn'.at = "started" /\ turn'.branch = b /\ turn'.thread = t /\ turn.at = "ready"
  BY <1>1, <1>2 DEF SessionsTypeOK, Do, FirstTurnStarts
<1>5. /\ threads' = threads \cup {t} /\ loaded' = loaded \cup {t}
      /\ history'[t] = <<>> /\ threadOwner'[t] = b
      /\ \A u \in threads : history'[u] = history[u] /\ threadOwner'[u] = threadOwner[u] /\ (u \in loaded' <=> u \in loaded)
  BY <1>1, <1>2 DEF Opens, SessionsTypeOK
<1>6. /\ \A c \in Branch : session[c] \in threads \cup {Nobody} /\ session[c] # t
      /\ \A s \in Step : mark[s].thread \in threads \cup {Nobody}
  BY <1>2 DEF ThreadsInv
<1>7. OnesOwn' /\ ThreadsInv'
  BY <1>3, <1>4, <1>5, <1>6 DEF OnesOwn, ThreadsInv
<1>8. UnbornInv'
  BY <1>2, <1>3, <1>4 DEF UnbornInv, Open
<1>9. MarkInv'
  BY <1>3, <1>5, <1>6 DEF MarkInv
<1>10. OutputInv'
  BY <1>3, <1>5, <1>6 DEF OutputInv
<1>11. SessionInv'
  <2> SUFFICES ASSUME NEW c \in Branch, session[c] # Nobody
               PROVE  /\ history'[session[c]] = route[c]
                      /\ Open(c) => Accepts(session[c], c)' \/ unbooked
                      /\ c \in again \/ route[c] # <<>>
    BY <1>3 DEF SessionInv, Open
  <2>1. c # b /\ session[c] \in threads
    BY <1>2, <1>6
  <2>2. Accepts(session[c], c) => Accepts(session[c], c)'
    BY <1>3, <1>4, <1>5, <2>1 DEF Accepts
  <2> QED
    BY <1>4, <1>5, <2>1, <2>2 DEF SessionInv
<1>12. BoundInv'
  BY <1>2, <1>3, <1>4 DEF BoundInv
<1>13. TurnInv'
  BY <1>2, <1>3, <1>4, <1>5, <1>6 DEF TurnInv, Holds
<1>14. ForkedInv' /\ ReadyInv' /\ OpenInv'
  BY <1>2, <1>3, <1>4 DEF ForkedInv, ReadyInv, OpenInv, Open
<1> QED
  BY <1>7, <1>8, <1>9, <1>10, <1>11, <1>12, <1>13, <1>14

(* A sealed step is new, and on the route and the thread alike.            *)
LEMMA StepIsSealed ==
  ASSUME SessionsCtx, NEW d \in {"go", "fork", "complete"}, StepSealed(d)
  PROVE  SessionsParts' /\ OnesOwn'
<1> USE DEF SessionsCtx, SessionsParts
<1> DEFINE b == turn.branch  t == turn.thread
<1>1. PICK s \in NextStep :
         /\ route' = [route EXCEPT ![b] = Append(@, s)]
         /\ history' = [history EXCEPT ![t] = Append(@, s)]
         /\ decision' = [decision EXCEPT ![s] = d] /\ by' = [by EXCEPT ![s] = b]
         /\ again' = again \ {b}
         /\ output' = [output EXCEPT ![s] = CASE turn.at = "answered" -> "live"
                                              [] turn.at = "recovered" -> "recovered"
                                              [] OTHER -> "none"]
         /\ turn' = IF turn.at = "unsealed" THEN NoTurn ELSE Do("sealed", b, t)
  BY DEF StepSealed
<1>2. /\ s \in Step /\ decision[s] = "none" /\ mark[s].thread = Nobody
      /\ turn.at \in {"answered", "recovered", "unsealed"}
  BY LeastIn DEF NextStep, StepSealed, HasAnswer, UnbornInv
<1>3. /\ b \in Branch /\ Open(b) /\ t # Nobody /\ t \in threads /\ t \in WriterThread /\ history[t] = route[b]
      /\ session[b] \in {t, Nobody} /\ \A c \in Branch : c # b => session[c] # t
      /\ turn.at \in {"answered", "recovered"} => unbooked \/ (session[b] = t /\ Holds(t, b))
  BY <1>2 DEF OpenInv, OnBranch, Stage, TurnInv, OnThread, ThreadsInv, SessionsTypeOK
<1>4. /\ route[b] \in Seq(Step) /\ history[t] \in Seq(Step)
      /\ \A c \in Branch : route[c] \in Seq(Step)
      /\ \A u \in WriterThread : history[u] \in Seq(Step)
  BY <1>3 DEF SessionsTypeOK
<1>5. /\ route'[b] = Append(route[b], s) /\ history'[t] = Append(history[t], s)
      /\ \A c \in Branch : c # b => route'[c] = route[c]
      /\ \A u \in WriterThread : u # t => history'[u] = history[u]
      /\ decision'[s] = d /\ by'[s] = b /\ d # "none"
      /\ \A x \in Step : x # s => decision'[x] = decision[x] /\ by'[x] = by[x] /\ output'[x] = output[x]
  BY <1>1, <1>2, <1>3 DEF SessionsTypeOK
<1>6. /\ status' = status /\ session' = session /\ mark' = mark /\ threads' = threads /\ loaded' = loaded
      /\ threadOwner' = threadOwner /\ bound' = bound /\ unbooked' = unbooked
  BY DEF StepSealed
<1>7. /\ Len(route'[b]) = Len(route[b]) + 1 /\ Len(route[b]) \in Nat /\ route'[b] # <<>> /\ route'[b][Len(route'[b])] = s
      /\ \A i \in 1 .. Len(route[b]) : route'[b][i] = route[b][i] /\ route[b][i] # s
  <2>1. \A i \in 1 .. Len(route[b]) : route[b][i] # s
    BY <1>2, <1>3 DEF UnbornInv
  <2>2. /\ Append(route[b], s) # <<>>
        /\ Len(route[b]) \in Nat /\ Len(Append(route[b], s)) = Len(route[b]) + 1 /\ Append(route[b], s)[Len(route[b]) + 1] = s
        /\ \A i \in 1 .. Len(route[b]) : Append(route[b], s)[i] = route[b][i]
    <3> HIDE DEF b
    <3> QED
      BY <1>2, <1>4, AppendFacts
  <2>3. route'[b] = Append(route[b], s)
    BY <1>5
  <2> QED
    BY <2>1, <2>2, <2>3
<1>8. OnesOwn' /\ ThreadsInv'
  BY <1>1, <1>6 DEF OnesOwn, ThreadsInv, NoTurn, Do
<1>9. UnbornInv'
  <2>1. \A c \in Branch : \A i \in 1 .. Len(route'[c]) : decision'[route'[c][i]] # "none"
    <3> SUFFICES ASSUME NEW c \in Branch, NEW i \in 1 .. Len(route'[c]) PROVE decision'[route'[c][i]] # "none"
      OBVIOUS
    <3>1. CASE c = b /\ i = Len(route'[b])
      BY <1>5, <1>7, <3>1
    <3>2. CASE c = b /\ i # Len(route'[b])
      <4>1. i \in 1 .. Len(route[b])
        BY <1>7, <3>2
      <4>2. route[b][i] \in Step
        BY <1>4, <4>1
      <4>3. decision[route[b][i]] # "none"
        BY <1>3, <4>1 DEF UnbornInv
      <4>4. route'[b][i] = route[b][i] /\ route[b][i] # s
        BY <1>7, <4>1
      <4>5. decision'[route[b][i]] = decision[route[b][i]]
        BY <1>5, <4>2, <4>4
      <4> QED
        BY <3>2, <4>3, <4>4, <4>5
    <3>3. CASE c # b
      <4>1. route'[c] = route[c] /\ i \in 1 .. Len(route[c])
        BY <1>5, <3>3
      <4>2. route[c][i] \in Step /\ decision[route[c][i]] # "none"
        BY <1>4, <4>1 DEF UnbornInv
      <4> QED
        BY <1>2, <1>5, <4>1, <4>2
    <3> QED
      BY <3>1, <3>2, <3>3
  <2>2. \A c \in Branch : status[c] = "unborn" => c # b
    BY <1>3 DEF Open
  <2> QED
    BY <1>5, <1>6, <2>1, <2>2 DEF UnbornInv
<1>10. MarkInv'
  <2>1. ASSUME NEW x \in Step, mark[x].thread # Nobody,
               NEW c, c = by[x], NEW m, m = mark[x].turn, NEW u, u = mark[x].thread
        PROVE  /\ c \in Branch /\ m \in 1 .. Len(route'[c]) /\ m <= Len(history'[u])
               /\ \A i \in 1 .. Len(route'[c]) : route'[c][i] = x => i = m
               /\ FirstOf(history'[u], m) = FirstOf(route'[c], m)
    <3>1. /\ c \in Branch /\ m \in 1 .. Len(route[c]) /\ m <= Len(history[u])
          /\ \A i \in 1 .. Len(route[c]) : route[c][i] = x => i = m
          /\ FirstOf(history[u], m) = FirstOf(route[c], m)
          /\ x # s /\ u \in WriterThread
      BY <1>2, <2>1 DEF MarkInv, SessionsTypeOK
    <3>2. /\ Len(route'[c]) >= Len(route[c]) /\ FirstOf(route'[c], m) = FirstOf(route[c], m)
          /\ \A i \in 1 .. Len(route'[c]) : route'[c][i] = x => i \in 1 .. Len(route[c]) /\ route[c][i] = x
          /\ Len(route[c]) \in Nat /\ Len(route'[c]) \in Nat
      <4>1. CASE c = b
        <5>1. m \in 0 .. Len(route[b])
          BY <3>1, <4>1
        <5>2. FirstOf(Append(route[b], s), m) = FirstOf(route[b], m)
          BY <1>2, <1>4, <5>1, FirstOfMore
        <5>3. ASSUME NEW i \in 1 .. Len(route'[b]), route'[b][i] = x PROVE i \in 1 .. Len(route[b]) /\ route[b][i] = x
          <6>1. i # Len(route'[b])
            BY <1>7, <3>1, <5>3
          <6>2. i \in 1 .. Len(route[b])
            BY <1>7, <6>1
          <6> QED
            BY <1>7, <5>3, <6>2
        <5>4. route'[c] = Append(route[b], s) /\ route[c] = route[b]
          BY <1>5, <4>1
        <5> QED
          BY <1>7, <4>1, <5>2, <5>3, <5>4
      <4>2. CASE c # b
        <5>1. route'[c] = route[c] /\ route[c] \in Seq(Step)
          BY <1>4, <1>5, <3>1, <4>2
        <5> QED
          BY <5>1
      <4> QED
        BY <4>1, <4>2
    <3>3. /\ Len(history'[u]) >= Len(history[u]) /\ FirstOf(history'[u], m) = FirstOf(history[u], m)
          /\ Len(history[u]) \in Nat /\ Len(history'[u]) \in Nat
      <4>1. CASE u = t
        <5>1. m \in 0 .. Len(history[t])
          BY <1>4, <3>1, <4>1
        <5>2. FirstOf(Append(history[t], s), m) = FirstOf(history[t], m)
          BY <1>2, <1>4, <5>1, FirstOfMore
        <5>3. history'[u] = Append(history[t], s) /\ history[u] = history[t] /\ history[t] \in Seq(Step)
          BY <1>4, <1>5, <4>1
        <5>4. Len(history'[u]) = Len(history[u]) + 1 /\ Len(history[u]) \in Nat
          BY <1>2, <5>3, AppendFacts
        <5> QED
          BY <5>2, <5>3, <5>4
      <4>2. CASE u # t
        <5>1. history'[u] = history[u] /\ history[u] \in Seq(Step)
          BY <1>4, <1>5, <3>1, <4>2
        <5> QED
          BY <5>1
      <4> QED
        BY <4>1, <4>2
    <3> QED
      BY <3>1, <3>2, <3>3
  <2>2. mark' = mark /\ \A x \in Step : mark[x].thread # Nobody => by'[x] = by[x]
    BY <1>2, <1>5, <1>6
  <2> QED
    BY <2>1, <2>2 DEF MarkInv
<1>11. OutputInv'
  BY <1>2, <1>5, <1>6 DEF OutputInv
<1>12. SessionInv'
  <2> SUFFICES ASSUME NEW c \in Branch, session[c] # Nobody
               PROVE  /\ history'[session[c]] = route'[c]
                      /\ Open(c) => Accepts(session[c], c) \/ unbooked
                      /\ c \in again' \/ route'[c] # <<>>
    BY <1>6 DEF SessionInv, Open, Accepts
  <2>1. CASE c = b
    BY <1>3, <1>5, <1>7, <2>1 DEF SessionInv
  <2>2. CASE c # b
    <3>1. session[c] \in WriterThread /\ session[c] # t
      BY <1>3, <2>2 DEF SessionsTypeOK
    <3> QED
      BY <1>1, <1>5, <2>2, <3>1 DEF SessionInv
  <2> QED
    BY <2>1, <2>2
<1>13. BoundInv'
  BY <1>1, <1>5, <1>6, <1>7 DEF BoundInv
<1>14. CASE turn.at = "unsealed"
  <2>1. turn'.at = "idle"
    BY <1>1, <1>14 DEF NoTurn, Do
  <2>2. ForkedInv' /\ ReadyInv' /\ TurnInv' /\ OpenInv'
    BY <2>1 DEF ForkedInv, ReadyInv, TurnInv, OpenInv, OnThread, OnBranch
  <2> QED
    BY <1>8, <1>9, <1>10, <1>11, <1>12, <1>13, <2>2
<1>15. CASE turn.at # "unsealed"
  <2>1. turn'.at = "sealed" /\ turn'.branch = b /\ turn'.thread = t
    BY <1>1, <1>15 DEF Do
  <2>2. (WroteTip(b) /\ \A i \in 1 .. Len(route[b]) : route[b][i] = Tip(b) => i = Len(route[b]))'
    <3>1. b' = b
      BY <2>1
    <3>2. Tip(b)' = s
      BY <1>7, <3>1 DEF Tip
    <3>3. \A i \in 1 .. Len(route'[b]) : route'[b][i] = s => i = Len(route'[b])
      BY <1>7
    <3> QED
      BY <1>5, <1>7, <3>1, <3>2, <3>3 DEF WroteTip
  <2>3. TurnInv'
    BY <1>2, <1>3, <1>5, <1>6, <1>15, <2>1, <2>2 DEF TurnInv, Holds
  <2>4. ForkedInv' /\ ReadyInv' /\ OpenInv'
    BY <1>3, <1>6, <2>1 DEF ForkedInv, ReadyInv, OpenInv, Open
  <2> QED
    BY <1>8, <1>9, <1>10, <1>11, <1>12, <1>13, <2>3, <2>4
<1> QED
  BY <1>14, <1>15

(* The thread and turn of a step are noted while both end with it.         *)
LEMMA StepIsMarked ==
  ASSUME SessionsCtx, StepMarked
  PROVE  SessionsParts' /\ OnesOwn'
<1> USE DEF SessionsCtx, SessionsParts
<1> DEFINE b == turn.branch  t == turn.thread  s == Tip(b)  n == Len(route[b])
<1>1. /\ turn.at = "sealed" /\ b \in Branch /\ Open(b) /\ t # Nobody /\ t \in threads /\ history[t] = route[b]
      /\ WroteTip(b) /\ \A i \in 1 .. n : route[b][i] = s => i = n
      /\ unbooked \/ Holds(t, b)
  BY DEF StepMarked, OpenInv, OnBranch, Stage, TurnInv, OnThread, ThreadsInv
<1>2. n \in 1 .. n /\ s = route[b][n] /\ s \in Step /\ by[s] = b
  <2>1. route[b] \in Seq(Step) /\ route[b] # <<>> /\ by[s] = b
    BY <1>1 DEF SessionsTypeOK, WroteTip
  <2> QED
    BY <2>1 DEF Tip
<1>3. /\ mark'[s].thread = t /\ mark'[s].turn = n
      /\ \A x \in Step : x # s => mark'[x] = mark[x]
  BY <1>1, <1>2 DEF StepMarked, SessionsTypeOK
<1>4. turn'.at = "marked" /\ turn'.branch = b /\ turn'.thread = t
  BY DEF StepMarked, SessionsTypeOK
<1>5. /\ route' = route /\ status' = status /\ decision' = decision /\ by' = by /\ again' = again
      /\ session' = session /\ threads' = threads /\ history' = history /\ loaded' = loaded
      /\ threadOwner' = threadOwner /\ bound' = bound /\ output' = output /\ unbooked' = unbooked
  BY DEF StepMarked, recordVars, runtimeTables
<1>6. OnesOwn' /\ ThreadsInv'
  BY <1>1, <1>3, <1>4, <1>5 DEF OnesOwn, ThreadsInv
<1>7. UnbornInv'
  <2>1. decision[s] # "none"
    BY <1>1, <1>2 DEF UnbornInv
  <2> QED
    BY <1>3, <1>5, <2>1 DEF UnbornInv
<1>8. MarkInv'
  <2> SUFFICES ASSUME NEW x \in Step, mark'[x].thread # Nobody
               PROVE  LET m == mark'[x]  c == by[x] IN
                      /\ c \in Branch /\ m.turn \in 1 .. Len(route[c]) /\ m.turn <= Len(history[m.thread])
                      /\ \A i \in 1 .. Len(route[c]) : route[c][i] = x => i = m.turn
                      /\ FirstOf(history[m.thread], m.turn) = FirstOf(route[c], m.turn)
    BY <1>5 DEF MarkInv
  <2>1. CASE x = s
    <3>1. mark'[x].thread = t /\ mark'[x].turn = n /\ by[x] = b
      BY <1>2, <1>3, <2>1
    <3>2. \A i \in 1 .. n : route[b][i] = x => i = n
      BY <1>1, <2>1
    <3>3. n \in Nat /\ n <= Len(history[t]) /\ FirstOf(history[t], n) = FirstOf(route[b], n)
      BY <1>1, <1>2
    <3> QED
      BY <1>1, <1>2, <3>1, <3>2, <3>3
  <2>2. CASE x # s
    BY <1>3, <2>2 DEF MarkInv
  <2> QED
    BY <2>1, <2>2
<1>9. OutputInv'
  BY <1>1, <1>2, <1>3, <1>5 DEF OutputInv, Holds
<1>10. SessionInv' /\ BoundInv'
  BY <1>1, <1>4, <1>5 DEF SessionInv, BoundInv, Open, Accepts
<1>11. TurnInv'
  BY <1>1, <1>4, <1>5 DEF TurnInv, OnThread, Holds, WroteTip, Tip
<1>12. ForkedInv' /\ ReadyInv' /\ OpenInv'
  BY <1>1, <1>4, <1>5 DEF ForkedInv, ReadyInv, OpenInv, Open
<1> QED
  BY <1>6, <1>7, <1>8, <1>9, <1>10, <1>11, <1>12

(* A revision opens a branch without a session.                            *)
LEMMA RevisionReroutes ==
  ASSUME SessionsCtx, NEW b \in Branch, NEW n \in 1 .. Len(route[b]), NEW d \in {"revise", "human"}, NEW after,
         Reroute(b, n, d, after), after \in {"closed", status[b]},
         turn.at = "resting" \/ (turn.at \in {"answered", "recovered", "unsealed"} /\ turn.branch = b)
  PROVE  SessionsParts' /\ OnesOwn'
<1> USE DEF SessionsCtx, SessionsParts
<1>1. PICK c \in NextBranch, s \in NextStep :
         /\ route' = [route EXCEPT ![c] = Append(FirstOf(route[b], n - 1), s)]
         /\ status' = [status EXCEPT ![b] = after, ![c] = "active"]
         /\ decision' = [decision EXCEPT ![s] = d] /\ by' = [by EXCEPT ![s] = c]
  BY DEF Reroute
<1>2. /\ c \in Branch /\ status[c] = "unborn" /\ s \in Step /\ decision[s] = "none" /\ mark[s].thread = Nobody
      /\ session[c] = Nobody /\ bound[c] = Nobody /\ route[c] = <<>>
  BY LeastIn DEF NextBranch, NextStep, UnbornInv
<1>3. /\ forked' = forked /\ again' = again /\ session' = session /\ mark' = mark /\ threads' = threads /\ history' = history
      /\ loaded' = loaded /\ threadOwner' = threadOwner /\ bound' = bound /\ output' = output /\ unbooked' = unbooked
      /\ turn'.at = "idle" /\ turn'.thread = Nobody
  BY DEF Reroute, NoTurn, Do, runtimeTables
<1>4. route[b] \in Seq(Step) /\ route[b] # <<>> /\ b # c /\ status[b] # "unborn"
  <2>1. route[b] \in Seq(Step)
    BY DEF SessionsTypeOK
  <2>2. route[b] # <<>>
    BY <2>1
  <2> QED
    BY <1>2, <2>1, <2>2 DEF UnbornInv
<1> DEFINE q == FirstOf(route[b], n - 1)
<1>5. q \in Seq(Step) /\ Len(q) = n - 1 /\ \A i \in 1 .. n - 1 : q[i] = route[b][i] /\ i \in 1 .. Len(route[b])
  <2>1. n - 1 \in 0 .. Len(route[b])
    BY <1>4
  <2> QED
    BY <1>4, <2>1, FirstFacts
<1>6. /\ route'[c] = Append(q, s) /\ \A x \in Branch : x # c => route'[x] = route[x]
      /\ status'[c] = "active" /\ status'[b] = after /\ \A x \in Branch : x \notin {b, c} => status'[x] = status[x]
      /\ decision'[s] = d /\ by'[s] = c /\ d # "none"
      /\ \A x \in Step : x # s => decision'[x] = decision[x] /\ by'[x] = by[x]
  BY <1>1, <1>2, <1>4 DEF SessionsTypeOK
<1>7. \A x \in Branch : x # c => /\ status'[x] = "unborn" => status[x] = "unborn"
                                 /\ status'[x] \in {"active", "paused"} => Open(x)
  BY <1>4, <1>6 DEF Open
<1>8. OnesOwn' /\ ThreadsInv'
  BY <1>3 DEF OnesOwn, ThreadsInv
<1>9. UnbornInv'
  <2>1. \A x \in Branch : \A i \in 1 .. Len(route[x]) : decision[route[x][i]] # "none" /\ route[x][i] # s /\ route[x][i] \in Step
    <3>1. \A x \in Branch : \A i \in 1 .. Len(route[x]) : decision[route[x][i]] # "none"
      BY DEF UnbornInv
    <3>2. \A x \in Branch : route[x] \in Seq(Step)
      BY DEF SessionsTypeOK
    <3> QED
      BY <1>2, <3>1, <3>2, ElementOfSeq
  <2>2. ASSUME NEW x \in Branch, NEW i \in 1 .. Len(route'[x]) PROVE decision'[route'[x][i]] # "none"
    <3>1. CASE x # c
      BY <1>6, <2>1, <2>2, <3>1
    <3>2. CASE x = c
      <4>1. (i \in 1 .. n - 1 /\ route'[c][i] = q[i]) \/ route'[c][i] = s
        BY <1>2, <1>5, <1>6, <2>2, <3>2
      <4> QED
        BY <1>5, <1>6, <2>1, <3>2, <4>1
    <3> QED
      BY <3>1, <3>2
  <2> QED
    BY <1>2, <1>3, <1>6, <1>7, <2>2 DEF UnbornInv
<1>10. MarkInv'
  <2> SUFFICES ASSUME NEW x \in Step, mark[x].thread # Nobody
               PROVE  by'[x] = by[x] /\ route'[by[x]] = route[by[x]]
    BY <1>3 DEF MarkInv
  <2>1. by[x] \in Branch /\ by[x] # c
    BY <1>2 DEF MarkInv
  <2> QED
    BY <1>2, <1>6, <2>1
<1>11. OutputInv'
  BY <1>2, <1>3, <1>6 DEF OutputInv
<1>12. SessionInv'
  <2> SUFFICES ASSUME NEW x \in Branch, session[x] # Nobody
               PROVE  /\ history[session[x]] = route'[x]
                      /\ status'[x] \in {"active", "paused"} => Accepts(session[x], x) \/ unbooked
                      /\ x \in again \/ route'[x] # <<>>
    BY <1>3 DEF SessionInv, Open, Accepts
  <2>1. x # c
    BY <1>2
  <2>2. x \in again \/ route[x] # <<>>
    BY <1>4 DEF SessionInv
  <2> QED
    BY <1>6, <1>7, <2>1, <2>2 DEF SessionInv
<1>13. BoundInv'
  <2> SUFFICES ASSUME NEW x \in Branch, bound[x] # Nobody
               PROVE  x \in again \/ route'[x] # <<>>
    BY <1>3 DEF BoundInv
  <2>1. x # c
    BY <1>2
  <2> QED
    BY <1>4, <1>6, <2>1 DEF BoundInv
<1>14. ForkedInv' /\ ReadyInv' /\ TurnInv' /\ OpenInv'
  BY <1>3 DEF ForkedInv, ReadyInv, TurnInv, OpenInv, OnThread, OnBranch
<1> QED
  BY <1>8, <1>9, <1>10, <1>11, <1>12, <1>13, <1>14

(* The runtime is given back once no branch is open.                       *)
LEMMA RuntimeRests ==
  ASSUME SessionsCtx, Rests
  PROVE  SessionsParts' /\ OnesOwn'
<1> USE DEF SessionsCtx, SessionsParts
<1>1. /\ route' = route /\ status' = status /\ decision' = decision /\ by' = by /\ again' = again /\ mark' = mark
      /\ session' = session /\ threads' = threads /\ history' = history /\ unbooked' = unbooked
      /\ turn'.at = "resting" /\ turn'.thread = Nobody /\ turn.at = "idle"
      /\ \A b \in Branch : ~Open(b) /\ bound'[b] = Nobody
      /\ \A s \in Step : output'[s] = "none"
  BY DEF Rests, Do, recordVars
<1>2. OnesOwn' /\ ThreadsInv' /\ UnbornInv' /\ MarkInv' /\ OutputInv'
  BY <1>1 DEF OnesOwn, ThreadsInv, UnbornInv, MarkInv, OutputInv
<1>3. SessionInv' /\ BoundInv'
  BY <1>1 DEF SessionInv, BoundInv, Open
<1>4. ForkedInv' /\ ReadyInv' /\ TurnInv' /\ OpenInv'
  BY <1>1 DEF ForkedInv, ReadyInv, TurnInv, OpenInv, OnThread, OnBranch
<1> QED
  BY <1>2, <1>3, <1>4

-----------------------------------------------------------------------------
(* A restart.                                                              *)

(* What becomes of the call that was in flight.                            *)
LEMMA TurnAfterRestart ==
  ASSUME SessionsTypeOK, turn' = AfterRestart
  PROVE  \/ turn'.at \in {"idle", "resting", "stuck"} /\ turn'.thread = Nobody /\ ~(turn.at \in Answering /\ Preserve)
         \/ turn'.at = "stuck" /\ turn' = turn
         \/ /\ turn'.at = "recover" /\ turn.at \in {"attached", "running", "recover"} /\ Preserve
            /\ turn'.branch = turn.branch /\ turn'.thread = turn.thread
         \/ /\ turn'.at = "unsealed" /\ turn.at \in {"answered", "recovered", "unsealed"}
            /\ turn'.branch = turn.branch /\ turn'.thread = turn.thread
<1>1. turn.at \in Stage /\ Preserve \in BOOLEAN
  BY SessionsAssumption DEF SessionsTypeOK
<1>2. CASE turn.at = "stuck"
  BY <1>2 DEF AfterRestart
<1>3. CASE turn.at \in {"called", "ready", "started"}
  BY <1>3 DEF AfterRestart, Do, Answering
<1>4. CASE turn.at \in {"attached", "running", "recover"}
  <2>1. turn' = IF Preserve THEN [turn EXCEPT !.at = "recover"] ELSE Do("stuck", turn.branch, Nobody)
    BY <1>4 DEF AfterRestart
  <2> QED
    BY <1>1, <1>4, <2>1 DEF Do, Answering, SessionsTypeOK
<1>5. CASE turn.at \in {"answered", "recovered", "unsealed"}
  <2>1. turn' = [turn EXCEPT !.at = "unsealed"]
    BY <1>5 DEF AfterRestart
  <2> QED
    BY <1>5, <2>1 DEF SessionsTypeOK
<1>6. CASE turn.at \in {"idle", "forked", "child", "tried", "sealed", "marked", "resting"}
  <2>1. turn' \in {NoTurn, Do("resting", Nobody, Nobody)}
    BY <1>6 DEF AfterRestart
  <2> QED
    BY <1>6, <2>1 DEF NoTurn, Do, Answering
<1> QED
  BY <1>1, <1>2, <1>3, <1>4, <1>5, <1>6 DEF Stage

LEMMA RestartKeeps ==
  ASSUME SessionsCtx, Restarts
  PROVE  SessionsParts' /\ OnesOwn'
<1> USE DEF SessionsCtx, SessionsParts
<1>1. /\ route' = route /\ status' = status /\ decision' = decision /\ by' = by /\ again' = again
      /\ threads' = threads /\ history' = history /\ loaded' = {} /\ Preserve \in BOOLEAN
      /\ \A s \in Step : output'[s] = "none"
      /\ unbooked' = (unbooked \/ (turn.at = "attached" /\ session[turn.branch] = Nobody))
  BY SessionsAssumption DEF Restarts, recordVars
<1>2. /\ Preserve => session' = session /\ mark' = mark
      /\ ~Preserve => /\ \A b \in Branch : session'[b] = Nobody
                      /\ \A s \in Step : mark'[s].thread = Nobody
  <2>1. DOMAIN session = Branch /\ DOMAIN mark = Step
    BY DEF SessionsTypeOK
  <2> QED
    BY <1>1, <2>1 DEF Restarts, Kept, Unmarked
<1>3. /\ live' => Preserve
      /\ Preserve => \A b \in Branch : Open(b) => live'
      /\ live' => bound' = session
      /\ ~live' => \A b \in Branch : bound'[b] = Nobody
      /\ live' \in BOOLEAN
  <2>1. live' = (Preserve /\ \E b \in Branch : Open(b))
    BY DEF Restarts
  <2>2. bound' = IF live' THEN session ELSE [b \in Branch |-> Nobody]
    BY DEF Restarts
  <2> QED
    BY <1>1, <2>1, <2>2
<1>4. ASSUME NEW b \in Branch, session[b] # Nobody, live' PROVE threadOwner'[session[b]] = b
  <2> DEFINE t == session[b]
  <2>1. t \in WriterThread
    BY <1>4 DEF SessionsTypeOK
  <2>2. \A c \in Branch : session[c] = t => c = b
    BY <1>4 DEF OnesOwn
  <2>3. threadOwner'[t] = CHOOSE c \in Branch : session[c] = t
    BY <1>4, <2>1 DEF Restarts
  <2> QED
    BY <2>2, <2>3
<1>5. turn' = AfterRestart
  BY DEF Restarts
<1> DEFINE b == turn.branch  t == turn.thread
<1>6. \/ turn'.at \in {"idle", "resting", "stuck"}
      \/ /\ turn'.at = "recover" /\ turn.at \in {"attached", "running", "recover"} /\ Preserve
         /\ turn'.branch = b /\ turn'.thread = t
      \/ /\ turn'.at = "unsealed" /\ turn.at \in {"answered", "recovered", "unsealed"}
         /\ turn'.branch = b /\ turn'.thread = t
  BY <1>5, TurnAfterRestart
<1>7. turn.at \in Answering /\ Preserve => turn'.at \in Answering /\ turn'.branch = b
  BY <1>5, TurnAfterRestart DEF Answering
<1>8. turn'.thread \in {Nobody, t}
  BY <1>5, TurnAfterRestart
<1>9. OnesOwn'
  BY <1>1, <1>2 DEF OnesOwn
<1>10. ThreadsInv'
  BY <1>1, <1>2, <1>8 DEF ThreadsInv
<1>11. UnbornInv'
  BY <1>1, <1>2, <1>3 DEF UnbornInv
<1>12. MarkInv' /\ OutputInv'
  BY <1>1, <1>2 DEF MarkInv, OutputInv
<1>13. SessionInv'
  <2> SUFFICES ASSUME NEW c \in Branch, session'[c] # Nobody
               PROVE  /\ history[session'[c]] = route[c]
                      /\ Open(c) => (Accepts(session[c], c))' \/ unbooked'
                      /\ c \in again \/ route[c] # <<>> \/ (turn'.branch = c /\ turn'.at \in Answering)
    BY <1>1 DEF SessionInv, Open, Answering
  <2>1. Preserve /\ session' = session /\ session[c] # Nobody
    BY <1>1, <1>2
  <2>2. Open(c) => (Accepts(session[c], c))'
    BY <1>1, <1>3, <1>4, <2>1 DEF Accepts
  <2> QED
    BY <1>7, <2>1, <2>2 DEF SessionInv, Answering
<1>14. BoundInv'
  <2> SUFFICES ASSUME NEW c \in Branch, bound'[c] # Nobody
               PROVE  c \in again \/ route[c] # <<>> \/ (turn'.branch = c /\ turn'.at \in Answering)
    BY <1>1 DEF BoundInv, Answering
  <2>1. live' /\ session[c] # Nobody
    BY <1>3
  <2> QED
    BY <1>3, <1>7, <2>1 DEF SessionInv, Answering
<1>15. ForkedInv' /\ ReadyInv'
  BY <1>6 DEF ForkedInv, ReadyInv
<1>16. OpenInv'
  BY <1>1, <1>6 DEF OpenInv, OnBranch, Stage, Open
<1>17. TurnInv'
  <2>1. CASE turn'.at \in {"idle", "resting", "stuck"}
    BY <2>1 DEF TurnInv, OnThread
  <2>2. CASE turn'.at = "unsealed"
    <3>1. turn'.branch = b /\ turn'.thread = t /\ turn.at \in OnThread
      BY <1>6, <2>2 DEF OnThread
    <3>2. b \in Branch
      BY <3>1 DEF OpenInv, OnThread, OnBranch, Stage
    <3> QED
      BY <1>1, <1>2, <2>2, <3>1, <3>2 DEF TurnInv
  <2>3. CASE turn'.at = "recover"
    <3>1. turn'.branch = b /\ turn'.thread = t /\ turn.at \in {"attached", "running", "recover"} /\ Preserve
      BY <1>6, <2>3
    <3>2. /\ b \in Branch /\ Open(b) /\ t # Nobody /\ history[t] = route[b]
          /\ session[b] \in {t, Nobody} /\ \A c \in Branch : c # b => session[c] # t
          /\ turn.at = "running" => session[b] = t
          /\ turn.at = "recover" => unbooked \/ session[b] = t
      BY <3>1 DEF OpenInv, OnBranch, Stage, TurnInv, OnThread
    <3>3. live' /\ bound'[b] = session[b]
      BY <1>3, <3>1, <3>2
    <3>4. unbooked' \/ (session[b] = t /\ threadOwner'[t] = b)
      BY <1>1, <1>4, <3>1, <3>2, <3>3
    <3> QED
      BY <1>1, <1>2, <2>3, <3>1, <3>2, <3>3, <3>4 DEF TurnInv, Holds
  <2> QED
    BY <1>6, <2>1, <2>2, <2>3
<1> QED
  BY <1>9, <1>10, <1>11, <1>12, <1>13, <1>14, <1>15, <1>16, <1>17

-----------------------------------------------------------------------------
(* The variables keep their types.                                         *)

TurnTypes == [at : Stage, branch : Branch \cup {Nobody}, thread : WriterThread \cup {Nobody}, anchor : Nat]

LEMMA DoType ==
  ASSUME NEW at \in Stage, NEW b \in Branch \cup {Nobody}, NEW t \in WriterThread \cup {Nobody}
  PROVE  Do(at, b, t) \in TurnTypes
BY DEF Do, TurnTypes

LEMMA NoTurnType == NoTurn \in TurnTypes
BY DEF NoTurn, Do, TurnTypes, Stage

LEMMA OpensTypes ==
  ASSUME SessionsTypeOK, NEW t \in WriterThread, NEW steps \in Seq(Step), NEW who \in Branch \cup {Unclaimed},
         Opens(t, steps, who)
  PROVE  /\ threads' \subseteq WriterThread /\ history' \in [WriterThread -> Seq(Step)]
         /\ loaded' \subseteq threads' /\ threadOwner' \in [WriterThread -> Branch \cup {Nobody, Unclaimed}]
BY DEF SessionsTypeOK, Opens

LEMMA ForkTypes ==
  ASSUME SessionsCtx, NEW b \in Branch,
         ForksNatively(b) \/ ForksAnew(b) \/ \E n \in 1 .. Len(route[b]) : Directs(b, n)
  PROVE  SessionsTypeOK'
<1> USE DEF SessionsCtx
<1>1. route[b] \in Seq(Step) /\ Len(route[b]) \in Nat
  BY DEF SessionsTypeOK
<1>2. ASSUME NEW t \in NextThread, NEW steps \in Seq(Step), NEW n \in Nat,
             Opens(t, steps, Unclaimed), ForkMade(b, t, n),
             UNCHANGED <<recordVars, session, mark, bound, output, error, unbooked>>, live' \in BOOLEAN
      PROVE  SessionsTypeOK'
  <2>1. t \in WriterThread
    BY LeastIn DEF NextThread
  <2>2. /\ threads' \subseteq WriterThread /\ history' \in [WriterThread -> Seq(Step)]
        /\ loaded' \subseteq threads' /\ threadOwner' \in [WriterThread -> Branch \cup {Nobody, Unclaimed}]
    BY <1>2, <2>1, OpensTypes
  <2>3. turn' \in TurnTypes
    BY <1>2, <2>1 DEF ForkMade, Do, TurnTypes, Stage
  <2> QED
    BY <1>2, <2>2, <2>3 DEF SessionsTypeOK, TurnTypes, recordVars
<1>3. CASE ForksNatively(b)
  <2> DEFINE m == mark[Tip(b)]
  <2>1. PICK t \in NextThread : Opens(t, FirstOf(history[m.thread], m.turn), Unclaimed) /\ ForkMade(b, t, Len(route[b]))
    BY <1>3 DEF ForksNatively
  <2>2. FirstOf(history[m.thread], m.turn) \in Seq(Step)
    <3>1. route[b] # <<>> /\ m.thread # Nobody
      BY <1>3 DEF ForksNatively, Forking, WantsFork, WroteTip, Readable, HasBookmark
    <3>2. Tip(b) \in Step
      BY <1>1, <3>1 DEF Tip
    <3>3. m.turn \in 1 .. Len(route[by[Tip(b)]]) /\ m.turn <= Len(history[m.thread])
      BY <3>1, <3>2 DEF SessionsParts, MarkInv
    <3>4. history[m.thread] \in Seq(Step)
      BY <3>1, <3>2 DEF SessionsTypeOK
    <3>5. m.turn \in 0 .. Len(history[m.thread])
      BY <3>2, <3>3, <3>4 DEF SessionsTypeOK
    <3> QED
      BY <3>4, <3>5, FirstFacts
  <2>3. UNCHANGED <<recordVars, session, mark, bound, output, error, unbooked>> /\ live' \in BOOLEAN
    BY <1>3 DEF ForksNatively, SessionsTypeOK
  <2> HIDE DEF m
  <2> QED
    BY <1>1, <1>2, <2>1, <2>2, <2>3
<1>4. ASSUME NEW n \in 1 .. Len(route[b]), Rehydrated(b, n) PROVE SessionsTypeOK'
  <2>1. n \in 0 .. Len(route[b]) /\ n \in Nat
    BY <1>1
  <2>2. FirstOf(route[b], n) \in Seq(Step)
    BY <1>1, <2>1, FirstFacts
  <2>3. PICK t \in NextThread : Opens(t, FirstOf(route[b], n), Unclaimed) /\ ForkMade(b, t, n)
    BY <1>4 DEF Rehydrated
  <2>4. UNCHANGED <<recordVars, session, mark, bound, output, error, unbooked>> /\ live' \in BOOLEAN
    BY <1>4 DEF Rehydrated
  <2> QED
    BY <1>2, <2>1, <2>2, <2>3, <2>4
<1>5. CASE ForksAnew(b)
  <2>1. route[b] # <<>> /\ Rehydrated(b, Len(route[b]))
    BY <1>5 DEF ForksAnew, Forking, WantsFork, WroteTip
  <2>2. Len(route[b]) \in 1 .. Len(route[b])
    BY <1>1, <2>1
  <2> QED
    BY <1>4, <2>1, <2>2
<1>6. CASE \E n \in 1 .. Len(route[b]) : Directs(b, n)
  BY <1>4, <1>6 DEF Directs
<1> QED
  BY <1>3, <1>5, <1>6

LEMMA SmallTypes ==
  ASSUME SessionsCtx, NEW b \in Branch,
         ForkSuppressed(b) \/ WriterCalled(b) \/ BranchEnds(b) \/ Resumes \/ ForkRaises(b) \/ TurnRaises
  PROVE  SessionsTypeOK'
<1> USE DEF SessionsCtx
<1>1. CASE ForkSuppressed(b)
  BY <1>1, DoType DEF ForkSuppressed, SessionsTypeOK, TurnTypes, Stage, recordVars, runtimeTables
<1>2. CASE WriterCalled(b)
  BY <1>2, DoType DEF WriterCalled, SessionsTypeOK, TurnTypes, Stage, recordVars, runtimeTables
<1>3. CASE BranchEnds(b)
  BY <1>3 DEF BranchEnds, SessionsTypeOK, runtimeTables
<1>4. CASE Resumes
  <2>1. status' \in [Branch -> {"unborn", "active", "paused", "closed"}]
    BY <1>4 DEF Resumes, SessionsTypeOK
  <2> QED
    BY <1>4, <2>1 DEF Resumes, SessionsTypeOK, runtimeTables
<1>5. CASE ForkRaises(b)
  BY <1>5 DEF ForkRaises, SessionsTypeOK, recordVars, runtimeTables
<1>6. CASE TurnRaises
  BY <1>6 DEF TurnRaises, SessionsTypeOK, recordVars, runtimeTables
<1> QED
  BY <1>1, <1>2, <1>3, <1>4, <1>5, <1>6

LEMMA TurnTypesKept ==
  ASSUME SessionsCtx,
         \/ ChildBooked \/ BranchBooked \/ SessionKept \/ SessionReused \/ SessionLeftOpen
         \/ TurnStarts \/ HandleAttached \/ TurnAnswers \/ TurnFails \/ NothingSealed \/ StepMarked \/ Rests
  PROVE  SessionsTypeOK'
<1> USE DEF SessionsCtx
<1> DEFINE b == turn.branch  t == turn.thread
<1>1. turn \in TurnTypes /\ turn.at \in Stage /\ t \in WriterThread \cup {Nobody}
  BY DEF SessionsTypeOK, TurnTypes
<1>2. turn.at \in OnBranch => b \in Branch
  BY DEF SessionsParts, OpenInv
<1>3. CASE ChildBooked \/ BranchBooked \/ SessionKept
  <2>1. b \in Branch
    BY <1>2, <1>3 DEF ChildBooked, BranchBooked, SessionKept, OnBranch, Stage
  <2>2. turn' \in TurnTypes
    BY <1>1, <1>3, NoTurnType DEF ChildBooked, BranchBooked, SessionKept, TurnTypes, Stage
  <2>3. session' \in [Branch -> WriterThread \cup {Nobody}]
    BY <1>1, <1>3, <2>1 DEF ChildBooked, BranchBooked, SessionKept, SessionsTypeOK
  <2> QED
    BY <1>3, <2>2, <2>3 DEF ChildBooked, BranchBooked, SessionKept, SessionsTypeOK, TurnTypes, recordVars, runtimeTables
<1>4. CASE SessionReused \/ SessionLeftOpen
  <2>1. b \in Branch /\ session[b] \in WriterThread \cup {Nobody}
    BY <1>2, <1>4 DEF SessionReused, SessionLeftOpen, OnBranch, Stage, SessionsTypeOK
  <2>2. turn' \in TurnTypes
    BY <1>4, <2>1, DoType DEF SessionReused, SessionLeftOpen, Stage
  <2> QED
    BY <1>4, <2>2 DEF SessionReused, SessionLeftOpen, SessionsTypeOK, TurnTypes, recordVars, runtimeTables
<1>5. CASE TurnStarts
  <2>1. b \in Branch /\ t \in WriterThread /\ t \in threads
    BY <1>1, <1>2, <1>5 DEF TurnStarts, OnBranch, Stage, SessionsParts, ThreadsInv
  <2>2. turn' \in TurnTypes
    BY <1>1, <1>5 DEF TurnStarts, TurnTypes, Stage
  <2> QED
    BY <1>5, <2>1, <2>2 DEF TurnStarts, SessionsTypeOK, TurnTypes, recordVars
<1>6. CASE HandleAttached
  <2>1. turn' \in TurnTypes
    BY <1>1, <1>6 DEF HandleAttached, TurnTypes, Stage
  <2> QED
    BY <1>6, <2>1 DEF HandleAttached, SessionsTypeOK, TurnTypes, recordVars, runtimeTables
<1>7. CASE TurnAnswers
  <2>1. turn' \in TurnTypes
    BY <1>1, <1>7 DEF TurnAnswers, TurnTypes, Stage
  <2>2. t \in threads
    BY <1>7 DEF TurnAnswers, SessionsParts, TurnInv, OnThread, ThreadsInv
  <2> QED
    BY <1>7, <2>1, <2>2 DEF TurnAnswers, SessionsTypeOK, TurnTypes, recordVars
<1>8. CASE TurnFails
  <2>1. b \in Branch
    BY <1>2, <1>8 DEF TurnFails, OnBranch, Stage
  <2>2. status' \in [Branch -> {"unborn", "active", "paused", "closed"}] /\ again' \subseteq Branch /\ loaded' \subseteq threads
    BY <1>8, <2>1 DEF TurnFails, SessionsTypeOK
  <2>3. turn' \in TurnTypes
    BY <1>8, NoTurnType DEF TurnFails
  <2> QED
    BY <1>8, <2>2, <2>3 DEF TurnFails, SessionsTypeOK, TurnTypes
<1>9. CASE NothingSealed
  <2>1. b \in Branch
    BY <1>2, <1>9 DEF NothingSealed, HasAnswer, OnBranch, Stage
  <2>2. status' \in [Branch -> {"unborn", "active", "paused", "closed"}] /\ again' \subseteq Branch
    BY <1>9, <2>1 DEF NothingSealed, SessionsTypeOK
  <2>3. turn' \in TurnTypes
    BY <1>9, NoTurnType DEF NothingSealed
  <2> QED
    BY <1>9, <2>2, <2>3 DEF NothingSealed, SessionsTypeOK, TurnTypes, runtimeTables
<1>10. CASE StepMarked
  <2>1. b \in Branch /\ WroteTip(b) /\ t \in WriterThread
    BY <1>1, <1>2, <1>10 DEF StepMarked, OnBranch, Stage, SessionsParts, TurnInv, OnThread
  <2>2. route[b] \in Seq(Step) /\ history[t] \in Seq(Step) /\ Len(history[t]) \in Nat /\ route[b] # <<>>
    BY <2>1 DEF SessionsTypeOK, WroteTip
  <2>3. Tip(b) \in Step
    BY <2>2 DEF Tip
  <2>4. mark' \in [Step -> [thread : WriterThread \cup {Nobody}, turn : Nat]]
    BY <1>10, <2>1, <2>2, <2>3 DEF StepMarked, SessionsTypeOK
  <2>5. turn' \in TurnTypes
    BY <1>1, <1>10 DEF StepMarked, TurnTypes, Stage
  <2> QED
    BY <1>10, <2>4, <2>5 DEF StepMarked, SessionsTypeOK, TurnTypes, recordVars, runtimeTables
<1>11. CASE Rests
  <2>1. turn' \in TurnTypes
    BY <1>11, DoType DEF Rests, Stage
  <2> QED
    BY <1>11, <2>1 DEF Rests, SessionsTypeOK, TurnTypes, recordVars
<1> QED
  BY <1>3, <1>4, <1>5, <1>6, <1>7, <1>8, <1>9, <1>10, <1>11

LEMMA NewcomerTypes ==
  ASSUME SessionsCtx, ChildCreated \/ SessionRehydrated \/ FirstTurnStarts
  PROVE  SessionsTypeOK'
<1> USE DEF SessionsCtx
<1> DEFINE b == turn.branch
<1>1. CASE ChildCreated
  <2>1. PICK c \in NextBranch :
         /\ route' = [route EXCEPT ![c] = FirstOf(route[b], turn.anchor)]
         /\ status' = [status EXCEPT ![c] = "active"]
         /\ turn' = Do("child", c, turn.thread)
    BY <1>1 DEF ChildCreated
  <2>2. c \in Branch /\ b \in Branch /\ route[b] \in Seq(Step) /\ route[b] # <<>> /\ turn.anchor \in 0 .. Len(route[b])
    BY <1>1, LeastIn DEF ChildCreated, NextBranch, SessionsParts, ForkedInv, SessionsTypeOK
  <2>3. Tip(b) \in Step
    BY <2>2 DEF Tip
  <2>4. FirstOf(route[b], turn.anchor) \in Seq(Step)
    BY <2>2, FirstFacts
  <2>5. turn' \in TurnTypes
    BY <2>1, <2>2, DoType DEF SessionsTypeOK, Stage
  <2>6. /\ route' \in [Branch -> Seq(Step)] /\ status' \in [Branch -> {"unborn", "active", "paused", "closed"}]
        /\ forked' \subseteq Step
    BY <1>1, <2>1, <2>2, <2>3, <2>4 DEF ChildCreated, SessionsTypeOK
  <2> QED
    BY <1>1, <2>5, <2>6 DEF ChildCreated, SessionsTypeOK, TurnTypes, runtimeTables
<1>2. CASE SessionRehydrated
  <2>1. PICK t \in NextThread :
         /\ Opens(t, route[b], b) /\ bound' = Rebound(b, t)
         /\ session' = [session EXCEPT ![b] = t]
         /\ turn' = Do("ready", b, t)
    BY <1>2 DEF SessionRehydrated
  <2>2. b \in Branch /\ t \in WriterThread /\ route[b] \in Seq(Step)
    BY <1>2, LeastIn DEF SessionRehydrated, NextThread, SessionsParts, OpenInv, OnBranch, Stage, SessionsTypeOK
  <2>3. /\ threads' \subseteq WriterThread /\ history' \in [WriterThread -> Seq(Step)]
        /\ loaded' \subseteq threads' /\ threadOwner' \in [WriterThread -> Branch \cup {Nobody, Unclaimed}]
    BY <2>1, <2>2, OpensTypes
  <2>4. turn' \in TurnTypes
    BY <2>1, <2>2, DoType DEF Stage
  <2>5. /\ session' \in [Branch -> WriterThread \cup {Nobody}] /\ bound' \in [Branch -> WriterThread \cup {Nobody}]
    BY <2>1, <2>2 DEF Rebound, SessionsTypeOK
  <2> QED
    BY <1>2, <2>3, <2>4, <2>5 DEF SessionRehydrated, SessionsTypeOK, TurnTypes, recordVars
<1>3. CASE FirstTurnStarts
  <2>1. PICK t \in NextThread :
         /\ Opens(t, <<>>, b) /\ bound' = [bound EXCEPT ![b] = t] /\ turn' = Do("started", b, t)
    BY <1>3 DEF FirstTurnStarts
  <2>2. b \in Branch /\ t \in WriterThread /\ <<>> \in Seq(Step)
    BY <1>3, LeastIn DEF FirstTurnStarts, NextThread, SessionsParts, OpenInv, OnBranch, Stage
  <2>3. /\ threads' \subseteq WriterThread /\ history' \in [WriterThread -> Seq(Step)]
        /\ loaded' \subseteq threads' /\ threadOwner' \in [WriterThread -> Branch \cup {Nobody, Unclaimed}]
    BY <2>1, <2>2, OpensTypes
  <2>4. turn' \in TurnTypes
    BY <2>1, <2>2, DoType DEF Stage
  <2>5. bound' \in [Branch -> WriterThread \cup {Nobody}]
    BY <2>1, <2>2 DEF SessionsTypeOK
  <2> QED
    BY <1>3, <2>3, <2>4, <2>5 DEF FirstTurnStarts, SessionsTypeOK, TurnTypes, recordVars
<1> QED
  BY <1>1, <1>2, <1>3

LEMMA SealTypes ==
  ASSUME SessionsCtx, NEW d \in {"go", "fork", "complete"}, StepSealed(d)
  PROVE  SessionsTypeOK'
<1> USE DEF SessionsCtx
<1> DEFINE b == turn.branch  t == turn.thread
<1>1. PICK s \in NextStep :
         /\ route' = [route EXCEPT ![b] = Append(@, s)]
         /\ history' = [history EXCEPT ![t] = Append(@, s)]
         /\ decision' = [decision EXCEPT ![s] = d] /\ by' = [by EXCEPT ![s] = b]
         /\ again' = again \ {b}
         /\ output' = [output EXCEPT ![s] = CASE turn.at = "answered" -> "live"
                                              [] turn.at = "recovered" -> "recovered"
                                              [] OTHER -> "none"]
         /\ turn' = IF turn.at = "unsealed" THEN NoTurn ELSE Do("sealed", b, t)
  BY DEF StepSealed
<1>2. s \in Step /\ b \in Branch /\ t \in WriterThread
  BY LeastIn DEF NextStep, StepSealed, HasAnswer, SessionsParts, OpenInv, OnBranch, Stage, TurnInv, OnThread, SessionsTypeOK
<1>3. Append(route[b], s) \in Seq(Step) /\ Append(history[t], s) \in Seq(Step)
  BY <1>2, AppendFacts DEF SessionsTypeOK
<1>4. route' \in [Branch -> Seq(Step)] /\ history' \in [WriterThread -> Seq(Step)]
  BY <1>1, <1>2, <1>3 DEF SessionsTypeOK
<1>5. /\ decision' \in [Step -> {"none", "go", "fork", "complete", "revise", "human"}]
      /\ by' \in [Step -> Branch \cup {Nobody}] /\ again' \subseteq Branch
  BY <1>1, <1>2 DEF SessionsTypeOK
<1>6. output' \in [Step -> {"none", "live", "recovered"}]
  <2>1. CASE turn.at = "answered"
    BY <1>1, <2>1 DEF SessionsTypeOK
  <2>2. CASE turn.at = "recovered"
    BY <1>1, <2>2 DEF SessionsTypeOK
  <2>3. CASE turn.at \notin {"answered", "recovered"}
    BY <1>1, <2>3 DEF SessionsTypeOK
  <2> QED
    BY <2>1, <2>2, <2>3
<1>7. turn' \in TurnTypes
  BY <1>1, <1>2, DoType, NoTurnType DEF Stage
<1> QED
  BY <1>4, <1>5, <1>6, <1>7 DEF StepSealed, SessionsTypeOK, TurnTypes

LEMMA RerouteTypes ==
  ASSUME SessionsCtx, NEW b \in Branch, NEW n \in 1 .. Len(route[b]), NEW d \in {"revise", "human"}, NEW after,
         Reroute(b, n, d, after), after \in {"closed", status[b]}
  PROVE  SessionsTypeOK'
<1> USE DEF SessionsCtx
<1>1. PICK c \in NextBranch, s \in NextStep :
         /\ route' = [route EXCEPT ![c] = Append(FirstOf(route[b], n - 1), s)]
         /\ status' = [status EXCEPT ![b] = after, ![c] = "active"]
         /\ decision' = [decision EXCEPT ![s] = d] /\ by' = [by EXCEPT ![s] = c]
  BY DEF Reroute
<1>2. c \in Branch /\ s \in Step
  BY LeastIn DEF NextBranch, NextStep
<1>3. FirstOf(route[b], n - 1) \in Seq(Step)
  <2>1. route[b] \in Seq(Step) /\ n - 1 \in 0 .. Len(route[b])
    BY DEF SessionsTypeOK
  <2> QED
    BY <2>1, FirstFacts
<1>4. Append(FirstOf(route[b], n - 1), s) \in Seq(Step)
  BY <1>2, <1>3, AppendFacts
<1>5. route' \in [Branch -> Seq(Step)]
  BY <1>1, <1>2, <1>4 DEF SessionsTypeOK
<1>6. /\ status' \in [Branch -> {"unborn", "active", "paused", "closed"}]
      /\ decision' \in [Step -> {"none", "go", "fork", "complete", "revise", "human"}]
      /\ by' \in [Step -> Branch \cup {Nobody}]
  BY <1>1, <1>2 DEF SessionsTypeOK
<1>7. turn' \in TurnTypes
  BY NoTurnType DEF Reroute
<1> QED
  BY <1>5, <1>6, <1>7 DEF Reroute, SessionsTypeOK, TurnTypes, runtimeTables

LEMMA RestartTypes ==
  ASSUME SessionsTypeOK, Restarts
  PROVE  SessionsTypeOK'
<1>1. turn \in TurnTypes
  BY DEF SessionsTypeOK, TurnTypes
<1>2. turn' \in TurnTypes
  <2> SUFFICES ASSUME turn' = AfterRestart PROVE turn' \in TurnTypes
    BY <1>1 DEF Restarts
  <2>1. turn' = AfterRestart
    OBVIOUS
  <2>2. CASE turn.at = "stuck"
    BY <1>1, <2>1, <2>2 DEF AfterRestart
  <2>3. CASE turn.at \in {"called", "ready", "started", "attached", "running", "recover"}
    <3>1. turn' \in {Do("stuck", turn.branch, Nobody), [turn EXCEPT !.at = "recover"]}
      BY <2>1, <2>3 DEF AfterRestart
    <3> QED
      BY <1>1, <3>1 DEF Do, TurnTypes, Stage
  <2>4. CASE turn.at \in {"answered", "recovered", "unsealed"}
    <3>1. turn' = [turn EXCEPT !.at = "unsealed"]
      BY <2>1, <2>4 DEF AfterRestart
    <3> QED
      BY <1>1, <3>1 DEF TurnTypes, Stage
  <2>5. CASE turn.at \in {"idle", "forked", "child", "tried", "sealed", "marked", "resting"}
    <3>1. turn' \in {NoTurn, Do("resting", Nobody, Nobody)}
      BY <2>1, <2>5 DEF AfterRestart
    <3> QED
      BY <3>1, NoTurnType, DoType DEF Stage
  <2> QED
    BY <1>1, <2>2, <2>3, <2>4, <2>5 DEF TurnTypes, Stage
<1>3. Preserve \in BOOLEAN /\ Unmarked \in [thread : WriterThread \cup {Nobody}, turn : Nat]
  BY SessionsAssumption DEF Unmarked
<1>4. live' \in BOOLEAN
  BY <1>3 DEF Restarts
<1>5. /\ session' \in [Branch -> WriterThread \cup {Nobody}]
      /\ mark' \in [Step -> [thread : WriterThread \cup {Nobody}, turn : Nat]]
  BY <1>3 DEF Restarts, Kept, SessionsTypeOK
<1>6. bound' \in [Branch -> WriterThread \cup {Nobody}]
  BY DEF Restarts, SessionsTypeOK
<1>7. threadOwner' \in [WriterThread -> Branch \cup {Nobody, Unclaimed}]
  <2>1. ASSUME NEW t \in WriterThread, \E b \in Branch : session[b] = t
        PROVE  (CHOOSE b \in Branch : session[b] = t) \in Branch
    BY <2>1
  <2> QED
    BY <2>1 DEF Restarts
<1>8. loaded' = {} /\ output' \in [Step -> {"none", "live", "recovered"}] /\ unbooked' \in BOOLEAN
  BY DEF Restarts, SessionsTypeOK
<1> QED
  BY <1>2, <1>4, <1>5, <1>6, <1>7, <1>8 DEF Restarts, SessionsTypeOK, TurnTypes, recordVars

-----------------------------------------------------------------------------
(* What ends a run.                                                        *)

(* A fork that is refused for its owner follows such a crash.              *)
LEMMA ForkRefused ==
  ASSUME SessionsCtx, NEW b \in Branch, ForkRaises(b)
  PROVE  /\ turn.at = "idle" /\ turn' = turn /\ session' = session /\ unbooked' = unbooked
         /\ error' \in {"owner", "fork"} /\ (error' = "owner" => unbooked)
<1> USE DEF SessionsCtx, SessionsParts
<1> DEFINE s == Tip(b)
<1>1. /\ turn.at = "idle" /\ turn' = turn /\ session' = session /\ unbooked' = unbooked
      /\ error' = IF output[s] = "none" THEN "fork" ELSE "owner"
      /\ route[b] # <<>> /\ mark[s].thread # Nobody /\ ~Vouched(s)
  BY DEF ForkRaises, Forking, WantsFork, WroteTip, Readable, HasBookmark
<1>2. s \in Step
  BY <1>1 DEF Tip, SessionsTypeOK
<1>3. output[s] # "none" => unbooked
  <2> HIDE DEF s
  <2>1. output[s] \in {"none", "live", "recovered"}
    BY <1>2 DEF SessionsTypeOK
  <2> QED
    BY <1>1, <1>2, <2>1 DEF OutputInv, Vouched
<1> QED
  BY <1>1, <1>3

(* A turn that is refused its thread follows such a crash.                 *)
LEMMA TurnRefused ==
  ASSUME SessionsCtx, TurnRaises
  PROVE  /\ turn.at = "ready" /\ turn' = turn /\ session' = session /\ unbooked' = unbooked
         /\ error' = "owner" /\ unbooked
<1> USE DEF SessionsCtx, SessionsParts
<1> DEFINE b == turn.branch  t == turn.thread
<1>1. /\ turn.at = "ready" /\ turn' = turn /\ session' = session /\ unbooked' = unbooked /\ error' = "owner"
      /\ IF t = Nobody THEN bound[b] # Nobody ELSE ~Accepts(t, b)
  BY DEF TurnRaises
<1>2. b \in Branch /\ Open(b)
  BY <1>1 DEF OpenInv, OnBranch, Stage
<1>3. t # Nobody /\ session[b] = t
  BY <1>1 DEF ReadyInv
<1>4. unbooked
  BY <1>1, <1>2, <1>3 DEF SessionInv
<1> QED
  BY <1>1, <1>4

-----------------------------------------------------------------------------
(* All together.                                                           *)

LEMMA SessionsStart == SessionsInit => SessionsInv
<1> SUFFICES ASSUME SessionsInit PROVE SessionsInv
  OBVIOUS
<1> USE DEF SessionsInit
<1>1. PICK root \in Least(Branch) : status = [[b \in Branch |-> "unborn"] EXCEPT ![root] = "active"]
  OBVIOUS
<1>2. /\ turn.at = "idle" /\ turn.thread = Nobody /\ turn.branch = Nobody /\ turn \in TurnTypes
  BY NoTurnType DEF NoTurn, Do
<1>3. SessionsTypeOK
  <2>1. <<>> \in Seq(Step) /\ root \in Branch
    BY LeastIn
  <2>2. /\ route \in [Branch -> Seq(Step)] /\ history \in [WriterThread -> Seq(Step)]
        /\ status \in [Branch -> {"unborn", "active", "paused", "closed"}]
    BY <1>1, <2>1
  <2>3. mark \in [Step -> [thread : WriterThread \cup {Nobody}, turn : Nat]]
    BY DEF Unmarked
  <2> QED
    BY <1>2, <2>2, <2>3 DEF SessionsTypeOK, TurnTypes
<1>4. OnesOwn /\ ThreadsInv /\ UnbornInv /\ MarkInv /\ OutputInv
  BY <1>2 DEF OnesOwn, ThreadsInv, UnbornInv, MarkInv, OutputInv, Unmarked
<1>5. SessionInv /\ BoundInv /\ ForkedInv /\ ReadyInv /\ TurnInv /\ OpenInv
  BY <1>2 DEF SessionInv, BoundInv, ForkedInv, ReadyInv, TurnInv, OpenInv, OnThread, OnBranch
<1> QED
  BY <1>3, <1>4, <1>5 DEF SessionsInv, SessionsParts

LEMMA SessionsGoOn ==
  ASSUME SessionsCtx, error' = error,
         \/ \E b \in Branch : \/ ForksNatively(b) \/ ForksAnew(b) \/ ForkSuppressed(b) \/ WriterCalled(b) \/ BranchEnds(b)
                              \/ \E n \in 1 .. Len(route[b]) : Directs(b, n) \/ HumanRevises(b, n)
         \/ ChildCreated \/ ChildBooked \/ SessionReused \/ SessionRehydrated \/ SessionLeftOpen
         \/ TurnStarts \/ FirstTurnStarts \/ HandleAttached \/ BranchBooked \/ TurnAnswers \/ TurnFails
         \/ NothingSealed \/ StepMarked \/ SessionKept
         \/ \E d \in {"go", "fork", "complete"} : StepSealed(d)
         \/ Revises \/ Resumes \/ Rests
  PROVE  SessionsTypeOK' /\ SessionsParts' /\ OnesOwn'
<1> USE DEF SessionsCtx
<1>1. ASSUME NEW b \in Branch, ForksNatively(b) \/ ForksAnew(b) \/ \E n \in 1 .. Len(route[b]) : Directs(b, n)
      PROVE  SessionsTypeOK' /\ SessionsParts' /\ OnesOwn'
  BY <1>1, ForkMakes, ForkTypes
<1>2. ASSUME NEW b \in Branch, ForkSuppressed(b) \/ WriterCalled(b) \/ BranchEnds(b) \/ Resumes
      PROVE  SessionsTypeOK' /\ SessionsParts' /\ OnesOwn'
  BY <1>2, QuietTurns, SmallTypes
<1>3. CASE Resumes
  BY <1>2, <1>3 DEF Resumes
<1>4. ASSUME NEW b \in Branch, NEW n \in 1 .. Len(route[b]), HumanRevises(b, n)
      PROVE  SessionsTypeOK' /\ SessionsParts' /\ OnesOwn'
  <2>1. Reroute(b, n, "human", status[b]) /\ turn.at = "resting" /\ "human" \in {"revise", "human"}
    BY <1>4 DEF HumanRevises
  <2> QED
    BY <2>1, RevisionReroutes, RerouteTypes
<1>5. CASE Revises
  <2> DEFINE b == turn.branch
  <2>1. turn.at \in {"answered", "recovered", "unsealed"} /\ b \in Branch /\ "revise" \in {"revise", "human"}
    BY <1>5 DEF Revises, HasAnswer, SessionsParts, OpenInv, OnBranch, Stage
  <2>2. PICK n \in 1 .. Len(route[b]) : Reroute(b, n, "revise", "closed")
    BY <1>5 DEF Revises
  <2> QED
    BY <2>1, <2>2, RevisionReroutes, RerouteTypes
<1>6. CASE TurnFails \/ NothingSealed
  <2>1. turn.branch \in Branch
    BY <1>6 DEF TurnFails, NothingSealed, HasAnswer, SessionsParts, OpenInv, OnBranch, Stage
  <2> QED
    BY <1>6, <2>1, QuietTurns, TurnTypesKept
<1>7. CASE SessionReused \/ SessionLeftOpen
  BY <1>7, SessionFound, TurnTypesKept
<1>8. CASE HandleAttached \/ TurnAnswers
  BY <1>8, TurnGoesOn, TurnTypesKept
<1>9. CASE ChildBooked \/ BranchBooked \/ SessionKept
  BY <1>9, SessionIsNoted, TurnTypesKept
<1>10. CASE TurnStarts
  BY <1>10, TurnIsStarted, TurnTypesKept
<1>11. CASE StepMarked
  BY <1>11, StepIsMarked, TurnTypesKept
<1>12. CASE Rests
  BY <1>12, RuntimeRests, TurnTypesKept
<1>13. CASE ChildCreated \/ SessionRehydrated \/ FirstTurnStarts
  BY <1>13, ChildIsBorn, SessionIsRehydrated, FirstTurnIsStarted, NewcomerTypes
<1>14. ASSUME NEW d \in {"go", "fork", "complete"}, StepSealed(d)
       PROVE  SessionsTypeOK' /\ SessionsParts' /\ OnesOwn'
  BY <1>14, StepIsSealed, SealTypes
<1> QED
  BY Zenon, <1>1, <1>2, <1>3, <1>4, <1>5, <1>6, <1>7, <1>8, <1>9, <1>10, <1>11, <1>12, <1>13, <1>14

LEMMA SessionsStep ==
  ASSUME SessionsInv, [SessionsNext]_sessionVars
  PROVE  SessionsInv'
<1>1. SessionsTypeOK /\ OnesOwn
  BY DEF SessionsInv
<1>2. CASE UNCHANGED sessionVars
  <2>1. SessionsTypeOK' /\ OnesOwn'
    BY <1>1, <1>2 DEF sessionVars, recordVars, runtimeTables, SessionsTypeOK, OnesOwn
  <2>2. SessionsParts => SessionsParts'
    BY <1>2 DEF sessionVars, recordVars, runtimeTables, SessionsParts, ThreadsInv, UnbornInv, MarkInv, OutputInv, SessionInv,
                BoundInv, ForkedInv, ReadyInv, TurnInv, OpenInv, Open, Accepts, Holds, WroteTip, Tip
  <2> QED
    BY <1>2, <2>1, <2>2 DEF SessionsInv, sessionVars
<1>3. CASE Restarts
  <2>1. SessionsTypeOK'
    BY <1>1, <1>3, RestartTypes
  <2>2. error' = error /\ (unbooked => unbooked') /\ (error # "none" => turn' = turn)
    BY <1>1, <1>3 DEF Restarts, SessionsTypeOK
  <2>3. OnesOwn'
    <3>1. session' = session \/ \A b \in Branch : session'[b] = Nobody
      BY <1>1, <1>3, SessionsAssumption DEF Restarts, Kept, SessionsTypeOK
    <3> QED
      BY <1>1, <3>1 DEF OnesOwn
  <2>4. error = "none" => SessionsParts'
    BY <1>1, <1>3, RestartKeeps DEF SessionsCtx, SessionsInv
  <2> QED
    BY <2>1, <2>2, <2>3, <2>4 DEF SessionsInv
<1>4. CASE SessionsNext /\ ~Restarts
  <2>1. error = "none" /\ SessionsCtx
    BY <1>1, <1>4 DEF SessionsNext, SessionsCtx, SessionsInv
  <2>2. ASSUME NEW b \in Branch, ForkRaises(b) PROVE SessionsInv'
    BY <2>1, <2>2, ForkRefused, SmallTypes DEF SessionsInv, OnesOwn
  <2>3. CASE TurnRaises
    <3>1. turn.branch \in Branch
      BY <2>1, <2>3 DEF TurnRaises, SessionsCtx, SessionsParts, OpenInv, OnBranch, Stage
    <3>2. SessionsTypeOK'
      BY <2>1, <2>3, <3>1, SmallTypes
    <3> QED
      BY <1>1, <2>1, <2>3, <3>2, TurnRefused DEF SessionsInv, OnesOwn
  <2>4. CASE \/ \E b \in Branch : \/ ForksNatively(b) \/ ForksAnew(b) \/ ForkSuppressed(b) \/ WriterCalled(b) \/ BranchEnds(b)
                                   \/ \E n \in 1 .. Len(route[b]) : Directs(b, n) \/ HumanRevises(b, n)
             \/ ChildCreated \/ ChildBooked \/ SessionReused \/ SessionRehydrated \/ SessionLeftOpen
             \/ TurnStarts \/ FirstTurnStarts \/ HandleAttached \/ BranchBooked \/ TurnAnswers \/ TurnFails
             \/ NothingSealed \/ StepMarked \/ SessionKept
             \/ \E d \in {"go", "fork", "complete"} : StepSealed(d)
             \/ Revises \/ Resumes \/ Rests
    <3>1. error' = error
      BY <2>4 DEF ForksNatively, ForksAnew, ForkSuppressed, WriterCalled, BranchEnds, Directs, HumanRevises, Rehydrated,
                  ChildCreated, ChildBooked, SessionReused, SessionRehydrated, SessionLeftOpen, TurnStarts, FirstTurnStarts,
                  HandleAttached, BranchBooked, TurnAnswers, TurnFails, NothingSealed, StepMarked, SessionKept, StepSealed,
                  Revises, Reroute, Resumes, Rests
    <3>2. SessionsTypeOK' /\ SessionsParts' /\ OnesOwn'
      BY Zenon, <2>1, <2>4, <3>1, SessionsGoOn
    <3> QED
      BY <2>1, <3>1, <3>2 DEF SessionsInv
  <2> QED
    BY Zenon, <1>4, <2>2, <2>3, <2>4 DEF SessionsNext
<1> QED
  BY <1>2, <1>3, <1>4

LEMMA SessionsInvSound == SessionsInv => SessionsSound
<1> SUFFICES ASSUME SessionsInv PROVE SessionsSound
  OBVIOUS
<1>1. turn.at \in {"started", "attached", "running"} => history[turn.thread] = route[turn.branch]
  <2> SUFFICES ASSUME turn.at \in {"started", "attached", "running"} PROVE history[turn.thread] = route[turn.branch]
    OBVIOUS
  <2>1. error = "none" /\ turn.at \in OnThread
    BY DEF SessionsInv, OnThread
  <2> QED
    BY <2>1 DEF SessionsInv, SessionsParts, TurnInv
<1> QED
  BY <1>1 DEF SessionsInv, SessionsSound, OnesOwn

(* SessionsSound: a running turn of the Writer is on a thread that carries  *)
(* exactly the route of its branch, no two branches share a thread, and    *)
(* the runtime refuses a thread of the orchestrator only after a crash     *)
(* between the handle of a first turn and the row of its branch; for any   *)
(* branches, steps and threads, shared or not, handles kept or not.        *)
THEOREM SessionsThm == SessionsSpec => []SessionsSound
<1>1. SessionsInv /\ [SessionsNext]_sessionVars => SessionsInv'
  BY SessionsStep
<1> QED
  BY <1>1, SessionsStart, SessionsInvSound, PTL DEF SessionsSpec

-----------------------------------------------------------------------------
(* The reviews.  A quotation that was accepted for its words is recorded   *)
(* with the characters of its source: the span between the places of its   *)
(* first and its last character is a text of the source, and reads the     *)
(* same.                                                                   *)

\* How many characters of t up to the m-th are written.
Upto(t, m) == {j \in Written(t) : j <= m}
Count(t, m) == Cardinality(Upto(t, m))

\* A set of numbers that is not empty has a least one.
LEMMA LeastExists ==
  ASSUME NEW T \in SUBSET Nat, T # {}
  PROVE  \E x \in T : \A y \in T : x <= y
<1> DEFINE LT == {ss \in Nat \X Nat : ss[1] < ss[2]}
<1>1. IsWellFoundedOn(LT, Nat)
  BY NatLessThanWellFounded, Zenon DEF OpToRel
<1>2. PICK x \in T : \A y \in T : ~(<<y, x>> \in LT)
  <2> HIDE DEF LT
  <2> QED
    BY <1>1, WFMin
<1>3. ASSUME NEW y \in T PROVE x <= y
  <2>1. <<y, x>> \in Nat \X Nat /\ <<y, x>>[1] = y /\ <<y, x>>[2] = x /\ ~(<<y, x>> \in LT)
    BY <1>2
  <2>2. ~(y < x)
    BY <2>1 DEF LT
  <2> QED
    BY <2>2
<1> QED
  BY <1>3

LEMMA FunctionIsSeq ==
  ASSUME NEW S, NEW n \in Nat, NEW f \in [1 .. n -> S]
  PROVE  f \in Seq(S) /\ Len(f) = n
<1>1. f \in UNION {[1 .. k -> S] : k \in Nat}
  OBVIOUS
<1>2. f \in Seq(S)
  BY <1>1, SeqDef, Zenon
<1>3. Len(f) \in Nat /\ DOMAIN f = 1 .. Len(f)
  BY <1>2, LenProperties
<1>4. 1 .. Len(f) = 1 .. n
  BY <1>3
<1> QED
  BY <1>2, <1>3, <1>4

LEMMA WrittenIs ==
  ASSUME NEW C, NEW t \in Seq(C)
  PROVE  /\ Len(t) \in Nat /\ DOMAIN t = 1 .. Len(t)
         /\ Written(t) \in SUBSET (1 .. Len(t)) /\ IsFiniteSet(Written(t)) /\ Cardinality(Written(t)) \in Nat
<1>1. Len(t) \in Nat /\ DOMAIN t = 1 .. Len(t)
  BY LenProperties
<1>2. Written(t) \in SUBSET (1 .. Len(t))
  BY <1>1 DEF Written
<1>3. IsFiniteSet(1 .. Len(t))
  BY <1>1, FS_Interval
<1> QED
  BY <1>1, <1>2, <1>3, FS_Subset, FS_CardinalityType

LEMMA CountIs ==
  ASSUME NEW C, NEW t \in Seq(C)
  PROVE  /\ \A m \in Nat : Count(t, m) \in Nat /\ Count(t, m) <= Cardinality(Written(t))
         /\ Count(t, 0) = 0 /\ Count(t, Len(t)) = Cardinality(Written(t))
         /\ \A m \in Nat : Count(t, m + 1) = Count(t, m) + IF m + 1 \in Written(t) THEN 1 ELSE 0
<1>1. ASSUME NEW m \in Nat PROVE IsFiniteSet(Upto(t, m)) /\ Count(t, m) \in Nat /\ Count(t, m) <= Cardinality(Written(t))
  <2>1. Upto(t, m) \in SUBSET Written(t)
    BY DEF Upto
  <2> QED
    BY <2>1, WrittenIs, FS_Subset, FS_CardinalityType DEF Count
<1>2. Upto(t, 0) = {} /\ Upto(t, Len(t)) = Written(t)
  BY WrittenIs DEF Upto
<1>3. ASSUME NEW m \in Nat PROVE Count(t, m + 1) = Count(t, m) + IF m + 1 \in Written(t) THEN 1 ELSE 0
  <2>1. CASE m + 1 \in Written(t)
    <3>1. Upto(t, m + 1) = Upto(t, m) \cup {m + 1} /\ m + 1 \notin Upto(t, m)
      BY <2>1, WrittenIs DEF Upto
    <3> QED
      BY <1>1, <2>1, <3>1, FS_AddElement DEF Count
  <2>2. CASE m + 1 \notin Written(t)
    <3>1. Upto(t, m + 1) = Upto(t, m)
      BY <2>2, WrittenIs DEF Upto
    <3> QED
      BY <1>1, <2>2, <3>1 DEF Count
  <2> QED
    BY <2>1, <2>2
<1> QED
  BY <1>1, <1>2, <1>3, FS_EmptySet DEF Count

LEMMA CountGrows ==
  ASSUME NEW C, NEW t \in Seq(C), NEW m \in Nat, NEW n \in Nat
  PROVE  /\ m <= n => Count(t, m) <= Count(t, n)
         /\ m < n /\ n \in Written(t) => Count(t, m) < Count(t, n)
<1>1. ASSUME NEW k \in Nat, m <= k PROVE Count(t, m) <= Count(t, k)
  <2>1. Upto(t, m) \in SUBSET Upto(t, k)
    BY <1>1, WrittenIs DEF Upto
  <2>2. Upto(t, k) \in SUBSET Written(t)
    BY DEF Upto
  <2>3. IsFiniteSet(Upto(t, k))
    BY <2>2, WrittenIs, FS_Subset
  <2> QED
    BY <2>1, <2>3, FS_Subset DEF Count
<1>2. ASSUME m < n, n \in Written(t) PROVE Count(t, m) < Count(t, n)
  <2>1. PICK k \in Nat : k + 1 = n /\ m <= k
    <3>1. n - 1 \in Nat /\ (n - 1) + 1 = n /\ m <= n - 1
      BY <1>2
    <3> QED
      BY <3>1
  <2>2. Count(t, m) <= Count(t, k) /\ Count(t, n) = Count(t, k) + 1
    BY <1>1, <1>2, <2>1, CountIs
  <2>3. Count(t, m) \in Nat /\ Count(t, k) \in Nat
    BY CountIs
  <2> QED
    BY <2>2, <2>3
<1> QED
  BY <1>1, <1>2

\* The k-th written character is where k of them are.
LEMMA PlaceIs ==
  ASSUME NEW C, NEW t \in Seq(C), NEW k \in 1 .. Cardinality(Written(t))
  PROVE  Place(t, k) \in Written(t) /\ Place(t, k) \in 1 .. Len(t) /\ Count(t, Place(t, k)) = k
<1>1. Len(t) \in Nat /\ Cardinality(Written(t)) \in Nat /\ Written(t) \in SUBSET (1 .. Len(t))
  BY WrittenIs
<1>2. PICK m \in Nat : Count(t, m) >= k /\ \A l \in Nat : Count(t, l) >= k => m <= l
  <2> DEFINE T == {m \in Nat : Count(t, m) >= k}
  <2>1. Len(t) \in T /\ T \in SUBSET Nat
    BY <1>1, CountIs
  <2>2. PICK x \in T : \A y \in T : x <= y
    <3> HIDE DEF T
    <3> QED
      BY <2>1, LeastExists
  <2> QED
    BY <2>2
<1>3. m # 0
  BY <1>1, <1>2, CountIs
<1>4. PICK l \in Nat : m = l + 1
  <2>1. m - 1 \in Nat /\ m = (m - 1) + 1
    BY <1>3
  <2> QED
    BY <2>1
<1>5. /\ Count(t, l) \in Nat /\ Count(t, m) \in Nat
      /\ Count(t, m) = Count(t, l) + IF m \in Written(t) THEN 1 ELSE 0
  BY <1>4, CountIs
<1>6. m \in Written(t) /\ Count(t, m) = k
  <2>1. ~(Count(t, l) >= k)
    BY <1>2, <1>4
  <2> QED
    BY <1>2, <1>5, <2>1
<1>7. \E i \in Written(t) : Cardinality({j \in Written(t) : j <= i}) = k
  BY <1>6 DEF Count, Upto
<1>8. Place(t, k) \in Written(t) /\ Cardinality({j \in Written(t) : j <= Place(t, k)}) = k
  BY <1>7 DEF Place
<1> QED
  BY <1>1, <1>8 DEF Count, Upto

LEMMA PlaceIsOne ==
  ASSUME NEW C, NEW t \in Seq(C), NEW i \in Written(t)
  PROVE  Count(t, i) \in 1 .. Cardinality(Written(t)) /\ Place(t, Count(t, i)) = i
<1>1. i \in Nat /\ 0 < i /\ Cardinality(Written(t)) \in Nat
  BY WrittenIs
<1>2. Count(t, i) \in Nat /\ Count(t, i) <= Cardinality(Written(t)) /\ Count(t, 0) < Count(t, i) /\ Count(t, 0) = 0
  BY <1>1, CountIs, CountGrows
<1>3. Count(t, i) \in 1 .. Cardinality(Written(t))
  BY <1>1, <1>2
<1>4. PICK p : p = Place(t, Count(t, i))
  OBVIOUS
<1>5. p \in Written(t) /\ p \in Nat /\ Count(t, p) = Count(t, i)
  BY <1>3, <1>4, PlaceIs, WrittenIs
<1>6. ~(p < i) /\ ~(i < p)
  BY <1>1, <1>2, <1>5, CountGrows
<1> QED
  BY <1>1, <1>3, <1>4, <1>5, <1>6

\* What a text reads like has as many characters as are written, with blanks for its space.
LEMMA NormalIs ==
  ASSUME NEW C, NEW t \in Seq(C)
  PROVE  /\ Normal(t) \in Seq(C \cup {" "}) /\ Len(Normal(t)) = Cardinality(Written(t))
         /\ \A k \in 1 .. Len(Normal(t)) :
               /\ t[Place(t, k)] \in Space => Normal(t)[k] = " "
               /\ t[Place(t, k)] \notin Space => Normal(t)[k] = t[Place(t, k)]
         /\ Normal(t) = [k \in 1 .. Len(Normal(t)) |-> Normal(t)[k]]
<1>1. Cardinality(Written(t)) \in Nat
  BY WrittenIs
<1>2. ASSUME NEW k \in 1 .. Cardinality(Written(t))
      PROVE  (IF t[Place(t, k)] \in Space THEN " " ELSE t[Place(t, k)]) \in C \cup {" "}
  <2>1. t[Place(t, k)] \in C
    BY PlaceIs, ElementOfSeq
  <2> QED
    BY <2>1
<1>3. Normal(t) \in [1 .. Cardinality(Written(t)) -> C \cup {" "}]
  BY <1>2 DEF Normal
<1>4. Normal(t) \in Seq(C \cup {" "})
  BY <1>1, <1>3, FunctionIsSeq
<1>5. Len(Normal(t)) = Cardinality(Written(t))
  BY <1>1, <1>3, FunctionIsSeq
<1>6. \A k \in 1 .. Cardinality(Written(t)) :
         Normal(t)[k] = IF t[Place(t, k)] \in Space THEN " " ELSE t[Place(t, k)]
  BY DEF Normal
<1> QED
  BY <1>3, <1>4, <1>5, <1>6

\* A text that is not blank reads like one that neither begins nor ends with a blank.
LEMMA NormalEnds ==
  ASSUME NEW C, NEW q \in Seq(C), ~AllSpace(q)
  PROVE  /\ 1 \in 1 .. Len(Normal(q)) /\ Len(Normal(q)) \in 1 .. Len(Normal(q))
         /\ Normal(q)[1] # " " /\ Normal(q)[Len(Normal(q))] # " "
<1> DEFINE n == Cardinality(Written(q))
<1>1. n \in Nat /\ Len(q) \in Nat /\ DOMAIN q = 1 .. Len(q) /\ Len(Normal(q)) = n
  BY WrittenIs, NormalIs
<1>2. PICK c \in 1 .. Len(q) : q[c] \notin Space
  BY <1>1 DEF AllSpace
<1>3. c \in Written(q)
  BY <1>1, <1>2 DEF Written
<1>4. 1 \in 1 .. n /\ n \in 1 .. n
  <2>1. Count(q, c) \in 1 .. n
    BY <1>3, PlaceIsOne
  <2> QED
    BY <1>1, <2>1
<1>5. q[Place(q, 1)] \notin Space
  <2>1. PICK i : i = Place(q, 1) /\ i \in Written(q) /\ i \in 1 .. Len(q) /\ Count(q, i) = 1
    BY <1>4, PlaceIs
  <2>2. SUFFICES ASSUME q[i] \in Space PROVE FALSE
    BY <2>1
  <2>3. PICK j \in 1 .. (i - 1) : q[j] \notin Space
    BY <2>1, <2>2 DEF Written
  <2>4. j \in Nat /\ i \in Nat /\ j < i /\ j \in 1 .. Len(q)
    BY <1>1, <2>1
  <2>5. j \in Written(q)
    BY <1>1, <2>3, <2>4 DEF Written
  <2>6. Count(q, j) < Count(q, i) /\ Count(q, j) >= 1 /\ Count(q, j) \in Nat
    BY <1>1, <2>1, <2>4, <2>5, CountGrows, PlaceIsOne
  <2> QED
    BY <2>1, <2>6
<1>6. q[Place(q, n)] \notin Space
  <2>1. PICK i : i = Place(q, n) /\ i \in Written(q) /\ i \in 1 .. Len(q) /\ Count(q, i) = n
    BY <1>4, PlaceIs
  <2>2. SUFFICES ASSUME q[i] \in Space PROVE FALSE
    BY <2>1
  <2>3. i < Len(q) /\ q[i + 1] \notin Space
    BY <2>1, <2>2 DEF Written
  <2>4. i \in Nat /\ i + 1 \in Nat /\ i < i + 1 /\ i + 1 \in 1 .. Len(q)
    BY <1>1, <2>1, <2>3
  <2>5. i + 1 \in Written(q)
    BY <1>1, <2>3, <2>4 DEF Written
  <2>6. Count(q, i) < Count(q, i + 1) /\ Count(q, i + 1) <= n /\ Count(q, i + 1) \in Nat
    BY <1>1, <2>4, <2>5, CountGrows, CountIs
  <2> QED
    BY <1>1, <2>1, <2>6
<1>7. " " \in Space
  BY DEF Space
<1> HIDE DEF n
<1> QED
  BY <1>1, <1>4, <1>5, <1>6, <1>7, NormalIs

LEMMA AtIs ==
  ASSUME NEW D, NEW N \in Seq(D), NEW n \in Seq(D), NEW f \in Nat, At(n, N, f)
  PROVE  f + Len(n) <= Len(N) /\ \A k \in 1 .. Len(n) : f + k \in 1 .. Len(N) /\ N[f + k] = n[k]
<1>1. PICK l \in Nat, m \in Nat : l = Len(n) /\ m = Len(N)
  BY LenProperties
<1>2. f + l <= m /\ SubSeq(N, f + 1, f + l) = n
  BY <1>1 DEF At
<1>3. \A i \in (f + 1) .. (f + l) : i \in 1 .. m
  BY <1>2
<1>4. \A i \in (f + 1) .. (f + l) : N[i] \in D
  BY <1>1, <1>3, ElementOfSeq
<1>5. f + 1 \in Int /\ f + l \in Int
  OBVIOUS
<1>6. \A i \in 1 .. (f + l) - (f + 1) + 1 : SubSeq(N, f + 1, f + l)[i] = N[f + 1 + i - 1]
  <2>1. PICK a \in Int, b \in Int : a = f + 1 /\ b = f + l
    BY <1>5
  <2>2. \A i \in a .. b : N[i] \in D
    BY <1>4, <2>1
  <2>3. \A i \in 1 .. b - a + 1 : SubSeq(N, a, b)[i] = N[a + i - 1]
    BY <2>2, SubSeqProperties
  <2> QED
    BY <2>1, <2>3
<1>7. ASSUME NEW k \in 1 .. l PROVE f + k \in 1 .. m /\ N[f + k] = n[k]
  <2>1. k \in 1 .. (f + l) - (f + 1) + 1 /\ f + 1 + k - 1 = f + k /\ f + k \in 1 .. m
    BY <1>2
  <2>2. SubSeq(N, f + 1, f + l)[k] = N[f + k]
    BY <1>6, <2>1
  <2> QED
    BY <1>2, <2>1, <2>2
<1> QED
  BY <1>1, <1>2, <1>7

LEMMA SpanText ==
  ASSUME NEW C, NEW t \in Seq(C), NEW a \in 1 .. Len(t), NEW b \in 1 .. Len(t), a <= b
  PROVE  LET s == SubSeq(t, a, b)
         IN  /\ s \in Seq(C) /\ Len(s) = b - a + 1 /\ Occurs(s, t)
             /\ \A j \in 1 .. Len(s) : s[j] = t[a - 1 + j]
<1>11. PICK s : s = SubSeq(t, a, b)
  OBVIOUS
<1>1. PICK m \in Nat : m = Len(t)
  BY LenProperties
<1>2. a \in 1 .. m /\ b \in 1 .. m /\ a \in Int /\ b \in Int
  BY <1>1
<1>3. \A i \in a .. b : i \in 1 .. m
  BY <1>2
<1>4. \A i \in a .. b : t[i] \in C
  BY <1>1, <1>3, ElementOfSeq
<1>5. /\ s \in Seq(C) /\ Len(s) = IF a <= b THEN b - a + 1 ELSE 0
      /\ \A i \in 1 .. b - a + 1 : s[i] = t[a + i - 1]
  BY <1>11, <1>2, <1>4, SubSeqProperties
<1>6. Len(s) = b - a + 1
  BY <1>5
<1>7. ASSUME NEW j \in 1 .. b - a + 1 PROVE s[j] = t[a - 1 + j]
  <2>1. a + j - 1 = a - 1 + j
    BY <1>2
  <2> QED
    BY <1>5, <2>1
<1>8. a - 1 \in 0 .. m /\ (a - 1) + (b - a + 1) = b /\ (a - 1) + 1 = a /\ b <= m
  BY <1>2
<1>9. At(s, t, a - 1)
  BY <1>11, <1>1, <1>6, <1>8 DEF At
<1>10. Occurs(s, t)
  BY <1>1, <1>8, <1>9 DEF Occurs
<1> QED
  BY <1>11, <1>5, <1>6, <1>7, <1>10

\* In a span that neither begins nor ends with a blank the same characters are written.
LEMMA SpanWritten ==
  ASSUME NEW C, NEW t \in Seq(C), NEW s \in Seq(C), NEW a \in Nat, NEW b \in Nat, 1 <= a, a <= b, b <= Len(t),
         Len(s) = b - a + 1, \A j \in 1 .. Len(s) : s[j] = t[a - 1 + j], t[a] \notin Space, t[b] \notin Space,
         NEW j \in 1 .. Len(s)
  PROVE  j \in Written(s) <=> a - 1 + j \in Written(t)
<1>1. PICK m \in Nat : m = Len(t) /\ DOMAIN t = 1 .. m
  BY LenProperties
<1>2. PICK l \in Nat : l = Len(s) /\ DOMAIN s = 1 .. l /\ l = b - a + 1 /\ j \in 1 .. l
  BY LenProperties
<1>3. PICK i \in Nat : i = a - 1 + j
  BY <1>2
<1>4. i \in 1 .. m /\ s[j] = t[i] /\ b <= m /\ (j < l <=> i < b)
  BY <1>1, <1>2, <1>3
<1>5. \A k \in 1 .. l : s[k] = t[a - 1 + k]
  BY <1>2
<1>6. s[1] \notin Space /\ 1 \in 1 .. l
  <2>1. 1 \in 1 .. l /\ a - 1 + 1 = a
    BY <1>2
  <2> QED
    BY <1>5, <2>1
<1>7. CASE s[j] \notin Space
  BY <1>1, <1>2, <1>3, <1>4, <1>7 DEF Written
<1>8. CASE s[j] \in Space
  <2>1. ASSUME j \in Written(s) PROVE i \in Written(t)
    <3>1. j < l /\ s[j + 1] \notin Space /\ \E k \in 1 .. (j - 1) : s[k] \notin Space
      BY <1>2, <1>8, <2>1 DEF Written
    <3>2. j + 1 \in 1 .. l /\ a - 1 + (j + 1) = i + 1 /\ i < m
      BY <1>2, <1>3, <1>4, <3>1
    <3>3. t[i + 1] \notin Space
      BY <1>5, <3>1, <3>2
    <3>4. PICK k \in 1 .. (j - 1) : s[k] \notin Space
      BY <3>1
    <3>5. k \in 1 .. l /\ a - 1 + k \in 1 .. (i - 1)
      BY <1>2, <1>3
    <3>6. t[a - 1 + k] \notin Space
      BY <1>5, <3>4, <3>5
    <3> QED
      BY <1>1, <1>4, <3>2, <3>3, <3>5, <3>6 DEF Written
  <2>2. ASSUME i \in Written(t) PROVE j \in Written(s)
    <3>1. i < m /\ t[i + 1] \notin Space
      BY <1>1, <1>4, <1>8, <2>2 DEF Written
    <3>2. i # b /\ j # 1
      BY <1>4, <1>6, <1>8
    <3>3. j < l /\ j + 1 \in 1 .. l /\ a - 1 + (j + 1) = i + 1 /\ 1 \in 1 .. (j - 1)
      BY <1>2, <1>3, <3>2
    <3>4. s[j + 1] \notin Space
      BY <1>5, <3>1, <3>3
    <3> QED
      BY <1>2, <1>6, <3>3, <3>4 DEF Written
  <2> QED
    BY <1>3, <2>1, <2>2
<1> QED
  BY <1>7, <1>8

\* s is a span of t that begins after the d-th character, and is written as t is.
SpanOf(s, t, d) ==
    \A j \in 1 .. Len(s) : s[j] = t[d + j] /\ (j \in Written(s) <=> d + j \in Written(t))

LEMMA SpanCount ==
  ASSUME NEW C, NEW t \in Seq(C), NEW s \in Seq(C), NEW d \in Nat, SpanOf(s, t, d), NEW m \in 0 .. Len(s)
  PROVE  Count(t, d + m) = Count(t, d) + Count(s, m)
<1>1. PICK l \in Nat : l = Len(s)
  BY LenProperties
<1> DEFINE Bad == {k \in 0 .. l : Count(t, d + k) # Count(t, d) + Count(s, k)}
<1>2. SUFFICES ASSUME Bad # {} PROVE FALSE
  BY <1>1
<1>3. PICK k \in Bad : \A i \in Bad : k <= i
  <2>1. Bad \in SUBSET Nat
    OBVIOUS
  <2> HIDE DEF Bad
  <2> QED
    BY <1>2, <2>1, LeastExists
<1>4. k \in 0 .. l /\ Count(t, d + k) # Count(t, d) + Count(s, k) /\ k \in Nat
  BY <1>3
<1>5. k # 0
  <2>1. d + 0 = d /\ Count(s, 0) = 0 /\ Count(t, d) \in Nat
    BY CountIs
  <2> QED
    BY <1>4, <2>1
<1>6. PICK i \in Nat : k = i + 1 /\ i \in 0 .. l /\ ~(k <= i) /\ k \in 1 .. l
  <2>1. k - 1 \in Nat /\ k = (k - 1) + 1 /\ k - 1 \in 0 .. l /\ ~(k <= k - 1) /\ k \in 1 .. l
    BY <1>4, <1>5
  <2> QED
    BY <2>1
<1>7. Count(t, d + i) = Count(t, d) + Count(s, i)
  <2>1. i \notin Bad
    BY <1>3, <1>6
  <2> QED
    BY <1>6, <2>1
<1>8. d + i \in Nat /\ (d + i) + 1 = d + k
  BY <1>6
<1>9. Count(t, d + k) = Count(t, d + i) + IF d + k \in Written(t) THEN 1 ELSE 0
  BY <1>8, CountIs
<1>10. Count(s, k) = Count(s, i) + IF k \in Written(s) THEN 1 ELSE 0
  BY <1>6, CountIs
<1>11. Count(s, i) \in Nat /\ Count(t, d) \in Nat
  BY <1>6, CountIs
<1>12. k \in Written(s) <=> d + k \in Written(t)
  BY <1>1, <1>6 DEF SpanOf
<1> QED
  BY <1>4, <1>7, <1>9, <1>10, <1>11, <1>12

\* The places of what a quotation reads like in a text.
LEMMA PlacesRead ==
  ASSUME NEW C, NEW t \in Seq(C), NEW q \in Seq(C), NEW f \in Nat, At(Normal(q), Normal(t), f),
         NEW k \in 1 .. Len(Normal(q))
  PROVE  /\ Place(t, f + k) \in Written(t) /\ Place(t, f + k) \in 1 .. Len(t) /\ Count(t, Place(t, f + k)) = f + k
         /\ t[Place(t, f + k)] \in Space => Normal(q)[k] = " "
         /\ t[Place(t, f + k)] \notin Space => Normal(q)[k] = t[Place(t, f + k)]
<1>1. PICK D : D = C \cup {" "}
  OBVIOUS
<1>2. Normal(t) \in Seq(D) /\ Normal(q) \in Seq(D)
  BY <1>1, NormalIs
<1>3. f + k \in 1 .. Len(Normal(t)) /\ Normal(t)[f + k] = Normal(q)[k]
  BY <1>2, AtIs
<1>4. f + k \in 1 .. Cardinality(Written(t))
  BY <1>3, NormalIs
<1>5. /\ t[Place(t, f + k)] \in Space => Normal(t)[f + k] = " "
      /\ t[Place(t, f + k)] \notin Space => Normal(t)[f + k] = t[Place(t, f + k)]
  BY <1>3, NormalIs
<1> QED
  BY <1>3, <1>4, <1>5, PlaceIs

LEMMA PlacesRise ==
  ASSUME NEW C, NEW t \in Seq(C), NEW a \in Nat, NEW b \in Nat, a \in Written(t), Count(t, a) <= Count(t, b)
  PROVE  a <= b
<1>1. b < a => Count(t, b) < Count(t, a)
  BY CountGrows
<1>2. Count(t, a) \in Nat /\ Count(t, b) \in Nat
  BY CountIs
<1> QED
  BY <1>1, <1>2

\* A span reads like the written characters between its ends.
LEMMA SpanReads ==
  ASSUME NEW C, NEW t \in Seq(C), NEW s \in Seq(C), NEW d \in Nat, SpanOf(s, t, d)
  PROVE  /\ Count(t, d + Len(s)) = Count(t, d) + Len(Normal(s))
         /\ \A k \in 1 .. Len(Normal(s)) :
               /\ t[Place(t, Count(t, d) + k)] \in Space => Normal(s)[k] = " "
               /\ t[Place(t, Count(t, d) + k)] \notin Space => Normal(s)[k] = t[Place(t, Count(t, d) + k)]
<1>1. ASSUME NEW m \in 0 .. Len(s) PROVE Count(t, d + m) = Count(t, d) + Count(s, m)
  BY SpanCount
<1>2. Len(s) \in Nat /\ Len(s) \in 0 .. Len(s)
  BY LenProperties
<1>3. Count(s, Len(s)) = Cardinality(Written(s)) /\ Cardinality(Written(s)) \in Nat
  BY CountIs, WrittenIs
<1>4. Len(Normal(s)) = Cardinality(Written(s))
  BY NormalIs
<1>5. Count(t, d + Len(s)) = Count(t, d) + Len(Normal(s))
  BY <1>1, <1>2, <1>3, <1>4
<1>6. ASSUME NEW k \in 1 .. Len(Normal(s))
      PROVE  /\ t[Place(t, Count(t, d) + k)] \in Space => Normal(s)[k] = " "
             /\ t[Place(t, Count(t, d) + k)] \notin Space => Normal(s)[k] = t[Place(t, Count(t, d) + k)]
  <2>1. Place(s, k) \in Written(s) /\ Place(s, k) \in 1 .. Len(s) /\ Count(s, Place(s, k)) = k
    BY <1>4, PlaceIs
  <2>2. PICK p : p = Place(s, k) /\ p \in Written(s) /\ p \in 1 .. Len(s) /\ Count(s, p) = k
    BY <2>1
  <2>3. p \in 0 .. Len(s)
    BY <2>2
  <2>4. d + p \in Written(t) /\ s[p] = t[d + p] /\ Count(t, d + p) = Count(t, d) + k
    BY <1>1, <2>2, <2>3 DEF SpanOf
  <2>5. Place(t, Count(t, d + p)) = d + p
    BY <2>4, PlaceIsOne
  <2>6. t[Place(t, Count(t, d) + k)] = s[p]
    BY <2>2, <2>4, <2>5
  <2>7. /\ s[Place(s, k)] \in Space => Normal(s)[k] = " "
        /\ s[Place(s, k)] \notin Space => Normal(s)[k] = s[Place(s, k)]
    BY NormalIs
  <2> QED
    BY <2>2, <2>6, <2>7
<1> QED
  BY <1>5, <1>6

\* From the place of the first to that of the last of its characters a text reads like a quotation.
LEMMA SpanFound ==
  ASSUME NEW C, NEW t \in Seq(C), NEW q \in Seq(C), ~AllSpace(q), NEW f \in Nat, At(Normal(q), Normal(t), f)
  PROVE  LET s == SubSeq(t, Place(t, f + 1), Place(t, f + Len(Normal(q))))
         IN  s \in Seq(C) /\ Occurs(s, t) /\ Normal(s) = Normal(q)
<1>1. PICK n, a, b : n = Normal(q) /\ a = Place(t, f + 1) /\ b = Place(t, f + Len(n))
  OBVIOUS
<1>2. PICK l \in Nat : l = Len(n)
  BY <1>1, NormalIs, LenProperties
<1>21. 1 <= l /\ 1 \in 1 .. l /\ l \in 1 .. l
  <2>1. 1 \in 1 .. Len(n)
    BY <1>1, NormalEnds
  <2> QED
    BY <1>2, <2>1
<1>22. n[1] # " " /\ n[l] # " "
  BY <1>1, <1>2, NormalEnds
<1>3. ASSUME NEW k \in 1 .. l
      PROVE
         /\ Place(t, f + k) \in Written(t) /\ Place(t, f + k) \in 1 .. Len(t) /\ Count(t, Place(t, f + k)) = f + k
         /\ t[Place(t, f + k)] \in Space => n[k] = " "
         /\ t[Place(t, f + k)] \notin Space => n[k] = t[Place(t, f + k)]
  <2>1. k \in 1 .. Len(Normal(q))
    BY <1>1, <1>2
  <2>2. /\ Place(t, f + k) \in Written(t) /\ Place(t, f + k) \in 1 .. Len(t) /\ Count(t, Place(t, f + k)) = f + k
        /\ t[Place(t, f + k)] \in Space => Normal(q)[k] = " "
        /\ t[Place(t, f + k)] \notin Space => Normal(q)[k] = t[Place(t, f + k)]
    BY <2>1, PlacesRead
  <2> QED
    BY <1>1, <2>2
<1>4. /\ a \in Written(t) /\ a \in 1 .. Len(t) /\ Count(t, a) = f + 1 /\ t[a] \notin Space
      /\ b \in Written(t) /\ b \in 1 .. Len(t) /\ Count(t, b) = f + l /\ t[b] \notin Space
  <2>1. t[a] \notin Space /\ t[b] \notin Space
    BY <1>1, <1>2, <1>21, <1>22, <1>3
  <2> QED
    BY <1>1, <1>2, <1>21, <1>3, <2>1
<1>5. a \in Nat /\ b \in Nat /\ 1 <= a /\ b <= Len(t) /\ Len(t) \in Nat
  BY <1>4, LenProperties
<1>6. a <= b
  <2>1. f + 1 <= f + l
    BY <1>21
  <2>2. Count(t, a) <= Count(t, b)
    BY <1>4, <2>1, Zenon
  <2>3. a \in Written(t)
    BY <1>4
  <2> QED
    BY <1>5, <2>2, <2>3, PlacesRise
<1>7. PICK s : s = SubSeq(t, a, b)
  OBVIOUS
<1>8. /\ s \in Seq(C) /\ Len(s) = b - a + 1 /\ Occurs(s, t)
      /\ \A j \in 1 .. Len(s) : s[j] = t[a - 1 + j]
  BY <1>4, <1>6, <1>7, SpanText
<1>9. PICK d \in Nat : d = a - 1 /\ d + 1 = a
  <2>1. a - 1 \in Nat /\ (a - 1) + 1 = a
    BY <1>5
  <2> QED
    BY <2>1
<1>10. \A j \in 1 .. Len(s) : j \in Written(s) <=> a - 1 + j \in Written(t)
  BY <1>4, <1>5, <1>6, <1>8, SpanWritten
<1>11. Count(t, d) = f
  <2>1. Count(t, a) = Count(t, d) + 1 /\ Count(t, d) \in Nat
    BY <1>4, <1>9, CountIs
  <2> QED
    BY <1>4, <2>1
<1>12. Count(t, d + Len(s)) = f + l
  <2>1. d + Len(s) = b
    BY <1>5, <1>8, <1>9
  <2> QED
    BY <1>4, <2>1
<1>13. /\ Count(t, d + Len(s)) = Count(t, d) + Len(Normal(s))
       /\ \A k \in 1 .. Len(Normal(s)) :
             /\ t[Place(t, Count(t, d) + k)] \in Space => Normal(s)[k] = " "
             /\ t[Place(t, Count(t, d) + k)] \notin Space => Normal(s)[k] = t[Place(t, Count(t, d) + k)]
  <2>1. SpanOf(s, t, d)
    BY <1>8, <1>9, <1>10 DEF SpanOf
  <2>2. s \in Seq(C)
    BY <1>8
  <2> QED
    BY <2>1, <2>2, SpanReads
<1>14. Normal(s) = n
  <2>1. PICK D : D = C \cup {" "}
    OBVIOUS
  <2>2. Normal(s) \in Seq(D) /\ n \in Seq(D) /\ Len(Normal(s)) \in Nat
    BY <1>1, <1>8, <2>1, NormalIs, LenProperties
  <2>3. Len(Normal(s)) = l
    <3>1. f + l = f + Len(Normal(s))
      BY <1>11, <1>12, <1>13
    <3> QED
      BY <2>2, <3>1
  <2>4. ASSUME NEW k \in 1 .. Len(Normal(s)) PROVE Normal(s)[k] = n[k]
    <3>1. k \in 1 .. l
      BY <2>3
    <3>2. /\ t[Place(t, f + k)] \in Space => Normal(s)[k] = " "
          /\ t[Place(t, f + k)] \notin Space => Normal(s)[k] = t[Place(t, f + k)]
      BY <1>11, <1>13
    <3>3. /\ t[Place(t, f + k)] \in Space => n[k] = " "
          /\ t[Place(t, f + k)] \notin Space => n[k] = t[Place(t, f + k)]
      BY <1>3, <3>1
    <3> QED
      BY <3>2, <3>3, Zenon
  <2>5. Len(Normal(s)) = Len(n)
    BY <1>2, <2>3
  <2> QED
    BY <2>2, <2>4, <2>5, SeqEqual
<1> QED
  BY <1>1, <1>7, <1>8, <1>14

LEMMA SpanIs ==
  ASSUME NEW C, NEW t \in Seq(C), NEW q \in Seq(C), ~AllSpace(q), Quotes(t, q)
  PROVE  Span(t, q) \in Seq(C) /\ Occurs(Span(t, q), t) /\ Normal(Span(t, q)) = Normal(q)
<1>1. CASE Occurs(q, t)
  BY <1>1 DEF Span
<1>2. CASE ~Occurs(q, t)
  <2>1. PICK n, N, f : n = Normal(q) /\ N = Normal(t) /\ f = First(n, N)
    OBVIOUS
  <2>2. Span(t, q) = SubSeq(t, Place(t, f + 1), Place(t, f + Len(n)))
    BY <1>2, <2>1 DEF Span
  <2>3. f \in Nat /\ At(n, N, f)
    <3> DEFINE T == {i \in 0 .. Len(N) : At(n, N, i)}
    <3>1. Len(N) \in Nat
      BY <2>1, NormalIs, LenProperties
    <3>2. T # {} /\ T \in SUBSET Nat
      BY <1>2, <2>1, <3>1 DEF Quotes, Occurs
    <3>3. PICK x \in T : \A y \in T : x <= y
      <4> HIDE DEF T
      <4> QED
        BY <3>2, LeastExists
    <3>4. x \in 0 .. Len(N) /\ At(n, N, x)
      BY <3>3
    <3>5. ASSUME NEW j \in 0 .. (x - 1) PROVE ~At(n, N, j)
      <4>1. j \in 0 .. Len(N) /\ ~(x <= j)
        BY <3>1, <3>4
      <4> QED
        BY <3>3, <4>1
    <3>6. \E i \in 0 .. Len(N) : At(n, N, i) /\ \A j \in 0 .. (i - 1) : ~At(n, N, j)
      BY <3>4, <3>5
    <3>7. f \in 0 .. Len(N) /\ At(n, N, f)
      BY <2>1, <3>6 DEF First
    <3> QED
      BY <3>1, <3>7
  <2> QED
    BY <2>1, <2>2, <2>3, SpanFound
<1> QED
  BY <1>1, <1>2

-----------------------------------------------------------------------------
(* A review never strands a durable answer: its calls but the last were    *)
(* given up, what the last one brought can be read again by whoever comes  *)
(* later, and the outcome, once there is one, is what it brought.          *)

Chars == {"x", " ", "\n", "\\n", "{", "}", ",", "claim:", "scope:", "c", "r"}
Item == [kind : QuotedKinds, id : {"elsewhere", "step", "branch", "task", "paper"}, quote : Seq(Chars)]
Body == [verdict : {"none", "garbage", "ok", "objection", "hard_defect", "instrument_failure", "pass", "near_pass", "fail"},
         items : SUBSET Item]
Attempt == [state : {"started", "finished", "failed"}, failure : {"none", "retryable", "context", "fatal"},
            body : Body, row : {"none", "open", "closed"}, handle : BOOLEAN,
            turn : {"none", "running", "completed", "failed"}, answer : Body]

\* An answer that can be completed, whoever reads it.
Good(a) ==
    /\ Valid(a) /\ a.verdict # "instrument_failure" /\ (a.verdict = "hard_defect" => a.items # {})
    /\ \A i \in a.items : InCatalog(i) /\ CopiesASource(i)

Sane(c) ==
    /\ c.state = "started" => c.failure = "none"
    /\ c.state = "finished" => Good(c.body)
    /\ review.role = "judge" => c.answer.items = {}
    /\ V1_1 /\ c.failure \in {"retryable", "context"} /\ c.handle => c.turn # "running"

CallsAre ==
    /\ attempts \in Seq(Attempt) /\ text \in Seq(Chars)
    /\ \A n \in 1 .. Now : Sane(attempts[n])
    /\ \A n \in 1 .. (Now - 1) : attempts[n].state = "failed" /\ attempts[n].failure \in {"retryable", "context"}

WhereIs ==
    /\ reviewAt \in {"down", "loop", "intent", "mark", "start", "attach", "collect", "row", "settle"}
    /\ reviewAt \in {"mark", "start", "attach", "collect"} => Now > 0 /\ Asked /\ Latest.state = "started"
    /\ reviewAt \in {"mark", "start", "attach"} => ~Latest.handle
    /\ reviewAt \in {"row", "settle"} => Now > 0 /\ Asked /\ Latest.state # "started"
    /\ reviewAt = "intent" => Asked /\ intents = 0
    /\ intents \in 0 .. 1

OutcomeIs ==
    /\ outcome.state \in {"none", "requested", "completed"} /\ outcome.call \in 0 .. Now
    /\ outcome.state = "none" =>
          Now = 0 /\ intents = 0 /\ outcome = [state |-> "none", verdict |-> "none", items |-> {}, call |-> 0]
    /\ InFlight => Asked
    /\ outcome.state = "completed" =>
          /\ outcome.call = Now /\ Now > 0 /\ Latest.state # "started"
          /\ Latest.state = "finished" =>
                outcome.verdict = Latest.body.verdict /\ outcome.items = {Copied(i) : i \in Latest.body.items}
          /\ Latest.state = "failed" => outcome.verdict = "instrument_failure" /\ outcome.items = {}

ReviewInv == CallsAre /\ WhereIs /\ OutcomeIs /\ RetriesInBudget

LEMMA SourcesAre ==
  ASSUME text \in Seq(Chars), NEW kind, NEW id
  PROVE  Sources(kind, id) \in Seq(Seq(Chars))
<1>1. \A s \in Seq(Chars) : <<s>> \in Seq(Seq(Chars))
  OBVIOUS
<1>2. <<>> \in Seq(Seq(Chars))
  OBVIOUS
<1>3. Escaped \in Seq(Chars)
  <2>1. Len(text) \in Nat /\ DOMAIN text = 1 .. Len(text) /\ \A i \in 1 .. Len(text) : text[i] \in Chars
    BY LenProperties, ElementOfSeq
  <2>2. "\\n" \in Chars
    BY DEF Chars
  <2>3. Escaped \in [1 .. Len(text) -> Chars]
    BY <2>1, <2>2 DEF Escaped
  <2> QED
    BY <2>1, <2>3, FunctionIsSeq
<1>4. \A s1, s2 \in Seq(Chars) : s1 \o s2 \in Seq(Chars)
  BY ConcatProperties
<1>5. /\ <<"claim:", "\n">> \in Seq(Chars) /\ <<"\n", "\n", "scope:", "\n">> \in Seq(Chars)
      /\ <<"{">> \in Seq(Chars) /\ <<",">> \in Seq(Chars) /\ <<"}">> \in Seq(Chars) /\ <<"c", " ", "r">> \in Seq(Chars)
  <2>1. {"claim:", "scope:", "\n", "{", "}", ",", "c", " ", "r"} \subseteq Chars
    BY DEF Chars
  <2>2. \A c \in Chars : <<c>> \in Seq(Chars)
    OBVIOUS
  <2>3. \A c, d \in Chars : <<c, d>> \in Seq(Chars)
    OBVIOUS
  <2>4. \A c, d, e \in Chars : <<c, d, e>> \in Seq(Chars)
    OBVIOUS
  <2>5. \A c, d, e, f \in Chars : <<c, d, e, f>> \in Seq(Chars)
    OBVIOUS
  <2> QED
    BY <2>1, <2>2, <2>3, <2>4, <2>5
<1>6. AncestorText \in Seq(Chars)
  BY <1>3, <1>4, <1>5 DEF AncestorText
<1>7. <<text>> \o CompletionRequirements \in Seq(Seq(Chars))
  <2>1. CompletionRequirements \in Seq(Seq(Chars))
    BY <1>1, <1>5 DEF CompletionRequirements
  <2> QED
    BY <1>1, <2>1, ConcatProperties
<1> QED
  BY <1>1, <1>2, <1>6, <1>7 DEF Sources

\* What is recorded of a quotation is a text of its source, and reads like it.
LEMMA CopiedIs ==
  ASSUME text \in Seq(Chars), NEW i \in Item, CopiesASource(i)
  PROVE  /\ Copied(i).kind = i.kind /\ Copied(i).id = i.id
         /\ \E n \in DOMAIN Sources(i.kind, i.id) : Occurs(Copied(i).quote, Sources(i.kind, i.id)[n])
         /\ Normal(Copied(i).quote) = Normal(i.quote)
<1>1. PICK ts \in Seq(Seq(Chars)) : ts = Sources(i.kind, i.id) /\ DOMAIN ts \subseteq Nat
  BY SourcesAre, LenProperties
<1>2. i.quote \in Seq(Chars) /\ ~AllSpace(i.quote)
  BY DEF Item, CopiesASource
<1>3. CASE \E m \in DOMAIN ts : Occurs(i.quote, ts[m])
  <2>1. Copied(i) = i
    BY <1>1, <1>3 DEF Copied
  <2> QED
    BY <1>1, <1>3, <2>1
<1>4. CASE ~\E m \in DOMAIN ts : Occurs(i.quote, ts[m])
  <2>1. PICK n : n = CHOOSE m \in DOMAIN ts : Quotes(ts[m], i.quote) /\ \A k \in 1 .. (m - 1) : ~Quotes(ts[k], i.quote)
    OBVIOUS
  <2>2. n \in DOMAIN ts /\ Quotes(ts[n], i.quote)
    <3> DEFINE T == {m \in DOMAIN ts : Quotes(ts[m], i.quote)}
    <3>1. T # {} /\ T \in SUBSET Nat
      BY <1>1 DEF CopiesASource
    <3>2. PICK x \in T : \A y \in T : x <= y
      <4> HIDE DEF T
      <4> QED
        BY <3>1, LeastExists
    <3>3. ASSUME NEW k \in 1 .. (x - 1) PROVE ~Quotes(ts[k], i.quote)
      <4>1. Len(ts) \in Nat /\ DOMAIN ts = 1 .. Len(ts) /\ x \in 1 .. Len(ts)
        BY <3>2, LenProperties
      <4>2. k \in DOMAIN ts /\ ~(x <= k)
        BY <4>1
      <4> QED
        BY <3>2, <4>2
    <3>4. \E m \in DOMAIN ts : Quotes(ts[m], i.quote) /\ \A k \in 1 .. (m - 1) : ~Quotes(ts[k], i.quote)
      BY <3>2, <3>3
    <3> QED
      BY <2>1, <3>4
  <2>3. Copied(i) = [i EXCEPT !.quote = Span(ts[n], i.quote)]
    BY <1>1, <1>4, <2>1 DEF Copied
  <2>4. Copied(i).quote = Span(ts[n], i.quote) /\ Copied(i).kind = i.kind /\ Copied(i).id = i.id
    BY <2>3 DEF Item
  <2>5. ts[n] \in Seq(Chars)
    BY <2>2, LenProperties, ElementOfSeq
  <2>6. Occurs(Span(ts[n], i.quote), ts[n]) /\ Normal(Span(ts[n], i.quote)) = Normal(i.quote)
    BY <1>2, <2>2, <2>5, SpanIs
  <2> QED
    BY <1>1, <2>2, <2>4, <2>6
<1> QED
  BY <1>3, <1>4

\* Hence the Record accepts what the host writes of a good answer.
LEMMA CopiedStands ==
  ASSUME text \in Seq(Chars), NEW i \in Item, InCatalog(i), CopiesASource(i)
  PROVE  /\ ReplayAccepts(Copied(i))
         /\ \E n \in DOMAIN Sources(Copied(i).kind, Copied(i).id) : Occurs(Copied(i).quote, Sources(Copied(i).kind, Copied(i).id)[n])
<1>1. PICK j : j = Copied(i)
  OBVIOUS
<1>2. j.kind = i.kind /\ j.id = i.id /\ \E n \in DOMAIN Sources(j.kind, j.id) : Occurs(j.quote, Sources(j.kind, j.id)[n])
  BY <1>1, CopiedIs
<1>3. InCatalog(j)
  BY <1>2 DEF InCatalog
<1>4. j.kind = "task_constraint_quote" => j.id = "task"
  BY <1>3 DEF InCatalog, Sources
<1>5. ReplayAccepts(j)
  BY <1>2, <1>3, <1>4 DEF ReplayAccepts
<1> QED
  BY <1>1, <1>2, <1>5

\* What was asked and what the sources say do not change.
LEMMA SourcesStay ==
  ASSUME UNCHANGED <<review, text>>, NEW kind, NEW id
  PROVE  Sources(kind, id)' = Sources(kind, id)
BY DEF Sources, AncestorText, Escaped, V1_1

LEMMA GoodStays ==
  ASSUME UNCHANGED <<review, text>>, NEW a
  PROVE  Good(a)' <=> Good(a)
<1>1. \A kind, id : Sources(kind, id)' = Sources(kind, id)
  BY SourcesStay
<1>2. \A i : InCatalog(i)' = InCatalog(i)
  BY <1>1 DEF InCatalog
<1>3. \A i : CopiesASource(i)' <=> CopiesASource(i)
  BY <1>1 DEF CopiesASource
<1>4. ValidCheck(a)' <=> ValidCheck(a)
  BY <1>2, <1>3 DEF ValidCheck
<1> QED
  BY <1>2, <1>3, <1>4 DEF Good, Valid

LEMMA SaneStays ==
  ASSUME UNCHANGED <<review, text>>, NEW c
  PROVE  Sane(c)' <=> Sane(c)
BY GoodStays DEF Sane, V1_1

LEMMA CopiedStays ==
  ASSUME UNCHANGED <<review, text>>, NEW i
  PROVE  Copied(i)' = Copied(i)
<1>1. Sources(i.kind, i.id)' = Sources(i.kind, i.id)
  BY SourcesStay
<1> QED
  BY <1>1 DEF Copied

LEMMA EntrySet ==
  ASSUME NEW S, NEW as \in Seq(S), NEW n \in 1 .. Len(as), NEW e \in S, NEW f, f = [as EXCEPT ![n] = e]
  PROVE  /\ f \in Seq(S) /\ Len(f) = Len(as)
         /\ \A m \in 1 .. Len(as) : f[m] = IF m = n THEN e ELSE as[m]
<1>1. Len(as) \in Nat /\ DOMAIN as = 1 .. Len(as) /\ as \in [1 .. Len(as) -> S]
  BY LenProperties
<1>2. f \in [1 .. Len(as) -> S] /\ \A m \in 1 .. Len(as) : f[m] = IF m = n THEN e ELSE as[m]
  BY <1>1
<1>3. f \in Seq(S) /\ Len(f) = Len(as)
  BY <1>1, <1>2, FunctionIsSeq
<1> QED
  BY <1>2, <1>3

LEMMA LatestIs ==
  ASSUME ReviewInv, Now > 0
  PROVE  Now \in 1 .. Now /\ Latest \in Attempt /\ Sane(Latest) /\ attempts[Now] = Latest /\ Len(attempts) = Now
<1>1. Now \in 1 .. Now /\ attempts \in Seq(Attempt)
  BY LenProperties DEF ReviewInv, CallsAre, Now
<1>2. Latest \in Attempt
  BY <1>1, ElementOfSeq DEF Latest, Now
<1> QED
  BY <1>1, <1>2 DEF ReviewInv, CallsAre, Latest, Now

LEMMA ReviewNumbers ==
  ASSUME ReviewInv
  PROVE  Now \in Nat /\ Excuse \in {0, 1} /\ Now - Excuse <= ReviewRetries + 1 /\ ReviewRetries \in Nat
BY LenProperties, ReviewsAssumption DEF ReviewInv, CallsAre, Now, Excuse, RetriesInBudget

\* What is excused stays excused.
LEMMA ExcuseGrows ==
  ASSUME UNCHANGED review, Now \in Nat, Now' \in Nat, Now <= Now',
         \A n \in 1 .. Now : attempts[n].failure = "context" => attempts'[n].failure = "context"
  PROVE  Excuse \in {0, 1} /\ Excuse' \in {0, 1} /\ Excuse <= Excuse'
<1>1. \A n \in 1 .. Now : n \in 1 .. Now'
  OBVIOUS
<1>2. CASE Excuse = 0
  BY <1>2 DEF Excuse
<1>3. CASE Excuse # 0
  <2>1. V1_1 /\ \E n \in 1 .. Now : attempts[n].failure = "context"
    BY <1>3 DEF Excuse
  <2>2. V1_1' /\ \E n \in 1 .. Now' : attempts'[n].failure = "context"
    BY <1>1, <2>1 DEF V1_1
  <2>3. Excuse' = 1
    BY <2>2 DEF Excuse
  <2> QED
    BY <2>3 DEF Excuse
<1> QED
  BY <1>2, <1>3

LEMMA SaneNext ==
  ASSUME UNCHANGED <<review, text>>, NEW n, Sane(attempts'[n])
  PROVE  Sane(attempts[n])'
<1>1. PICK e : e = attempts'[n]
  OBVIOUS
<1>2. Sane(e)
  BY <1>1
<1>3. Sane(e)'
  BY <1>2, SaneStays
<1> QED
  BY <1>1, <1>3 DEF Sane, Good, Valid, ValidCheck

LEMMA CallsKeep ==
  ASSUME ReviewInv, UNCHANGED <<review, text>>, attempts' \in Seq(Attempt), Len(attempts') = Now,
         \A n \in 1 .. Now : /\ Sane(attempts'[n])
                             /\ attempts[n].failure = "context" => attempts'[n].failure = "context"
                             /\ n < Now => attempts'[n].state = attempts[n].state
                                           /\ attempts'[n].failure = attempts[n].failure
  PROVE  CallsAre' /\ RetriesInBudget' /\ Now' = Now
<1>1. Now' = Now /\ Now \in Nat
  BY LenProperties DEF Now
<1>2. \A n \in 1 .. Now' : Sane(attempts[n])'
  <2>1. SUFFICES ASSUME NEW n \in 1 .. Now' PROVE Sane(attempts[n])'
    OBVIOUS
  <2>2. Sane(attempts'[n])
    BY <1>1
  <2> QED
    BY <2>2, SaneNext
<1>3. \A n \in 1 .. (Now' - 1) : attempts'[n].state = "failed" /\ attempts'[n].failure \in {"retryable", "context"}
  BY <1>1 DEF ReviewInv, CallsAre
<1>4. text' \in Seq(Chars)
  BY DEF ReviewInv, CallsAre
<1>5. CallsAre'
  BY <1>2, <1>3, <1>4 DEF CallsAre
<1>6. Excuse \in {0, 1} /\ Excuse' \in {0, 1} /\ Excuse <= Excuse'
  BY <1>1, ExcuseGrows
<1>7. Now' - Excuse' <= ReviewRetries + 1
  BY <1>1, <1>6, ReviewNumbers
<1> QED
  BY <1>1, <1>5, <1>7 DEF RetriesInBudget

\* While the review is asked for, its outcome has only to wait.
LEMMA OutcomeWaits ==
  ASSUME OutcomeIs, Asked, UNCHANGED outcome, Now \in Nat, Now' \in Nat, Now <= Now'
  PROVE  OutcomeIs' /\ Asked'
BY DEF OutcomeIs, Asked, InFlight

LEMMA OutcomeStays ==
  ASSUME ReviewInv, UNCHANGED <<review, text, outcome, intents>>, Now' = Now,
         Now > 0 => Latest'.state = Latest.state /\ Latest'.body = Latest.body
  PROVE  OutcomeIs'
<1>1. \A i : Copied(i)' = Copied(i)
  BY CopiedStays
<1>2. Now > 0 => {Copied(i) : i \in Latest.body.items}' = {Copied(i) : i \in Latest.body.items}
  BY <1>1
<1> QED
  BY <1>2 DEF ReviewInv, OutcomeIs, InFlight, Asked

-----------------------------------------------------------------------------
(* One call changes in a step. *)

\* The sequence of calls `as` with which a step goes on says of each call what the Record says.
SameCalls(as) ==
    /\ as \in Seq(Attempt) /\ Len(as) = Now
    /\ \A n \in 1 .. Now : /\ as[n].state = attempts[n].state /\ as[n].failure = attempts[n].failure
                           /\ as[n].body = attempts[n].body /\ as[n].answer = attempts[n].answer
                           /\ n < Now => Sane(as[n])

\* A step that goes on with `as`, its last call replaced by e.
LEMMA LastChanges ==
  ASSUME ReviewInv, Now > 0, UNCHANGED <<review, text>>, NEW as, SameCalls(as), NEW e \in Attempt,
         attempts' = [as EXCEPT ![Now] = e], Sane(e), Latest.failure = "context" => e.failure = "context"
  PROVE  CallsAre' /\ RetriesInBudget' /\ Now' = Now /\ Latest' = e
<1>1. Now \in 1 .. Len(as) /\ Now \in 1 .. Now /\ Now \in Nat /\ attempts[Now] = Latest
  BY LatestIs, ReviewNumbers DEF SameCalls
<1>6. as \in Seq(Attempt) /\ Len(as) = Now
  BY DEF SameCalls
<1>2. /\ attempts' \in Seq(Attempt) /\ Len(attempts') = Now
      /\ \A m \in 1 .. Now : attempts'[m] = IF m = Now THEN e ELSE as[m]
  <2>1. PICK k, f : k = Now /\ f = [as EXCEPT ![k] = e]
    OBVIOUS
  <2>2. as \in Seq(Attempt) /\ k \in 1 .. Len(as) /\ e \in Attempt
    BY <1>6, <1>1, <2>1
  <2>3. Len(as) \in Nat /\ DOMAIN as = 1 .. Len(as) /\ as \in [1 .. Len(as) -> Attempt]
    BY <2>2, LenProperties
  <2>4. f \in [1 .. Len(as) -> Attempt] /\ \A m \in 1 .. Len(as) : f[m] = IF m = k THEN e ELSE as[m]
    BY <2>1, <2>2, <2>3
  <2>5. f \in Seq(Attempt) /\ Len(f) = Len(as)
    BY <2>3, <2>4, FunctionIsSeq
  <2> QED
    BY <1>6, <2>1, <2>4, <2>5
<1>3. \A n \in 1 .. Now : /\ Sane(attempts'[n])
                          /\ attempts[n].failure = "context" => attempts'[n].failure = "context"
                          /\ n < Now => attempts'[n].state = attempts[n].state
                                        /\ attempts'[n].failure = attempts[n].failure
  <2> SUFFICES ASSUME NEW n \in 1 .. Now
               PROVE  /\ Sane(attempts'[n])
                      /\ attempts[n].failure = "context" => attempts'[n].failure = "context"
                      /\ n < Now => attempts'[n].state = attempts[n].state
                                    /\ attempts'[n].failure = attempts[n].failure
    OBVIOUS
  <2>1. CASE n = Now
    BY <1>1, <1>2, <2>1
  <2>2. CASE n # Now
    <3>1. attempts'[n] = as[n] /\ n < Now
      BY <1>1, <1>2, <2>2
    <3> QED
      BY <3>1 DEF SameCalls
  <2> QED
    BY <2>1, <2>2
<1>4. CallsAre' /\ RetriesInBudget' /\ Now' = Now
  BY <1>2, <1>3, CallsKeep
<1>5. Latest' = e
  BY <1>1, <1>2, <1>4 DEF Latest
<1> QED
  BY <1>4, <1>5

LEMMA SameIsSame ==
  ASSUME ReviewInv
  PROVE  SameCalls(attempts)
BY LenProperties DEF ReviewInv, CallsAre, SameCalls, Now

\* The calls as a step leaves them but for the row, handle or turn of the last.
LEMMA SameWith ==
  ASSUME ReviewInv, Now > 0, NEW e \in Attempt,
         e.state = Latest.state, e.failure = Latest.failure, e.body = Latest.body, e.answer = Latest.answer
  PROVE  SameCalls([attempts EXCEPT ![Now] = e])
<1>1. Now \in 1 .. Len(attempts) /\ Now \in Nat /\ attempts[Now] = Latest /\ Len(attempts) = Now /\ attempts \in Seq(Attempt)
  BY LatestIs, ReviewNumbers DEF ReviewInv, CallsAre
<1>2. PICK as : as = [attempts EXCEPT ![Now] = e]
  OBVIOUS
<1>3. /\ as \in Seq(Attempt) /\ Len(as) = Now
      /\ \A m \in 1 .. Now : as[m] = IF m = Now THEN e ELSE attempts[m]
  BY <1>1, <1>2, EntrySet
<1>4. SameCalls(as)
  <2>1. \A m \in 1 .. Now : /\ as[m].state = attempts[m].state /\ as[m].failure = attempts[m].failure
                            /\ as[m].body = attempts[m].body /\ as[m].answer = attempts[m].answer
    BY <1>1, <1>3
  <2>2. \A m \in 1 .. Now : m < Now => Sane(as[m])
    <3>1. \A m \in 1 .. Now : Sane(attempts[m])
      BY DEF ReviewInv, CallsAre
    <3>2. \A m \in 1 .. Now : m < Now => m # Now
      BY <1>1
    <3>3. \A m \in 1 .. Now : m # Now => as[m] = attempts[m]
      BY <1>3
    <3> QED
      BY <3>1, <3>2, <3>3
  <2> QED
    BY <1>3, <2>1, <2>2 DEF SameCalls
<1> QED
  BY <1>2, <1>4

LEMMA NothingIs ==
  Nothing \in Body /\ Nothing.items = {}
BY DEF Nothing, Body

\* A call that is given up.
LEMMA FailsKeep ==
  ASSUME ReviewInv, Now > 0, Asked, Latest.state = "started", UNCHANGED <<review, text, outcome, intents>>,
         NEW as, SameCalls(as), NEW why \in {"retryable", "context", "fatal"}, FailsLatest(as, why),
         V1_1 /\ why # "fatal" /\ as[Now].handle => as[Now].turn # "running"
  PROVE  ReviewInv'
<1>1. Now \in 1 .. Now /\ Now \in Nat /\ attempts[Now] = Latest /\ Latest.failure = "none"
  BY LatestIs, ReviewNumbers DEF Sane
<1>2. as[Now] \in Attempt
  BY <1>1, ElementOfSeq DEF SameCalls
<1>3. PICK e : e = [as[Now] EXCEPT !.state = "failed", !.failure = why, !.answer = Nothing]
  OBVIOUS
<1>4. /\ e \in Attempt /\ e.state = "failed" /\ e.failure = why /\ e.answer = Nothing
      /\ e.handle = as[Now].handle /\ e.turn = as[Now].turn
  BY <1>2, <1>3, NothingIs DEF Attempt
<1>5. attempts' = [as EXCEPT ![Now] = e]
  <2>1. as \in Seq(Attempt) /\ DOMAIN as = 1 .. Now
    BY LenProperties DEF SameCalls
  <2> QED
    BY <1>1, <1>3, <2>1 DEF FailsLatest, Failed
<1>6. Sane(e)
  BY <1>4, NothingIs DEF Sane
<1>7. CallsAre' /\ RetriesInBudget' /\ Now' = Now /\ Latest' = e
  BY <1>1, <1>4, <1>5, <1>6, LastChanges
<1>8. OutcomeIs' /\ Asked'
  BY <1>1, <1>7, OutcomeWaits DEF ReviewInv
<1>9. WhereIs'
  BY <1>4, <1>7, <1>8 DEF FailsLatest, ReviewInv, WhereIs
<1> QED
  BY <1>7, <1>8, <1>9 DEF ReviewInv

\* What is parsed and valid is good.
LEMMA ReadIsGood ==
  ASSUME NEW a, NEW requested, Parsed(a, requested), Valid(a), review.role = "judge" => a.items = {}
  PROVE  Good(a)
BY DEF Parsed, ParsedJudgement, ParsedCheck, Valid, ValidCheck, Good

LEMMA ReadsKeep ==
  ASSUME ReviewInv, Now > 0, Asked, Latest.state = "started", UNCHANGED <<review, text, outcome, intents>>,
         NEW as, SameCalls(as), as[Now].turn # "running", NEW requested, Reads(as, requested)
  PROVE  ReviewInv'
<1>1. Now \in 1 .. Now /\ Now \in Nat /\ attempts[Now] = Latest /\ Latest \in Attempt /\ Sane(Latest)
  BY LatestIs, ReviewNumbers
<1>2. as[Now] \in Attempt
  BY <1>1, ElementOfSeq DEF SameCalls
<1>3. CASE Parsed(Latest.answer, requested) /\ Valid(Latest.answer)
  <2>1. attempts' = [as EXCEPT ![Now].state = "finished", ![Now].body = Latest.answer] /\ reviewAt' = "row"
    BY <1>3 DEF Reads
  <2>2. PICK e : e = [as[Now] EXCEPT !.state = "finished", !.body = Latest.answer]
    OBVIOUS
  <2>3. /\ e \in Attempt /\ e.state = "finished" /\ e.failure = as[Now].failure /\ e.answer = as[Now].answer
        /\ e.body = Latest.answer
    BY <1>1, <1>2, <2>2 DEF Attempt
  <2>4. attempts' = [as EXCEPT ![Now] = e]
    <3>1. as \in Seq(Attempt) /\ DOMAIN as = 1 .. Now
      BY LenProperties DEF SameCalls
    <3> QED
      BY <1>1, <2>1, <2>2, <3>1
  <2>5. e.failure = "none" /\ e.answer = Latest.answer
    BY <1>1, <2>3 DEF SameCalls, Sane
  <2>6. Good(e.body)
    BY <1>1, <1>3, <2>3, ReadIsGood DEF Sane
  <2>7. Sane(e)
    BY <1>1, <2>3, <2>5, <2>6 DEF Sane
  <2>8. CallsAre' /\ RetriesInBudget' /\ Now' = Now /\ Latest' = e
    BY <1>1, <2>3, <2>4, <2>7, LastChanges DEF Sane
  <2>9. OutcomeIs' /\ Asked'
    BY <1>1, <2>8, OutcomeWaits DEF ReviewInv
  <2>10. WhereIs'
    BY <2>1, <2>3, <2>8, <2>9 DEF ReviewInv, WhereIs
  <2> QED
    BY <2>8, <2>9, <2>10 DEF ReviewInv
<1>4. CASE ~(Parsed(Latest.answer, requested) /\ Valid(Latest.answer))
  <2>1. FailsLatest(as, "retryable")
    BY <1>4 DEF Reads
  <2> QED
    BY <2>1, FailsKeep
<1> QED
  BY <1>3, <1>4

-----------------------------------------------------------------------------
(* The steps of a review. *)

LEMMA ReviewFacts ==
  ASSUME ReviewInv
  PROVE  /\ CallsAre /\ WhereIs /\ OutcomeIs /\ RetriesInBudget
         /\ Now \in Nat /\ Len(attempts) = Now /\ attempts \in Seq(Attempt)
BY ReviewNumbers DEF ReviewInv, CallsAre, Now

\* The calls are left alone.
LEMMA CallsRest ==
  ASSUME ReviewInv, UNCHANGED <<review, text, attempts>>
  PROVE  CallsAre' /\ RetriesInBudget' /\ Now' = Now /\ Latest' = Latest
<1>1. Now' = Now /\ Latest' = Latest
  BY DEF Now, Latest
<1>2. \A n \in 1 .. Now : Sane(attempts'[n])
  BY DEF ReviewInv, CallsAre
<1>3. attempts' \in Seq(Attempt) /\ Len(attempts') = Now
  BY ReviewFacts
<1> QED
  BY <1>1, <1>2, <1>3, CallsKeep

LEMMA RequestsReviewKeeps ==
  ASSUME ReviewInv, RequestsReview
  PROVE  ReviewInv'
<1>1. CallsAre' /\ RetriesInBudget' /\ Now' = Now /\ Latest' = Latest
  BY CallsRest DEF RequestsReview
<1>2. Now = 0 /\ intents = 0 /\ outcome' = [state |-> "requested", verdict |-> "none", items |-> {}, call |-> 0]
  <2>1. Now = 0 /\ intents = 0 /\ outcome = [state |-> "none", verdict |-> "none", items |-> {}, call |-> 0]
    BY DEF ReviewInv, OutcomeIs, RequestsReview
  <2> QED
    BY <2>1 DEF RequestsReview
<1>3. OutcomeIs' /\ Asked'
  BY <1>1, <1>2 DEF OutcomeIs, Asked, InFlight
<1>4. WhereIs'
  BY <1>1, <1>2, <1>3 DEF ReviewInv, WhereIs, RequestsReview
<1> QED
  BY <1>1, <1>3, <1>4 DEF ReviewInv

LEMMA NotesIntentKeeps ==
  ASSUME ReviewInv, NotesIntent
  PROVE  ReviewInv'
<1>1. CallsAre' /\ RetriesInBudget' /\ Now' = Now /\ Latest' = Latest
  BY CallsRest DEF NotesIntent
<1>2. Asked /\ intents = 0
  BY DEF ReviewInv, WhereIs, NotesIntent
<1>3. OutcomeIs' /\ Asked'
  BY <1>1, <1>2, ReviewFacts, OutcomeWaits DEF NotesIntent
<1>4. WhereIs'
  BY <1>1, <1>2, <1>3 DEF ReviewInv, WhereIs, NotesIntent
<1> QED
  BY <1>1, <1>3, <1>4 DEF ReviewInv

LEMMA StartsAttemptKeeps ==
  ASSUME ReviewInv, StartsAttempt
  PROVE  ReviewInv'
<1>1. NewAttempt \in Attempt /\ Sane(NewAttempt)
  BY NothingIs DEF NewAttempt, Attempt, Sane
<1>2. /\ attempts' \in Seq(Attempt) /\ Now' = Now + 1 /\ attempts'[Now + 1] = NewAttempt
      /\ \A n \in 1 .. Now : attempts'[n] = attempts[n]
  BY <1>1, ReviewFacts, AppendProperties DEF StartsAttempt, Now
<1>3. Now \in Nat /\ Now' \in Nat /\ Latest' = NewAttempt
  BY <1>2, ReviewFacts DEF Latest
<1>4. \A n \in 1 .. Now' : Sane(attempts[n])'
  <2> SUFFICES ASSUME NEW n \in 1 .. Now' PROVE Sane(attempts'[n])
    BY SaneNext DEF StartsAttempt
  <2>1. CASE n = Now + 1
    BY <1>1, <1>2, <2>1
  <2>2. CASE n \in 1 .. Now
    <3>1. Sane(attempts[n]) /\ attempts'[n] = attempts[n]
      BY <1>2, <2>2 DEF ReviewInv, CallsAre
    <3> QED
      BY <3>1
  <2> QED
    BY <1>2, <1>3, <2>1, <2>2
<1>5. \A n \in 1 .. (Now' - 1) : attempts'[n].state = "failed" /\ attempts'[n].failure \in {"retryable", "context"}
  <2> SUFFICES ASSUME NEW n \in 1 .. (Now' - 1)
               PROVE  attempts'[n].state = "failed" /\ attempts'[n].failure \in {"retryable", "context"}
    OBVIOUS
  <2>1. n \in 1 .. Now /\ attempts'[n] = attempts[n]
    BY <1>2, <1>3
  <2>2. CASE n = Now
    <3>1. Now # 0 /\ Latest.state = "failed" /\ MayRetry
      BY <1>3, <2>1, <2>2 DEF StartsAttempt
    <3> QED
      BY <2>1, <2>2, <3>1 DEF MayRetry, Latest
  <2>3. CASE n # Now
    <3>1. n \in 1 .. (Now - 1)
      BY <1>3, <2>1, <2>3
    <3> QED
      BY <2>1, <3>1 DEF ReviewInv, CallsAre
  <2> QED
    BY <2>2, <2>3
<1>6. text' \in Seq(Chars)
  BY DEF StartsAttempt, ReviewInv, CallsAre
<1>7. CallsAre'
  BY <1>2, <1>4, <1>5, <1>6 DEF CallsAre
<1>8. RetriesInBudget'
  <2>1. \A n \in 1 .. Now : attempts[n].failure = "context" => attempts'[n].failure = "context"
    BY <1>2
  <2>2. Excuse \in {0, 1} /\ Excuse' \in {0, 1} /\ Excuse <= Excuse'
    <3>1. UNCHANGED review /\ Now <= Now'
      BY <1>2, <1>3 DEF StartsAttempt
    <3> QED
      BY <1>3, <2>1, <3>1, ExcuseGrows
  <2>3. CASE Now = 0
    BY <1>2, <2>2, <2>3, ReviewNumbers DEF RetriesInBudget
  <2>4. CASE Now # 0
    <3>1. Now - Excuse <= ReviewRetries
      BY <2>4 DEF StartsAttempt, MayRetry
    <3> QED
      BY <1>2, <2>2, <3>1, ReviewNumbers DEF RetriesInBudget
  <2> QED
    BY <2>3, <2>4
<1>9. OutcomeIs' /\ Asked'
  BY <1>2, <1>3, ReviewFacts, OutcomeWaits DEF StartsAttempt
<1>10. WhereIs'
  <2>1. Now' > 0 /\ Latest'.state = "started" /\ ~Latest'.handle
    BY <1>2, <1>3 DEF NewAttempt
  <2> QED
    BY <1>9, <2>1 DEF ReviewInv, WhereIs, StartsAttempt
<1> QED
  BY <1>7, <1>8, <1>9, <1>10 DEF ReviewInv

\* A step of a call under way that leaves it under way.
LEMMA GoesOn ==
  ASSUME ReviewInv, Asked, Now > 0, Latest.state = "started", UNCHANGED <<review, text, outcome, intents>>,
         NEW e \in Attempt, attempts' = [attempts EXCEPT ![Now] = e], Sane(e), e.state = "started",
         reviewAt' \in {"start", "attach", "collect"}, reviewAt' # "collect" => ~e.handle
  PROVE  ReviewInv'
<1>1. SameCalls(attempts) /\ Latest.failure = "none"
  BY SameIsSame, LatestIs DEF Sane
<1>2. CallsAre' /\ RetriesInBudget' /\ Now' = Now /\ Latest' = e
  BY <1>1, LastChanges
<1>3. OutcomeIs' /\ Asked'
  BY <1>2, ReviewFacts, OutcomeWaits
<1>4. WhereIs'
  BY <1>2, <1>3 DEF ReviewInv, WhereIs
<1> QED
  BY <1>2, <1>3, <1>4 DEF ReviewInv

LEMMA MarksKeeps ==
  ASSUME ReviewInv, Marks
  PROVE  ReviewInv'
<1>1. Asked /\ Now > 0 /\ Latest.state = "started" /\ ~Latest.handle
  BY DEF ReviewInv, WhereIs, Marks
<1>2. Latest \in Attempt /\ Sane(Latest) /\ attempts[Now] = Latest
  BY <1>1, LatestIs
<1>3. PICK e : e = [Latest EXCEPT !.row = "open"]
  OBVIOUS
<1>4. e \in Attempt /\ e.state = "started" /\ ~e.handle
  BY <1>1, <1>2, <1>3 DEF Attempt
<1>5. Sane(e)
  BY <1>2, <1>3 DEF Sane, Attempt
<1>6. attempts' = [attempts EXCEPT ![Now] = e]
  BY <1>2, <1>3 DEF Marks
<1> QED
  BY <1>1, <1>4, <1>5, <1>6, GoesOn DEF Marks

LEMMA TurnAcceptedKeeps ==
  ASSUME ReviewInv, TurnAccepted
  PROVE  ReviewInv'
<1>1. Asked /\ Now > 0 /\ Latest.state = "started" /\ ~Latest.handle
  BY DEF ReviewInv, WhereIs, TurnAccepted
<1>2. Latest \in Attempt /\ Sane(Latest) /\ attempts[Now] = Latest
  BY <1>1, LatestIs
<1>3. PICK e : e = [Latest EXCEPT !.turn = "running"]
  OBVIOUS
<1>4. e \in Attempt /\ e.state = "started" /\ ~e.handle
  BY <1>1, <1>2, <1>3 DEF Attempt
<1>5. Sane(e)
  BY <1>1, <1>2, <1>3 DEF Sane, Attempt
<1>6. attempts' = [attempts EXCEPT ![Now] = e]
  BY <1>2, <1>3 DEF TurnAccepted
<1> QED
  BY <1>1, <1>4, <1>5, <1>6, GoesOn DEF TurnAccepted

LEMMA AttachesKeeps ==
  ASSUME ReviewInv, Attaches
  PROVE  ReviewInv'
<1>1. Asked /\ Now > 0 /\ Latest.state = "started"
  BY DEF ReviewInv, WhereIs, Attaches
<1>2. Latest \in Attempt /\ Sane(Latest) /\ attempts[Now] = Latest
  BY <1>1, LatestIs
<1>3. PICK e : e = [Latest EXCEPT !.handle = TRUE]
  OBVIOUS
<1>4. e \in Attempt /\ e.state = "started" /\ e.failure = Latest.failure
  BY <1>1, <1>2, <1>3 DEF Attempt
<1>5. Sane(e)
  <2>1. e.failure = "none"
    BY <1>1, <1>2, <1>4 DEF Sane
  <2>2. e.answer = Latest.answer
    BY <1>2, <1>3 DEF Attempt
  <2> QED
    BY <1>2, <1>4, <2>1, <2>2 DEF Sane
<1>6. attempts' = [attempts EXCEPT ![Now] = e]
  BY <1>2, <1>3 DEF Attaches
<1> QED
  BY <1>1, <1>4, <1>5, <1>6, GoesOn DEF Attaches

\* The turn of the call under way, as a step finds it ended or lets it run on.
LEMMA TurnIs ==
  ASSUME ReviewInv, Now > 0, NEW ending \in {"none", "running", "completed", "failed"}
  PROVE  /\ SameCalls([attempts EXCEPT ![Now].turn = ending])
         /\ [attempts EXCEPT ![Now].turn = ending][Now].turn = ending
         /\ [attempts EXCEPT ![Now].turn = ending][Now].handle = Latest.handle
<1>1. Latest \in Attempt /\ attempts[Now] = Latest /\ Now \in 1 .. Len(attempts) /\ Now \in 1 .. Now
  BY LatestIs
<1>2. PICK e : e = [Latest EXCEPT !.turn = ending]
  OBVIOUS
<1>3. /\ e \in Attempt /\ e.state = Latest.state /\ e.failure = Latest.failure /\ e.body = Latest.body
      /\ e.answer = Latest.answer /\ e.turn = ending /\ e.handle = Latest.handle
  BY <1>1, <1>2 DEF Attempt
<1>4. attempts \in Seq(Attempt) /\ DOMAIN attempts = 1 .. Len(attempts)
  BY ReviewFacts, LenProperties
<1>5. [attempts EXCEPT ![Now].turn = ending] = [attempts EXCEPT ![Now] = e]
  BY <1>1, <1>2, <1>4
<1>6. [attempts EXCEPT ![Now] = e][Now] = e
  BY <1>1, <1>4
<1>7. SameCalls([attempts EXCEPT ![Now] = e])
  BY <1>3, SameWith
<1> QED
  BY <1>3, <1>5, <1>6, <1>7

LEMMA TurnNotStartedKeeps ==
  ASSUME ReviewInv, TurnNotStarted
  PROVE  ReviewInv'
<1>1. Asked /\ Now > 0 /\ Latest.state = "started" /\ ~Latest.handle
  BY DEF ReviewInv, WhereIs, TurnNotStarted
<1>2. PICK ending \in {"none", "running"}, why \in {"retryable", "fatal"} :
         FailsLatest([attempts EXCEPT ![Now].turn = ending], why)
  BY DEF TurnNotStarted
<1>3. PICK as : as = [attempts EXCEPT ![Now].turn = ending]
  OBVIOUS
<1>4. SameCalls(as) /\ ~as[Now].handle
  BY <1>1, <1>3, TurnIs
<1>5. FailsLatest(as, why)
  BY <1>2, <1>3
<1>6. UNCHANGED <<review, text, outcome, intents>>
  BY DEF TurnNotStarted
<1> QED
  BY <1>1, <1>4, <1>5, <1>6, FailsKeep

LEMMA CollectsAnswerKeeps ==
  ASSUME ReviewInv, CollectsAnswer
  PROVE  ReviewInv'
<1>1. Asked /\ Now > 0 /\ Latest.state = "started"
  BY DEF ReviewInv, WhereIs, CollectsAnswer
<1>2. attempts[Now] = Latest
  BY <1>1, LatestIs
<1>3. UNCHANGED <<review, text, outcome, intents>>
  BY DEF CollectsAnswer
<1>4. PICK as : as = attempts
  OBVIOUS
<1>5. SameCalls(as) /\ as[Now] = Latest
  BY <1>2, <1>4, SameIsSame
<1>6. CASE Latest.turn = "completed" /\ Reads(attempts, TRUE)
  <2>1. Reads(as, TRUE) /\ as[Now].turn # "running"
    BY <1>4, <1>5, <1>6
  <2> QED
    BY <1>1, <1>3, <1>5, <2>1, ReadsKeep
<1>7. CASE Latest.turn = "failed" /\ \E why \in {"retryable", "context"} : FailsLatest(attempts, why)
  <2>1. PICK why \in {"retryable", "context"} : FailsLatest(as, why)
    BY <1>4, <1>7
  <2>2. as[Now].turn # "running"
    BY <1>5, <1>7
  <2> QED
    BY <1>1, <1>3, <1>5, <2>1, <2>2, FailsKeep
<1> QED
  BY <1>6, <1>7 DEF CollectsAnswer

LEMMA CollectGivesUpKeeps ==
  ASSUME ReviewInv, CollectGivesUp
  PROVE  ReviewInv'
<1>1. Asked /\ Now > 0 /\ Latest.state = "started"
  BY DEF ReviewInv, WhereIs, CollectGivesUp
<1>2. UNCHANGED <<review, text, outcome, intents>>
  BY DEF CollectGivesUp
<1>3. CASE FailsLatest([attempts EXCEPT ![Now].turn = "failed"], "retryable")
  <2>1. PICK as : as = [attempts EXCEPT ![Now].turn = "failed"]
    OBVIOUS
  <2>2. SameCalls(as) /\ as[Now].turn # "running"
    BY <1>1, <2>1, TurnIs
  <2>3. FailsLatest(as, "retryable")
    BY <1>3, <2>1
  <2> QED
    BY <1>1, <1>2, <2>2, <2>3, FailsKeep
<1>4. CASE FailsLatest(attempts, "fatal")
  <2>1. PICK as : as = attempts
    OBVIOUS
  <2>2. SameCalls(as) /\ FailsLatest(as, "fatal")
    BY <1>4, <2>1, SameIsSame
  <2> QED
    BY <1>1, <1>2, <2>2, FailsKeep
<1> QED
  BY <1>3, <1>4 DEF CollectGivesUp

LEMMA ClosesRowKeeps ==
  ASSUME ReviewInv, ClosesRow
  PROVE  ReviewInv'
<1>1. Asked /\ Now > 0 /\ Latest.state # "started"
  BY DEF ReviewInv, WhereIs, ClosesRow
<1>2. Latest \in Attempt /\ Sane(Latest) /\ attempts[Now] = Latest
  BY <1>1, LatestIs
<1>3. PICK e : e = [Latest EXCEPT !.row = "closed"]
  OBVIOUS
<1>4. /\ e \in Attempt /\ e.state = Latest.state /\ e.failure = Latest.failure /\ e.body = Latest.body
      /\ e.answer = Latest.answer /\ e.turn = Latest.turn /\ e.handle = Latest.handle
  BY <1>2, <1>3 DEF Attempt
<1>5. Sane(e)
  BY <1>2, <1>4 DEF Sane
<1>6. attempts' = [attempts EXCEPT ![Now] = e]
  BY <1>2, <1>3 DEF ClosesRow
<1>7. CallsAre' /\ RetriesInBudget' /\ Now' = Now /\ Latest' = e
  <2>1. UNCHANGED <<review, text>>
    BY DEF ClosesRow
  <2>2. PICK as : as = attempts
    OBVIOUS
  <2>3. SameCalls(as) /\ attempts' = [as EXCEPT ![Now] = e]
    BY <1>6, <2>2, SameIsSame
  <2> QED
    BY <1>1, <1>4, <1>5, <2>1, <2>3, LastChanges
<1>8. OutcomeIs' /\ Asked'
  BY <1>1, <1>7, ReviewFacts, OutcomeWaits DEF ClosesRow
<1>9. WhereIs'
  BY <1>1, <1>4, <1>7, <1>8 DEF ReviewInv, WhereIs, ClosesRow
<1> QED
  BY <1>7, <1>8, <1>9 DEF ReviewInv

\* A review that is settled with what its last call brought, or with nothing.
LEMMA SettlesKeep ==
  ASSUME ReviewInv, Asked, Now > 0, UNCHANGED <<review, text, attempts, intents>>, reviewAt' = "loop",
         \/ Latest.state = "finished" /\ Settles(Latest.body.verdict, {Copied(i) : i \in Latest.body.items})
         \/ Latest.state = "failed" /\ Settles("instrument_failure", {})
  PROVE  ReviewInv'
<1>1. CallsAre' /\ RetriesInBudget' /\ Now' = Now /\ Latest' = Latest
  BY CallsRest
<1>2. Now \in Nat /\ Now \in 0 .. Now
  BY ReviewFacts
<1>3. \A i : Copied(i)' = Copied(i)
  BY CopiedStays
<1>4. {Copied(i) : i \in Latest.body.items}' = {Copied(i) : i \in Latest.body.items}
  BY <1>1, <1>3
<1>5. outcome'.state = "completed" /\ outcome'.call = Now
  BY DEF Settles
<1>6. /\ Latest.state = "finished" =>
             outcome'.verdict = Latest.body.verdict /\ outcome'.items = {Copied(i) : i \in Latest.body.items}
      /\ Latest.state = "failed" => outcome'.verdict = "instrument_failure" /\ outcome'.items = {}
      /\ Latest.state # "started"
  BY DEF Settles
<1>7. OutcomeIs'
  BY <1>1, <1>2, <1>4, <1>5, <1>6 DEF OutcomeIs, InFlight
<1>8. WhereIs'
  BY <1>1 DEF ReviewInv, WhereIs
<1> QED
  BY <1>1, <1>7, <1>8 DEF ReviewInv

LEMMA CompletesKeeps ==
  ASSUME ReviewInv, Completes
  PROVE  ReviewInv'
<1>1. Asked /\ Now > 0
  BY DEF ReviewInv, WhereIs, Completes
<1> QED
  BY <1>1, SettlesKeep DEF Completes

LEMMA GivesUpKeeps ==
  ASSUME ReviewInv, GivesUp
  PROVE  ReviewInv'
<1>1. Asked /\ Now > 0
  BY DEF ReviewInv, WhereIs, GivesUp
<1> QED
  BY <1>1, SettlesKeep DEF GivesUp

\* A step that changes at most where the driver is, and goes to a place of no call.
LEMMA OnlyMoves ==
  ASSUME ReviewInv, UNCHANGED <<review, text, outcome, attempts, intents>>, reviewAt' \in {"loop", "down"}
  PROVE  ReviewInv'
<1>1. CallsAre' /\ RetriesInBudget' /\ Now' = Now /\ Latest' = Latest
  BY CallsRest
<1>2. OutcomeIs'
  BY <1>1, OutcomeStays
<1>3. WhereIs'
  BY <1>1 DEF ReviewInv, WhereIs
<1> QED
  BY <1>1, <1>2, <1>3 DEF ReviewInv

LEMMA LeavesForRetryKeeps ==
  ASSUME ReviewInv, LeavesForRetry
  PROVE  ReviewInv'
BY OnlyMoves DEF LeavesForRetry

LEMMA CrashesKeeps ==
  ASSUME ReviewInv, Crashes
  PROVE  ReviewInv'
BY OnlyMoves DEF Crashes

\* A crash leaves nothing that cannot be repaired: the error exits are not taken.
LEMMA RepairsCompletionKeeps ==
  ASSUME ReviewInv, RepairsCompletion
  PROVE  ReviewInv'
<1>1. Asked /\ Now > 0 /\ reviewAt = "loop" /\ UNCHANGED <<review, text, attempts, intents>>
  BY DEF RepairsCompletion
<1>2. ~\E n \in 1 .. (Now - 1) : attempts[n].state = "finished"
  BY DEF ReviewInv, CallsAre
<1>3. Latest.state = "finished" => Valid(Latest.body)
  BY <1>1, LatestIs DEF Sane, Good
<1>4. /\ reviewAt' = reviewAt
      /\ \/ Latest.state = "finished" /\ Settles(Latest.body.verdict, {Copied(i) : i \in Latest.body.items})
         \/ Latest.state = "failed" /\ Settles("instrument_failure", {})
  BY <1>2, <1>3 DEF RepairsCompletion
<1> QED
  BY <1>1, <1>4, SettlesKeep

\* The rows follow the Record: nothing else is said of a call.
LEMMA MergedIs ==
  ASSUME ReviewInv
  PROVE  /\ SameCalls(Merged)
         /\ \A n \in 1 .. Now : /\ Merged[n].turn = attempts[n].turn /\ Merged[n].handle = attempts[n].handle
                                /\ Sane(Merged[n])
<1> DEFINE row(n) == IF attempts[n].state = "started" THEN "open" ELSE "closed"
<1>1. PICK k, m : k \in Nat /\ k = Now /\ m = Merged
  BY ReviewFacts
<1>2. \A n \in 1 .. k : attempts[n] \in Attempt /\ Sane(attempts[n])
  <2>1. \A n \in 1 .. Len(attempts) : attempts[n] \in Attempt
    BY ReviewFacts, ElementOfSeq
  <2> QED
    BY <1>1, <2>1, ReviewFacts DEF CallsAre
<1>3. m = [n \in 1 .. k |-> [attempts[n] EXCEPT !.row = row(n)]]
  BY <1>1 DEF Merged
<1>4. ASSUME NEW n \in 1 .. k
      PROVE  /\ m[n] \in Attempt /\ m[n].state = attempts[n].state /\ m[n].failure = attempts[n].failure
             /\ m[n].body = attempts[n].body /\ m[n].answer = attempts[n].answer
             /\ m[n].turn = attempts[n].turn /\ m[n].handle = attempts[n].handle
  <2>1. PICK c, e : c = attempts[n] /\ e = [c EXCEPT !.row = row(n)]
    OBVIOUS
  <2>2. row(n) \in {"none", "open", "closed"}
    OBVIOUS
  <2>3. c \in Attempt /\ m[n] = e
    BY <1>2, <1>3, <2>1
  <2>4. e \in Attempt /\ e.state = c.state /\ e.failure = c.failure /\ e.body = c.body /\ e.answer = c.answer
        /\ e.turn = c.turn /\ e.handle = c.handle
    <3> HIDE DEF row
    <3> QED
      BY <2>1, <2>2, <2>3 DEF Attempt
  <2> QED
    BY <2>1, <2>3, <2>4
<1>5. \A n \in 1 .. k : Sane(m[n])
  <2> SUFFICES ASSUME NEW n \in 1 .. k PROVE Sane(m[n])
    OBVIOUS
  <2> QED
    BY <1>2, <1>4 DEF Sane
<1>6. m \in [1 .. k -> Attempt]
  BY <1>3, <1>4
<1>7. m \in Seq(Attempt) /\ Len(m) = k
  BY <1>1, <1>6, FunctionIsSeq
<1>8. SameCalls(m)
  BY <1>1, <1>4, <1>5, <1>7 DEF SameCalls
<1> QED
  BY <1>1, <1>4, <1>5, <1>8

\* A restart: what it reads or gives up of a call under way is all it changes.
LEMMA RecoversKeeps ==
  ASSUME ReviewInv, Recovers
  PROVE  ReviewInv'
<1>1. UNCHANGED <<review, text, outcome, intents>>
  BY DEF Recovers
<1>2. PICK as : as = Merged
  OBVIOUS
<1>3. /\ SameCalls(as)
      /\ \A n \in 1 .. Now : as[n].turn = attempts[n].turn /\ as[n].handle = attempts[n].handle /\ Sane(as[n])
  BY <1>2, MergedIs
<1>4. InFlight => Asked /\ Now > 0 /\ Latest.state = "started" /\ Now \in 1 .. Now /\ as[Now].turn = Latest.turn
  <2>1. InFlight => Asked /\ Now > 0 /\ Latest.state = "started"
    BY DEF ReviewInv, OutcomeIs, InFlight
  <2>2. InFlight => Now \in 1 .. Now /\ attempts[Now] = Latest
    BY <2>1, LatestIs
  <2> QED
    BY <1>3, <2>1, <2>2
<1>5. CASE ~InFlight /\ attempts' = Merged /\ reviewAt' = "loop"
  <2>1. attempts' = as
    BY <1>2, <1>5
  <2>2. attempts' \in Seq(Attempt) /\ Len(attempts') = Now
    BY <1>3, <2>1 DEF SameCalls
  <2>3. \A n \in 1 .. Now : /\ Sane(attempts'[n])
                            /\ attempts[n].failure = "context" => attempts'[n].failure = "context"
                            /\ n < Now => attempts'[n].state = attempts[n].state
                                          /\ attempts'[n].failure = attempts[n].failure
    BY <1>3, <2>1 DEF SameCalls
  <2>4. CallsAre' /\ RetriesInBudget' /\ Now' = Now
    BY <1>1, <2>2, <2>3, CallsKeep
  <2>5. Now > 0 => Latest'.state = Latest.state /\ Latest'.body = Latest.body
    <3>1. Now > 0 => Now \in 1 .. Now /\ attempts[Now] = Latest
      BY LatestIs
    <3>2. Latest' = as[Now]
      BY <2>1, <2>4 DEF Latest
    <3> QED
      BY <1>3, <3>1, <3>2 DEF SameCalls
  <2>6. OutcomeIs'
    BY <1>1, <2>4, <2>5, OutcomeStays
  <2>7. WhereIs'
    BY <1>1, <1>5 DEF ReviewInv, WhereIs
  <2> QED
    BY <2>4, <2>6, <2>7 DEF ReviewInv
<1>6. CASE InFlight /\ Latest.turn = "completed" /\ Reads(Merged, FALSE)
  <2>1. Reads(as, FALSE) /\ as[Now].turn # "running"
    BY <1>2, <1>4, <1>6
  <2> QED
    BY <1>1, <1>3, <1>4, <1>6, <2>1, ReadsKeep
<1>7. CASE InFlight /\ Latest.turn = "failed" /\ \E why \in {"retryable", "context"} : FailsLatest(Merged, why)
  <2>1. PICK why \in {"retryable", "context"} : FailsLatest(as, why)
    BY <1>2, <1>7
  <2>2. as[Now].turn # "running"
    BY <1>4, <1>7
  <2> QED
    BY <1>1, <1>3, <1>4, <1>7, <2>1, <2>2, FailsKeep
<1>8. CASE InFlight /\ ~V1_1 /\ FailsLatest(Merged, "retryable")
  <2>1. FailsLatest(as, "retryable")
    BY <1>2, <1>8
  <2> QED
    BY <1>1, <1>3, <1>4, <1>8, <2>1, FailsKeep
<1> QED
  BY <1>5, <1>6, <1>7, <1>8 DEF Recovers, ForgetsMissing

LEMMA TextsAre ==
  ASSUME NEW k \in Nat, NEW t \in Texts(k)
  PROVE  t \in Seq(Chars)
<1>1. PICK n \in 1 .. k : t \in [1 .. n -> {"x"} \cup Space]
  BY DEF Texts
<1>2. n \in Nat /\ {"x"} \cup Space \subseteq Chars
  BY DEF Space, Chars
<1>3. t \in [1 .. n -> Chars]
  BY <1>1, <1>2
<1> QED
  BY <1>2, <1>3, FunctionIsSeq

LEMMA AnswersAre ==
  ASSUME text \in Seq(Chars), NEW a \in Answers \cup {Garbage}
  PROVE  a \in Body /\ (review.role = "judge" => a.items = {})
<1>1. CASE a = Garbage
  BY <1>1 DEF Garbage, Body
<1>2. CASE a \in Answers /\ review.role = "judge"
  BY <1>2 DEF Answers, Body
<1>3. CASE a \in Answers /\ review.role # "judge"
  <2>1. a.verdict \in CheckerVerdicts /\ a.items \in {{}} \cup {{i} : i \in Quotations}
        /\ a = [verdict |-> a.verdict, items |-> a.items]
    BY <1>3 DEF Answers
  <2>2. Quotations \subseteq Item
    <3> SUFFICES ASSUME NEW i \in Quotations PROVE i \in Item
      OBVIOUS
    <3>1. CASE i \in [kind : QuotedKinds, id : {"elsewhere"}, quote : {text}]
      BY <3>1 DEF Item
    <3>2. CASE \E k \in QuotedKinds : i \in [kind : {k}, id : {HomeOf(k)}, quote : Texts(MaxQuote)]
      <4>1. PICK k \in QuotedKinds : i \in [kind : {k}, id : {HomeOf(k)}, quote : Texts(MaxQuote)]
        BY <3>2
      <4>2. HomeOf(k) \in {"step", "branch", "task", "paper"}
        BY DEF HomeOf
      <4>3. i.quote \in Seq(Chars)
        BY <4>1, TextsAre, ReviewsAssumption
      <4> QED
        BY <4>1, <4>2, <4>3 DEF Item
    <3> QED
      BY <3>1, <3>2 DEF Quotations
  <2>3. a.items \in SUBSET Item
    BY <2>1, <2>2
  <2>4. a.verdict \in {"ok", "objection", "hard_defect", "instrument_failure"}
    BY <2>1, ReviewsAssumption
  <2> QED
    BY <1>3, <2>1, <2>3, <2>4 DEF Body
<1> QED
  BY <1>1, <1>2, <1>3

\* The provider goes on, whatever the host makes of it.
LEMMA TurnEndsKeeps ==
  ASSUME ReviewInv, NEW n \in 1 .. Now, TurnEnds(n)
  PROVE  ReviewInv'
<1>1. attempts \in Seq(Attempt) /\ Len(attempts) = Now /\ Now \in Nat /\ UNCHANGED <<review, text, outcome, intents, reviewAt>>
  BY ReviewFacts DEF TurnEnds
<1>2. PICK c : c = attempts[n] /\ c \in Attempt /\ Sane(c)
  BY <1>1, ElementOfSeq DEF ReviewInv, CallsAre
<1>3. PICK e \in Attempt : /\ attempts' = [attempts EXCEPT ![n] = e] /\ Sane(e)
                           /\ e.state = c.state /\ e.failure = c.failure /\ e.body = c.body /\ e.handle = c.handle
  <2>1. CASE \E a \in Answers \cup {Garbage} :
                attempts' = [attempts EXCEPT ![n].turn = "completed", ![n].answer = a]
    <3>1. PICK a \in Answers \cup {Garbage} :
                attempts' = [attempts EXCEPT ![n].turn = "completed", ![n].answer = a]
      BY <2>1
    <3>2. a \in Body /\ (review.role = "judge" => a.items = {})
      BY AnswersAre DEF ReviewInv, CallsAre
    <3>3. PICK e : e = [c EXCEPT !.turn = "completed", !.answer = a]
      OBVIOUS
    <3>4. /\ e \in Attempt /\ e.state = c.state /\ e.failure = c.failure /\ e.body = c.body /\ e.handle = c.handle
          /\ e.turn = "completed" /\ e.answer = a
      BY <1>2, <3>2, <3>3 DEF Attempt
    <3>5. Sane(e)
      BY <1>2, <3>2, <3>4 DEF Sane
    <3>6. attempts' = [attempts EXCEPT ![n] = e]
      BY <1>2, <3>1, <3>3
    <3> QED
      BY <3>4, <3>5, <3>6
  <2>2. CASE attempts' = [attempts EXCEPT ![n].turn = "failed"]
    <3>3. PICK e : e = [c EXCEPT !.turn = "failed"]
      OBVIOUS
    <3>4. /\ e \in Attempt /\ e.state = c.state /\ e.failure = c.failure /\ e.body = c.body /\ e.handle = c.handle
          /\ e.turn = "failed" /\ e.answer = c.answer
      BY <1>2, <3>3 DEF Attempt
    <3>5. Sane(e)
      BY <1>2, <3>4 DEF Sane
    <3>6. attempts' = [attempts EXCEPT ![n] = e]
      BY <1>2, <2>2, <3>3
    <3> QED
      BY <3>4, <3>5, <3>6
  <2> QED
    BY <2>1, <2>2 DEF TurnEnds
<1>4. /\ attempts' \in Seq(Attempt) /\ Len(attempts') = Now
      /\ \A m \in 1 .. Now : attempts'[m] = IF m = n THEN e ELSE attempts[m]
  BY <1>1, <1>3, EntrySet
<1>5. \A m \in 1 .. Now : /\ Sane(attempts'[m])
                          /\ attempts'[m].state = attempts[m].state /\ attempts'[m].failure = attempts[m].failure
                          /\ attempts'[m].body = attempts[m].body /\ attempts'[m].handle = attempts[m].handle
  <2> SUFFICES ASSUME NEW m \in 1 .. Now
               PROVE  /\ Sane(attempts'[m])
                      /\ attempts'[m].state = attempts[m].state /\ attempts'[m].failure = attempts[m].failure
                      /\ attempts'[m].body = attempts[m].body /\ attempts'[m].handle = attempts[m].handle
    OBVIOUS
  <2>1. CASE m = n
    BY <1>2, <1>3, <1>4, <2>1
  <2>2. CASE m # n
    <3>1. attempts'[m] = attempts[m]
      BY <1>4, <2>2
    <3> QED
      BY <3>1 DEF ReviewInv, CallsAre
  <2> QED
    BY <2>1, <2>2
<1>6. CallsAre' /\ RetriesInBudget' /\ Now' = Now
  BY <1>1, <1>4, <1>5, CallsKeep
<1>7. Latest'.state = Latest.state /\ Latest'.body = Latest.body /\ Latest'.handle = Latest.handle
  <2>1. Now \in 1 .. Now
    BY <1>1
  <2>2. Latest' = attempts'[Now]
    BY <1>6 DEF Latest
  <2> QED
    BY <1>5, <2>1, <2>2 DEF Latest
<1>8. OutcomeIs'
  BY <1>1, <1>6, <1>7, OutcomeStays
<1>9. WhereIs'
  BY <1>1, <1>6, <1>7 DEF ReviewInv, WhereIs, Asked
<1> QED
  BY <1>6, <1>8, <1>9 DEF ReviewInv

LEMMA ReviewStarts ==
  ASSUME ReviewsInit
  PROVE  ReviewInv
<1>1. Now = 0 /\ attempts \in Seq(Attempt)
  BY DEF ReviewsInit, Now
<1>2. text \in Seq(Chars)
  BY TextsAre, ReviewsAssumption DEF ReviewsInit
<1>3. CallsAre
  BY <1>1, <1>2 DEF CallsAre
<1>4. WhereIs
  BY DEF WhereIs, ReviewsInit
<1>5. OutcomeIs
  BY <1>1 DEF OutcomeIs, ReviewsInit, InFlight
<1>6. RetriesInBudget
  BY <1>1, ReviewsAssumption DEF RetriesInBudget, Excuse
<1> QED
  BY <1>3, <1>4, <1>5, <1>6 DEF ReviewInv

LEMMA ReviewSteps ==
  ASSUME ReviewInv, [ReviewsNext]_reviewVars
  PROVE  ReviewInv'
<1>1. CASE UNCHANGED reviewVars
  <2>1. CallsAre' /\ RetriesInBudget' /\ Now' = Now /\ Latest' = Latest
    BY <1>1, CallsRest DEF reviewVars
  <2>2. OutcomeIs'
    BY <1>1, <2>1, OutcomeStays DEF reviewVars
  <2>3. WhereIs'
    BY <1>1, <2>1 DEF ReviewInv, WhereIs, Asked, reviewVars
  <2> QED
    BY <2>1, <2>2, <2>3 DEF ReviewInv
<1>2. CASE ReviewsNext
  BY <1>2, RequestsReviewKeeps, NotesIntentKeeps, StartsAttemptKeeps, MarksKeeps, TurnAcceptedKeeps,
     TurnNotStartedKeeps, AttachesKeeps, CollectsAnswerKeeps, CollectGivesUpKeeps, ClosesRowKeeps,
     CompletesKeeps, LeavesForRetryKeeps, GivesUpKeeps, RepairsCompletionKeeps, CrashesKeeps,
     RecoversKeeps, TurnEndsKeeps DEF ReviewsNext
<1> QED
  BY <1>1, <1>2

\* The last call of a settled review is given up or has brought a good answer.
LEMMA SettledIs ==
  ASSUME ReviewInv, outcome.state = "completed"
  PROVE  /\ Now > 0 /\ outcome.call = Now /\ attempts[Now] = Latest /\ Latest \in Attempt
         /\ Latest.state \in {"finished", "failed"}
         /\ Latest.state = "finished" => Good(Latest.body)
<1>1. Now > 0 /\ outcome.call = Now /\ Latest.state # "started"
  BY DEF ReviewInv, OutcomeIs
<1>2. Latest \in Attempt /\ Sane(Latest) /\ attempts[Now] = Latest
  BY <1>1, LatestIs
<1>3. Latest.state \in {"started", "finished", "failed"}
  BY <1>2 DEF Attempt
<1> QED
  BY <1>1, <1>2, <1>3 DEF Sane

LEMMA ReviewsAreTyped ==
  ASSUME ReviewInv
  PROVE  ReviewsTypeOK
<1>1. \A n \in 1 .. Now : attempts[n] \in Attempt
  BY ReviewFacts, ElementOfSeq
<1>2. \A n \in 1 .. Now :
          /\ attempts[n].state \in {"started", "finished", "failed"}
          /\ attempts[n].row \in {"none", "open", "closed"} /\ attempts[n].handle \in BOOLEAN
          /\ attempts[n].turn \in {"none", "running", "completed", "failed"}
          /\ attempts[n].failure \in {"none", "retryable", "context", "fatal"}
  BY <1>1 DEF Attempt
<1>3. outcome.state \in {"none", "requested", "completed"} /\ outcome.call \in 0 .. Now
  BY DEF ReviewInv, OutcomeIs
<1>4. /\ intents \in 0 .. 1
      /\ reviewAt \in {"down", "loop", "intent", "mark", "start", "attach", "collect", "row", "settle", "error"}
  BY DEF ReviewInv, WhereIs
<1> QED
  BY <1>2, <1>3, <1>4 DEF ReviewsTypeOK

LEMMA ReviewsEvidence ==
  ASSUME ReviewInv
  PROVE  EvidenceStands
<1> SUFFICES ASSUME HasVerdict
             PROVE  /\ EvidenceReplays(outcome)
                    /\ outcome.verdict = "hard_defect" => outcome.items # {}
                    /\ \A i \in outcome.items :
                         /\ \E n \in DOMAIN Sources(i.kind, i.id) : Occurs(i.quote, Sources(i.kind, i.id)[n])
                         /\ \E j \in attempts[outcome.call].body.items :
                               j.kind = i.kind /\ j.id = i.id /\ Normal(j.quote) = Normal(i.quote)
  BY DEF EvidenceStands
<1>1. /\ attempts[outcome.call] = Latest /\ Latest \in Attempt /\ Good(Latest.body)
      /\ outcome.verdict = Latest.body.verdict /\ outcome.items = {Copied(i) : i \in Latest.body.items}
  <2>1. outcome.state = "completed" /\ outcome.verdict # "instrument_failure"
    BY DEF HasVerdict
  <2>2. Latest.state = "finished"
    BY <2>1, SettledIs DEF ReviewInv, OutcomeIs
  <2> QED
    BY <2>1, <2>2, SettledIs DEF ReviewInv, OutcomeIs
<1>2. text \in Seq(Chars) /\ Latest.body.items \subseteq Item
  BY <1>1 DEF ReviewInv, CallsAre, Attempt, Body
<1>3. \A j \in Latest.body.items : InCatalog(j) /\ CopiesASource(j)
  BY <1>1 DEF Good
<1>4. ASSUME NEW i \in outcome.items
      PROVE  /\ ReplayAccepts(i)
             /\ \E n \in DOMAIN Sources(i.kind, i.id) : Occurs(i.quote, Sources(i.kind, i.id)[n])
             /\ \E j \in Latest.body.items : j.kind = i.kind /\ j.id = i.id /\ Normal(j.quote) = Normal(i.quote)
  <2>1. PICK j \in Latest.body.items : i = Copied(j)
    BY <1>1
  <2>2. j \in Item /\ InCatalog(j) /\ CopiesASource(j)
    BY <1>2, <1>3
  <2>3. /\ ReplayAccepts(Copied(j))
        /\ \E n \in DOMAIN Sources(Copied(j).kind, Copied(j).id) : Occurs(Copied(j).quote, Sources(Copied(j).kind, Copied(j).id)[n])
    BY <1>2, <2>2, CopiedStands
  <2>4. Copied(j).kind = j.kind /\ Copied(j).id = j.id /\ Normal(Copied(j).quote) = Normal(j.quote)
    BY <1>2, <2>2, CopiedIs
  <2> QED
    BY <2>1, <2>3, <2>4
<1>5. outcome.verdict = "hard_defect" => outcome.items # {}
  BY <1>1 DEF Good
<1>6. EvidenceReplays(outcome)
  BY <1>4 DEF EvidenceReplays
<1> QED
  BY <1>1, <1>4, <1>5, <1>6

LEMMA ReviewsSettle ==
  ASSUME ReviewInv
  PROVE  DurableAnswerSettles
<1>1. reviewAt # "error"
  BY DEF ReviewInv, WhereIs
<1>2. ASSUME NEW n \in 1 .. Now
      PROVE  /\ attempts[n].state = "finished" => n = Now /\ Valid(attempts[n].body)
             /\ n < Now => attempts[n].state = "failed"
  <2>1. n < Now => n \in 1 .. (Now - 1)
    BY ReviewFacts
  <2>2. n < Now => attempts[n].state = "failed"
    BY <2>1 DEF ReviewInv, CallsAre
  <2>3. n = Now \/ n < Now
    BY ReviewFacts
  <2>4. attempts[n].state = "finished" => Valid(attempts[n].body)
    BY DEF ReviewInv, CallsAre, Sane, Good
  <2> QED
    BY <2>2, <2>3, <2>4
<1>3. outcome.state = "completed" => outcome.call = Now /\ (HasVerdict <=> Latest.state = "finished")
  <2> SUFFICES ASSUME outcome.state = "completed"
               PROVE  outcome.call = Now /\ (HasVerdict <=> Latest.state = "finished")
    OBVIOUS
  <2>1. /\ outcome.call = Now /\ Latest.state \in {"finished", "failed"}
        /\ Latest.state = "finished" => Good(Latest.body)
    BY SettledIs
  <2>2. /\ Latest.state = "finished" => outcome.verdict = Latest.body.verdict
        /\ Latest.state = "failed" => outcome.verdict = "instrument_failure"
    BY DEF ReviewInv, OutcomeIs
  <2> QED
    BY <2>1, <2>2 DEF HasVerdict, Good
<1> QED
  BY <1>1, <1>2, <1>3 DEF DurableAnswerSettles

LEMMA ReviewsAlone ==
  ASSUME ReviewInv
  PROVE  NoReviewBesideAnother
<1> SUFFICES ASSUME V1_1, NEW n \in 1 .. (Now - 1), attempts[n].handle PROVE attempts[n].turn # "running"
  BY DEF NoReviewBesideAnother
<1>1. attempts[n].failure \in {"retryable", "context"}
  BY DEF ReviewInv, CallsAre
<1>2. n \in 1 .. Now
  BY ReviewFacts
<1>3. Sane(attempts[n])
  BY <1>2 DEF ReviewInv, CallsAre
<1> QED
  BY <1>1, <1>3 DEF Sane

(* ReviewsSound, for every text, quotation and number of calls: what a     *)
(* reviewer answers reaches the Record once and in a form the Record       *)
(* replays, live, after a restart or when a crash took the event.          *)
THEOREM ReviewsThm == ReviewsSpec => []ReviewsSound
<1>1. ReviewsInit => ReviewInv
  BY ReviewStarts
<1>2. ReviewInv /\ [ReviewsNext]_reviewVars => ReviewInv'
  BY ReviewSteps
<1>3. ReviewInv => ReviewsSound
  BY ReviewsAreTyped, ReviewsEvidence, ReviewsSettle, ReviewsAlone DEF ReviewInv, ReviewsSound
<1> QED
  BY <1>1, <1>2, <1>3, PTL DEF ReviewsSpec

=============================================================================
