---------------------------- MODULE LedgerProofs ----------------------------
(***************************************************************************)
(* The idempotency ledger is sound for any number of runs, keys, payloads  *)
(* and lines: it implements a command that happens once and is answered    *)
(* once, through failed writes, crashes and new starts.  And the bundles   *)
(* of the report exports are sound, for any number of workers, snapshots   *)
(* and formulas.                                                           *)
(***************************************************************************)
EXTENDS RunLedger, ReportExport, FiniteSetTheorems, SequenceTheorems, WellFoundedInduction, TLAPS

-----------------------------------------------------------------------------
(* The invariant.  What ties a restart to the life before it is the last   *)
(* line of a key: memory agrees with it about every answer, and about      *)
(* every key until a write has failed.                                     *)

Busy(lock) == doing[lock].at # "idle"

\* What a lock is held for: a key of its own, accepted in memory and carried out or not.
HeldFor(lock) ==
    LET d == doing[lock] IN
    /\ d.key \in ScopedKey /\ LockOf(d.key) = lock /\ d.payload \in Payload /\ d.run \in Run
    /\ serves = "up"
    /\ entries[d.key] = [payload |-> d.payload, run |-> d.run, response |-> NoAnswer]
    /\ told[d.key] = {}
    /\ LinesOf(d.key) # {}
    /\ d.at = "accepted" => applied[d.key] = <<>>
    /\ d.at = "done" => applied[d.key] # <<>> /\ d.run \in saved
    /\ ~IsCreate(d.key) => d.run \in saved

\* What a create that is under way has found: no run of its problem, which only itself can make.
Unrivalled(d) ==
    /\ d.run \notin {s[2] : s \in shown}
    /\ d.at = "accepted" => d.run \notin made /\ MadeFor(d.payload) = {}

LedgerShape ==
    /\ serves \in {"down", "up", "refused"} /\ torn \in BOOLEAN /\ failed \in BOOLEAN /\ clock \in Nat
    /\ entries \in [ScopedKey -> Entry \cup {Nothing}]
    /\ ledger \in Seq([key : ScopedKey, entry : Entry])
    /\ saved \subseteq made /\ inRuns \subseteq saved /\ made \subseteq Run /\ disowned \subseteq saved
    /\ bound \in [Run -> Payload \cup {NoRun}] /\ shown \subseteq Payload \X saved
    /\ doing \in [LedgerLock -> [at : {"idle", "accepted", "done"}, key : ScopedKey \cup {NoRun},
                                payload : Payload \cup {NoRun}, run : Run \cup {NoRun}]]
    /\ applied \in [ScopedKey -> Seq(Payload)] /\ told \in [ScopedKey -> SUBSET Nat]

AnswersStand ==
    \A k \in ScopedKey :
       /\ applied[k] # <<>> => LinesOf(k) # {}
       /\ told[k] # {} => applied[k] # <<>> /\ told[k] = {Latest(k).response}
       /\ LinesOf(k) # {} /\ Latest(k).response # NoAnswer => applied[k] # <<>>

MemoryAgrees ==
    serves = "up" =>
    \A k \in ScopedKey :
       /\ entries[k] = Nothing => applied[k] = <<>> /\ told[k] = {}
       /\ entries[k].response = NoAnswer => told[k] = {}
       /\ entries[k].response # NoAnswer => LinesOf(k) # {} /\ entries[k] = Latest(k)

\* As long as no write failed.
WrittenWell ==
    ~failed =>
    /\ Legible
    /\ serves = "up" => \A k \in ScopedKey : entries[k] = Loaded(k)

\* The runs that count are in memory while the service is up, and a create finds them there.
RunsFound ==
    /\ OneRunPerProblem
    /\ serves = "up" => Claimed \subseteq inRuns
    /\ LET d == doing["service"] IN d.at # "idle" => Unrivalled(d)

LedgerInv ==
    /\ LedgerShape /\ AnswersStand /\ MemoryAgrees /\ WrittenWell /\ RefusesForCause
    /\ \A lock \in LedgerLock : Busy(lock) => HeldFor(lock)

-----------------------------------------------------------------------------
(* The last line of a key                                                  *)

(* A set of positions that is not empty has a last one.                    *)
LEMMA LastOfPositions ==
  ASSUME NEW n \in Nat, NEW T \in SUBSET (1..n), T # {}
  PROVE  \E x \in T : \A y \in T : y <= x
<1> DEFINE LT == {ss \in Nat \X Nat : ss[1] < ss[2]}
           Rest == {n - x : x \in T}
<1>1. IsWellFoundedOn(LT, Nat)
  BY NatLessThanWellFounded, Zenon DEF OpToRel
<1>2. Rest \subseteq Nat /\ Rest # {}
  <2>1. \A x \in T : n - x \in Nat
    OBVIOUS
  <2>2. PICK x \in T : TRUE
    OBVIOUS
  <2>3. n - x \in Rest
    OBVIOUS
  <2> QED BY <2>1, <2>3
<1>3. PICK m \in Rest : \A r \in Rest : ~(<<r, m>> \in LT)
  <2> HIDE DEF LT, Rest
  <2> QED BY <1>1, <1>2, WFMin
<1>4. PICK x \in T : m = n - x
  BY <1>3
<1>5. ASSUME NEW y \in T PROVE y <= x
  <2>1. n - y \in Rest /\ ~(<<n - y, m>> \in LT)
    BY <1>3
  <2>2. <<n - y, m>> \in Nat \X Nat /\ <<n - y, m>>[1] = n - y /\ <<n - y, m>>[2] = m
    BY <1>2, <1>3, <2>1
  <2>3. ~(n - y < m)
    BY <2>1, <2>2 DEF LT
  <2> QED
    BY <1>4, <2>3
<1> QED
  BY <1>5

LEMMA LastLineIsLast ==
  ASSUME LedgerShape, NEW k \in ScopedKey, LinesOf(k) # {}
  PROVE  /\ LastLine(k) \in LinesOf(k) /\ \A i \in LinesOf(k) : i <= LastLine(k)
         /\ Latest(k) \in Entry
<1>1. LinesOf(k) \in SUBSET (1..Len(ledger)) /\ Len(ledger) \in Nat
  BY DEF LinesOf, LedgerShape
<1>2. \E x \in LinesOf(k) : \A y \in LinesOf(k) : y <= x
  BY <1>1, LastOfPositions
<1>3. LastLine(k) \in LinesOf(k) /\ \A i \in LinesOf(k) : i <= LastLine(k)
  BY <1>2 DEF LastLine
<1>4. \A i \in 1..Len(ledger) : ledger[i].entry \in Entry
  <2>1. ledger \in Seq([key : ScopedKey, entry : Entry])
    BY DEF LedgerShape
  <2>2. \A i \in 1..Len(ledger) : ledger[i] \in [key : ScopedKey, entry : Entry]
    BY <2>1, ElementOfSeq
  <2> QED
    BY <2>2
<1>5. LastLine(k) \in 1..Len(ledger)
  BY <1>1, <1>3
<1> QED
  BY <1>3, <1>4, <1>5 DEF Latest

(* A new line is the last one of its key, and changes no other key.        *)
LEMMA NewLine ==
  ASSUME LedgerShape, NEW k \in ScopedKey, NEW e \in Entry, ledger' = Append(ledger, Line(k, e))
  PROVE  /\ ledger' \in Seq([key : ScopedKey, entry : Entry])
         /\ LinesOf(k)' # {} /\ Latest(k)' = e
         /\ \A h \in ScopedKey : h # k =>
               /\ LinesOf(h)' = LinesOf(h)
               /\ LinesOf(h) # {} => Latest(h)' = Latest(h)
<1> DEFINE n == Len(ledger)
<1>1. Line(k, e) \in [key : ScopedKey, entry : Entry] /\ Line(k, e).key = k /\ Line(k, e).entry = e
  BY DEF Line
<1>2. /\ ledger' \in Seq([key : ScopedKey, entry : Entry])
      /\ n \in Nat /\ DOMAIN ledger = 1..n /\ DOMAIN ledger' = 1..(n + 1)
      /\ ledger'[n + 1] = Line(k, e) /\ \A i \in 1..n : ledger'[i] = ledger[i]
  BY <1>1 DEF LedgerShape
<1>3. LinesOf(k)' = LinesOf(k) \cup {n + 1}
  BY <1>1, <1>2 DEF LinesOf
<1>4. \A h \in ScopedKey : h # k => LinesOf(h)' = LinesOf(h)
  BY <1>1, <1>2 DEF LinesOf
<1>5. LastLine(k)' = n + 1
  <2>1. \A i \in LinesOf(k)' : i <= n + 1
    BY <1>2, <1>3 DEF LinesOf
  <2>2. \A m \in LinesOf(k)' : (\A j \in LinesOf(k)' : j <= m) => m = n + 1
    BY <1>2, <1>3, <2>1 DEF LinesOf
  <2> QED
    BY <1>3, <2>1, <2>2 DEF LastLine
<1>6. \A h \in ScopedKey : h # k /\ LinesOf(h) # {} => Latest(h)' = Latest(h)
  <2> SUFFICES ASSUME NEW h \in ScopedKey, h # k, LinesOf(h) # {} PROVE Latest(h)' = Latest(h)
    OBVIOUS
  <2>1. LastLine(h)' = LastLine(h)
    BY <1>4 DEF LastLine
  <2>2. LastLine(h) \in 1..n
    BY LastLineIsLast, <1>2 DEF LinesOf
  <2> QED
    BY <1>2, <2>1, <2>2 DEF Latest
<1> QED
  BY <1>1, <1>2, <1>3, <1>4, <1>5, <1>6 DEF Latest

(* What a start can read stays readable when a line is added that repeats  *)
(* or answers the one before it, and whose run is there.                   *)
LEMMA LegibleGrows ==
  ASSUME LedgerShape, Legible, NEW k \in ScopedKey, NEW e \in Entry, ledger' = Append(ledger, Line(k, e)),
         UNCHANGED <<torn, saved>>,
         LinesOf(k) # {} => Follows(Latest(k), e),
         ~IsCreate(k) \/ e.response # NoAnswer => e.run \in saved
  PROVE  Legible'
<1>0. PICK n \in Nat : n = Len(ledger)
  BY DEF LedgerShape
<1>1. /\ DOMAIN ledger = 1..n /\ DOMAIN ledger' = 1..(n + 1)
      /\ ledger'[n + 1] = Line(k, e) /\ \A i \in 1..n : ledger'[i] = ledger[i]
  BY <1>0 DEF LedgerShape, Line
<1>2. \A h : LinesOf(h) \subseteq LinesOf(h)' /\ LinesOf(h)' \subseteq LinesOf(h) \cup {n + 1}
  BY <1>1 DEF LinesOf
<1>3. ASSUME NEW j \in 1..n, NEW i \in LinesOf(ledger[j].key)', IsNext(i, j)'
      PROVE  Follows(ledger[i].entry, ledger[j].entry)'
  <2>1. ledger'[j] = ledger[j] /\ i < j
    BY <1>1, <1>3 DEF IsNext
  <2>2. i \in LinesOf(ledger[j].key) /\ i \in 1..n
    BY <1>1, <1>2, <2>1 DEF LinesOf
  <2>3. IsNext(i, j)
    <3>1. (ledger'[j]).key = ledger[j].key
      BY <2>1
    <3>2. \A h \in LinesOf(ledger[j].key)' : h <= i \/ j <= h
      BY <1>3, <3>1 DEF IsNext
    <3> QED
      BY <1>2, <2>1, <3>2 DEF IsNext
  <2> QED
    BY <1>1, <2>1, <2>2, <2>3 DEF Legible, Follows
<1>4. ASSUME NEW i \in LinesOf(k)', IsNext(i, n + 1)'
      PROVE  Follows(ledger'[i].entry, e)
  <2>1. ledger'[n + 1].key = k /\ i < n + 1
    BY <1>1, <1>4 DEF IsNext, Line
  <2>2. i \in LinesOf(k) /\ i \in 1..n
    BY <1>1, <1>2, <2>1 DEF LinesOf
  <2>3. i = LastLine(k)
    <3>1. LastLine(k) \in LinesOf(k) /\ i <= LastLine(k) /\ LastLine(k) \in 1..n
      BY <1>1, <2>2, LastLineIsLast DEF LinesOf
    <3>2. \A h \in LinesOf(k)' : h <= i \/ n + 1 <= h
      BY <1>4, <2>1 DEF IsNext
    <3>3. LastLine(k) <= i \/ n + 1 <= LastLine(k)
      BY <1>2, <3>1, <3>2
    <3> QED
      BY <1>1, <2>2, <3>1, <3>3
  <2> QED
    BY <1>1, <2>2, <2>3 DEF Latest
<1> QED
  <2>1. ASSUME NEW j \in DOMAIN ledger'
        PROVE  /\ \A i \in LinesOf(ledger[j].key)' : IsNext(i, j)' => Follows(ledger[i].entry, ledger[j].entry)'
               /\ ~IsCreate(ledger'[j].key) \/ ledger'[j].entry.response # NoAnswer => ledger'[j].entry.run \in saved
    <3>1. CASE j \in 1..n
      BY <1>1, <1>3, <3>1 DEF Legible
    <3>2. CASE j = n + 1
      <4>1. ledger'[n + 1].key = k /\ ledger'[n + 1].entry = e /\ ledger[j].key' = k /\ ledger[j].entry' = e
        BY <1>1, <3>2 DEF Line
      <4>2. \A i \in LinesOf(k)' : IsNext(i, j)' => Follows(ledger'[i].entry, e)
        BY <1>4, <3>2
      <4> QED
        BY <4>1, <4>2, <3>2 DEF Follows
    <3>3. j \in 1..n \/ j = n + 1
      BY <1>1
    <3> QED
      BY <3>1, <3>2, <3>3
  <2> QED
    BY <2>1 DEF Legible, IsCreate

(* Nor does it become unreadable while only the manifests change.          *)
LEMMA LegibleStays ==
  ASSUME Legible, UNCHANGED <<torn, ledger>>, saved \subseteq saved'
  PROVE  Legible'
BY DEF Legible, LinesOf, IsNext, Follows, IsCreate

-----------------------------------------------------------------------------
(* Every step keeps the invariant                                          *)

LEMMA LedgerInvInit == LedgerInit => LedgerInv
<1> SUFFICES ASSUME LedgerInit PROVE LedgerInv OBVIOUS
<1> USE DEF LedgerInit
<1>1. LedgerShape /\ RefusesForCause
  <2>1. ledger \in Seq([key : ScopedKey, entry : Entry]) /\ applied \in [ScopedKey -> Seq(Payload)]
    BY EmptySeq
  <2> QED
    BY <2>1 DEF LedgerShape, RefusesForCause, Vacant
<1>2. DOMAIN ledger = {} /\ \A k \in ScopedKey : LinesOf(k) = {}
  BY DEF LinesOf
<1>3. AnswersStand /\ MemoryAgrees
  BY <1>2 DEF AnswersStand, MemoryAgrees, Nothing
<1>4. WrittenWell
  BY <1>2 DEF WrittenWell, Legible, Loaded
<1>5. \A lock \in LedgerLock : ~Busy(lock)
  BY DEF Busy, Vacant
<1> QED
  BY <1>1, <1>3, <1>4, <1>5 DEF LedgerInv

(* An entry is never mistaken for no entry.                                *)
LEMMA EntryIsSomething == \A e \in Entry : e # Nothing /\ e.run # NoRun
BY LedgerAssumption DEF Entry, Nothing

LEMMA LockIsLock == \A k \in ScopedKey : LockOf(k) \in LedgerLock
BY DEF ScopedKey, LockOf, LedgerLock, IsCreate

(* A fresh key that is accepted has no effect and no answer yet; a key that *)
(* some lock is held for is not fresh.                                      *)
LEMMA AskKeeps ==
  ASSUME LedgerInv, NEW k \in ScopedKey, NEW p \in Payload, Ask(k, p)
  PROVE  LedgerInv'
<1>1. PICK r \in RunsFor(k) : Accept(k, p, r)
  BY DEF Ask
<1>2. r \in Run /\ (~IsCreate(k) => r \in saved)
  BY <1>1 DEF RunsFor, LedgerInv, LedgerShape
<1>3. PICK e \in Entry : e = [payload |-> p, run |-> r, response |-> NoAnswer]
  BY <1>2 DEF Entry
<1>4. /\ serves = "up" /\ entries[k] = Nothing /\ applied[k] = <<>> /\ told[k] = {} /\ ~Busy(LockOf(k))
      /\ UNCHANGED <<serves, made, saved, inRuns, bound, disowned, shown, applied, told, clock>>
  BY DEF Ask, Fresh, LedgerInv, MemoryAgrees, Busy, Vacant
<1>5. LockOf(k) \in LedgerLock
  BY LockIsLock
<1>6. \A lock \in LedgerLock : Busy(lock) => doing[lock].key # k /\ lock # LockOf(k)
  BY <1>4 DEF LedgerInv, HeldFor
<1>7. ASSUME ledger' = Append(ledger, Line(k, e))
      PROVE  AnswersStand' /\ ledger' \in Seq([key : ScopedKey, entry : Entry])
  <2>1. AnswersStand /\ LedgerShape
    BY DEF LedgerInv
  <2>2. /\ ledger' \in Seq([key : ScopedKey, entry : Entry]) /\ LinesOf(k)' # {} /\ Latest(k)' = e
        /\ \A h \in ScopedKey : h # k => LinesOf(h)' = LinesOf(h) /\ (LinesOf(h) # {} => Latest(h)' = Latest(h))
    BY <1>7, <2>1, NewLine
  <2>3. Latest(k).response' = NoAnswer
    BY <1>3, <2>2
  <2> QED
    BY <1>4, <2>1, <2>2, <2>3 DEF AnswersStand
<1>8. CASE /\ ledger' = Append(ledger, Line(k, e)) /\ entries' = [entries EXCEPT ![k] = e]
           /\ doing' = [doing EXCEPT ![LockOf(k)] = Started(k, p, r)] /\ UNCHANGED <<torn, failed>>
  <2>1. LedgerShape'
    <3>1. Started(k, p, r) \in [at : {"idle", "accepted", "done"}, key : ScopedKey \cup {NoRun},
                                payload : Payload \cup {NoRun}, run : Run \cup {NoRun}]
      BY <1>2 DEF Started
    <3> QED
      BY <1>4, <1>5, <1>7, <1>8, <3>1 DEF LedgerInv, LedgerShape
  <2>2. MemoryAgrees'
    BY <1>3, <1>4, <1>8, EntryIsSomething, NewLine DEF LedgerInv, LedgerShape, MemoryAgrees
  <2>3. WrittenWell'
    <3> SUFFICES ASSUME ~failed PROVE Legible' /\ \A h \in ScopedKey : entries'[h] = Loaded(h)'
      BY <1>4, <1>8 DEF WrittenWell
    <3>1. Legible /\ \A h \in ScopedKey : entries[h] = Loaded(h)
      BY <1>4 DEF LedgerInv, WrittenWell
    <3>2. LinesOf(k) = {}
      BY <1>4, <3>1, LastLineIsLast, EntryIsSomething DEF Loaded, LedgerInv
    <3>3. Legible'
      BY <1>2, <1>3, <1>4, <1>8, <3>1, <3>2, LegibleGrows DEF LedgerInv
    <3>4. entries'[k] = Loaded(k)'
      BY <1>8, NewLine DEF Loaded, LedgerInv, LedgerShape
    <3>5. ASSUME NEW h \in ScopedKey, h # k PROVE entries'[h] = Loaded(h)'
      BY <1>8, <3>1, <3>5, NewLine DEF Loaded, LedgerInv, LedgerShape
    <3> QED
      BY <3>3, <3>4, <3>5
  <2>4. ASSUME NEW lock \in LedgerLock, Busy(lock)' PROVE HeldFor(lock)'
    <3>1. CASE lock = LockOf(k)
      <4>1. doing'[lock] = Started(k, p, r)
        BY <1>8, <3>1 DEF LedgerInv, LedgerShape
      <4>2. entries'[k] = e /\ LinesOf(k)' # {}
        BY <1>8, NewLine DEF LedgerInv, LedgerShape
      <4> QED
        BY <1>2, <1>3, <1>4, <3>1, <4>1, <4>2 DEF HeldFor, Started, LockOf, IsCreate
    <3>2. CASE lock # LockOf(k)
      <4>1. doing'[lock] = doing[lock] /\ Busy(lock) /\ HeldFor(lock) /\ doing[lock].key # k
        BY <1>6, <1>8, <2>4, <3>2 DEF LedgerInv, LedgerShape, Busy
      <4>2. doing[lock].key \in ScopedKey
        BY <4>1 DEF HeldFor
      <4>3. entries'[doing[lock].key] = entries[doing[lock].key] /\ LinesOf(doing[lock].key)' = LinesOf(doing[lock].key)
        BY <1>8, <4>1, <4>2, NewLine DEF LedgerInv, LedgerShape
      <4> QED
        BY <1>4, <4>1, <4>3 DEF HeldFor, LockOf, IsCreate
    <3> QED
      BY <3>1, <3>2
  <2> QED
    BY <1>4, <1>7, <1>8, <2>1, <2>2, <2>3, <2>4 DEF LedgerInv, RefusesForCause
<1>9. CASE failed' = TRUE /\ ledger' = Append(ledger, Line(k, e)) /\ UNCHANGED <<entries, torn, doing>>
  <2>1. LedgerShape'
    BY <1>4, <1>7, <1>9 DEF LedgerInv, LedgerShape
  <2>2. MemoryAgrees'
    <3>1. \A h \in ScopedKey : h # k => LinesOf(h)' = LinesOf(h) /\ (LinesOf(h) # {} => Latest(h)' = Latest(h))
      BY <1>9, NewLine DEF LedgerInv
    <3>2. entries[k].response = NoAnswer
      BY <1>4 DEF Nothing
    <3> QED
      BY <1>4, <1>9, <3>1, <3>2 DEF LedgerInv, MemoryAgrees
  <2>3. ASSUME NEW lock \in LedgerLock, Busy(lock)' PROVE HeldFor(lock)'
    <3>1. doing[lock].key \in ScopedKey /\ doing[lock].key # k /\ HeldFor(lock)
      BY <1>6, <1>9, <2>3 DEF LedgerInv, Busy, HeldFor
    <3>2. LinesOf(doing[lock].key)' = LinesOf(doing[lock].key)
      BY <1>9, <3>1, NewLine DEF LedgerInv
    <3> QED
      BY <1>4, <1>9, <3>1, <3>2 DEF HeldFor, LockOf, IsCreate
  <2> QED
    BY <1>4, <1>7, <1>9, <2>1, <2>2, <2>3 DEF LedgerInv, WrittenWell, RefusesForCause
<1>10. CASE failed' = TRUE /\ torn' = TRUE /\ UNCHANGED <<entries, ledger, doing>>
  <2>1. \A h : LinesOf(h)' = LinesOf(h) /\ Latest(h)' = Latest(h)
    BY <1>10 DEF LinesOf, Latest, LastLine
  <2>2. LedgerShape' /\ AnswersStand' /\ MemoryAgrees' /\ WrittenWell' /\ RefusesForCause'
    BY <1>4, <1>10, <2>1 DEF LedgerInv, LedgerShape, AnswersStand, MemoryAgrees, WrittenWell, RefusesForCause
  <2>3. \A lock \in LedgerLock : Busy(lock)' => HeldFor(lock)'
    BY <1>4, <1>10, <2>1 DEF LedgerInv, Busy, HeldFor, LockOf, IsCreate
  <2> QED
    BY <2>2, <2>3 DEF LedgerInv
<1> QED
  BY <1>1, <1>3, <1>8, <1>9, <1>10 DEF Accept

LEMMA SameLines ==
  ASSUME ledger' = ledger
  PROVE  \A h : LinesOf(h)' = LinesOf(h) /\ Latest(h)' = Latest(h) /\ Loaded(h)' = Loaded(h)
BY DEF LinesOf, Latest, LastLine, Loaded

(* The answer that is given again is the one on disk.                      *)
LEMMA AskAgainKeeps ==
  ASSUME LedgerInv, NEW k \in ScopedKey, NEW p \in Payload, AskAgain(k, p)
  PROVE  LedgerInv'
<1> USE DEF AskAgain
<1>1. /\ entries[k] \in Entry /\ entries[k].response \in Nat /\ LinesOf(k) # {} /\ entries[k] = Latest(k)
  <2>1. entries[k] # Nothing /\ entries[k] \in Entry \cup {Nothing}
    BY DEF LedgerInv, LedgerShape, Nothing
  <2> QED
    BY <2>1 DEF LedgerInv, MemoryAgrees, Entry
<1>2. told'[k] = {entries[k].response}
  BY <1>1 DEF LedgerInv, LedgerShape, AnswersStand
<1>3. applied[k] # <<>>
  BY <1>1 DEF LedgerInv, AnswersStand
<1>4. ASSUME NEW lock \in LedgerLock, Busy(lock), doing[lock].key = k PROVE FALSE
  <2>1. entries[k] = [payload |-> doing[lock].payload, run |-> doing[lock].run, response |-> NoAnswer]
    BY <1>4 DEF LedgerInv, HeldFor
  <2> QED
    BY <1>1, <2>1, LedgerAssumption
<1>5. LedgerShape'
  BY <1>1 DEF LedgerInv, LedgerShape
<1>6. AnswersStand' /\ MemoryAgrees'
  BY <1>1, <1>2, <1>3, SameLines DEF LedgerInv, LedgerShape, AnswersStand, MemoryAgrees
<1>7. WrittenWell' /\ RefusesForCause'
  BY LegibleStays, SameLines DEF LedgerInv, WrittenWell, RefusesForCause
<1>8. \A lock \in LedgerLock : Busy(lock)' => HeldFor(lock)'
  BY <1>4, SameLines DEF LedgerInv, LedgerShape, Busy, HeldFor, LockOf, IsCreate
<1> QED
  BY <1>5, <1>6, <1>7, <1>8 DEF LedgerInv

(* A create that is shown a run of its problem leaves the ledger alone.    *)
LEMMA AskForExistingKeeps ==
  ASSUME LedgerInv, NEW k \in ScopedKey, NEW p \in Payload, AskForExisting(k, p)
  PROVE  LedgerInv'
<1>1. shown' \subseteq Payload \X saved
  BY DEF AskForExisting, MadeFor, LedgerInv, LedgerShape
<1>2. UNCHANGED <<serves, entries, ledger, torn, failed, made, saved, inRuns, bound, disowned, doing, applied, told, clock>>
  BY DEF AskForExisting
<1>3. LedgerShape' /\ AnswersStand' /\ MemoryAgrees' /\ RefusesForCause'
  BY <1>1, <1>2, SameLines DEF LedgerInv, LedgerShape, AnswersStand, MemoryAgrees, RefusesForCause
<1>4. WrittenWell'
  BY <1>2, LegibleStays, SameLines DEF LedgerInv, WrittenWell
<1>5. \A l \in LedgerLock : Busy(l)' => HeldFor(l)'
  BY <1>2, SameLines DEF LedgerInv, Busy, HeldFor, LockOf, IsCreate
<1> QED
  BY <1>3, <1>4, <1>5 DEF LedgerInv

(* What is carried out was accepted on disk, and was not carried out yet.  *)
LEMMA CarryOutKeeps ==
  ASSUME LedgerInv, NEW lock \in LedgerLock, CarryOut(lock)
  PROVE  LedgerInv'
<1> USE DEF CarryOut
<1> DEFINE d == doing[lock]
<1>1. /\ d.key \in ScopedKey /\ LockOf(d.key) = lock /\ d.payload \in Payload /\ d.run \in Run
      /\ entries[d.key] = [payload |-> d.payload, run |-> d.run, response |-> NoAnswer]
      /\ told[d.key] = {} /\ LinesOf(d.key) # {} /\ applied[d.key] = <<>>
  BY DEF LedgerInv, Busy, HeldFor
<1>2. entries[d.key] \in Entry
  BY <1>1 DEF Entry
<1>3. /\ applied' = [applied EXCEPT ![d.key] = <<d.payload>>] /\ applied'[d.key] # <<>>
      /\ UNCHANGED <<serves, entries, ledger, torn, failed, told>>
  BY <1>1 DEF LedgerInv, LedgerShape
<1>4. /\ doing'[lock] = [at |-> "done", key |-> d.key, payload |-> d.payload, run |-> d.run]
      /\ \A l \in LedgerLock : l # lock => doing'[l] = doing[l]
  BY DEF LedgerInv, LedgerShape
<1>5. LedgerShape'
  <2>1. applied' \in [ScopedKey -> Seq(Payload)]
    BY <1>1, <1>3 DEF LedgerInv, LedgerShape
  <2>2. doing' \in [LedgerLock -> [at : {"idle", "accepted", "done"}, key : ScopedKey \cup {NoRun},
                                   payload : Payload \cup {NoRun}, run : Run \cup {NoRun}]]
    BY <1>1, <1>4 DEF LedgerInv, LedgerShape
  <2> QED
    BY <1>1, <1>3, <2>1, <2>2 DEF LedgerInv, LedgerShape
<1>6. AnswersStand'
  <2>1. \A h \in ScopedKey : h # d.key => applied'[h] = applied[h]
    BY <1>3 DEF LedgerInv, LedgerShape
  <2> QED
    BY <1>1, <1>3, <2>1, SameLines DEF LedgerInv, AnswersStand
<1>7. MemoryAgrees'
  BY <1>1, <1>2, <1>3, SameLines, EntryIsSomething DEF LedgerInv, LedgerShape, MemoryAgrees
<1>8. WrittenWell' /\ RefusesForCause'
  BY <1>3, LegibleStays, SameLines DEF LedgerInv, WrittenWell, RefusesForCause
<1>9. ASSUME NEW l \in LedgerLock, Busy(l)' PROVE HeldFor(l)'
  <2>1. CASE l = lock
    <3>1. doing'[l].key = d.key /\ doing'[l].payload = d.payload /\ doing'[l].run = d.run /\ doing'[l].at = "done"
      BY <1>4, <2>1
    <3>2. serves = "up" /\ d.run \in saved'
      <4>1. ~IsCreate(d.key) => d.run \in saved
        BY DEF LedgerInv, Busy, HeldFor
      <4> QED
        BY <4>1
    <3> QED
      BY <1>1, <1>3, <2>1, <3>1, <3>2, SameLines DEF HeldFor, LockOf, IsCreate
  <2>2. CASE l # lock
    <3>1. HeldFor(l) /\ doing'[l] = doing[l] /\ doing[l].key # d.key
      BY <1>1, <1>4, <1>9, <2>2 DEF LedgerInv, Busy, HeldFor
    <3>2. applied'[doing[l].key] = applied[doing[l].key]
      BY <1>3, <3>1 DEF LedgerInv, LedgerShape, HeldFor
    <3> QED
      BY <1>3, <3>1, <3>2, SameLines DEF HeldFor, LockOf, IsCreate
  <2> QED
    BY <2>1, <2>2
<1> QED
  BY <1>5, <1>6, <1>7, <1>8, <1>9 DEF LedgerInv

(* A command that raises leaves its key pending.                           *)
LEMMA CommandFailsKeeps ==
  ASSUME LedgerInv, NEW lock \in LedgerLock, CommandFails(lock)
  PROVE  LedgerInv'
<1> USE DEF CommandFails
<1>1. doing[lock].run \in Run /\ inRuns' \subseteq inRuns /\ disowned' \subseteq saved
  BY DEF LedgerInv, LedgerShape, Busy, HeldFor, Forgets
<1>2. LedgerShape'
  BY <1>1 DEF LedgerInv, LedgerShape, Vacant
<1>3. AnswersStand' /\ MemoryAgrees' /\ RefusesForCause'
  BY SameLines DEF LedgerInv, AnswersStand, MemoryAgrees, RefusesForCause
<1>4. WrittenWell'
  BY LegibleStays, SameLines DEF LedgerInv, WrittenWell
<1>5. ASSUME NEW l \in LedgerLock, Busy(l)' PROVE HeldFor(l)'
  <2>1. doing'[l] = doing[l] /\ Busy(l) /\ HeldFor(l)
    BY <1>5 DEF LedgerInv, LedgerShape, Busy, Vacant
  <2> QED
    BY <2>1, SameLines DEF HeldFor, LockOf, IsCreate
<1> QED
  BY <1>2, <1>3, <1>4, <1>5 DEF LedgerInv

(* A lock is held for the same as before when nothing of its key changes.  *)
LEMMA HeldStays ==
  ASSUME NEW l \in LedgerLock, HeldFor(l), doing'[l] = doing[l], UNCHANGED <<serves, applied>>, saved \subseteq saved',
         entries'[doing[l].key] = entries[doing[l].key], told'[doing[l].key] = told[doing[l].key],
         LinesOf(doing[l].key)' = LinesOf(doing[l].key)
  PROVE  HeldFor(l)'
<1>1. doing'[l].key = doing[l].key
  OBVIOUS
<1>2. LinesOf(doing[l].key)' # {}
  BY DEF HeldFor
<1> QED
  BY <1>1, <1>2 DEF HeldFor, LockOf, IsCreate

(* The answer goes to disk before it goes to memory and to the caller; a   *)
(* write that fails leaves the key pending until the next start.           *)
LEMMA StoreKeeps ==
  ASSUME LedgerInv, NEW lock \in LedgerLock, Store(lock)
  PROVE  LedgerInv'
<1> DEFINE d == doing[lock]
<1>1. /\ d.key \in ScopedKey /\ LockOf(d.key) = lock /\ d.payload \in Payload /\ d.run \in saved
      /\ entries[d.key] = [payload |-> d.payload, run |-> d.run, response |-> NoAnswer]
      /\ told[d.key] = {} /\ LinesOf(d.key) # {} /\ applied[d.key] # <<>>
      /\ serves = "up" /\ clock \in Nat /\ d.run \in Run
  BY DEF Store, LedgerInv, LedgerShape, Busy, HeldFor
<1>2. PICK k \in ScopedKey : k = d.key
  BY <1>1
<1>3. PICK e \in Entry : e = [payload |-> d.payload, run |-> d.run, response |-> clock]
  BY <1>1 DEF Entry
<1>4. /\ doing' = [doing EXCEPT ![lock] = Vacant] /\ UNCHANGED <<serves, made, saved, bound, shown, applied, clock>>
      /\ \/ /\ ledger' = Append(ledger, Line(k, e)) /\ entries' = [entries EXCEPT ![k] = e]
            /\ Answered(k, clock) /\ UNCHANGED <<torn, failed, inRuns, disowned>>
         \/ failed' = TRUE /\ ledger' = Append(ledger, Line(k, e)) /\ Forgets(d) /\ UNCHANGED <<entries, torn, told>>
         \/ failed' = TRUE /\ torn' = TRUE /\ Forgets(d) /\ UNCHANGED <<entries, ledger, told>>
  BY <1>2, <1>3 DEF Store
<1>5. /\ doing' \in [LedgerLock -> [at : {"idle", "accepted", "done"}, key : ScopedKey \cup {NoRun},
                                   payload : Payload \cup {NoRun}, run : Run \cup {NoRun}]]
      /\ inRuns' \subseteq saved /\ disowned' \subseteq saved
  BY <1>1, <1>4 DEF LedgerInv, LedgerShape, Vacant, Forgets
<1>6. ASSUME NEW l \in LedgerLock, Busy(l)'
      PROVE  doing'[l] = doing[l] /\ HeldFor(l) /\ doing[l].key \in ScopedKey /\ doing[l].key # k
  <2>1. l # lock /\ doing'[l] = doing[l]
    BY <1>4, <1>6 DEF LedgerInv, LedgerShape, Busy, Vacant
  <2> QED
    BY <1>1, <1>2, <1>6, <2>1 DEF LedgerInv, Busy, HeldFor
<1>7. ASSUME ledger' = Append(ledger, Line(k, e))
      PROVE  /\ ledger' \in Seq([key : ScopedKey, entry : Entry]) /\ LinesOf(k)' # {} /\ Latest(k)' = e
             /\ \A h \in ScopedKey : h # k => LinesOf(h)' = LinesOf(h) /\ (LinesOf(h) # {} => Latest(h)' = Latest(h))
  BY <1>7, NewLine DEF LedgerInv
<1>8. CASE /\ ledger' = Append(ledger, Line(k, e)) /\ entries' = [entries EXCEPT ![k] = e]
           /\ Answered(k, clock) /\ UNCHANGED <<torn, failed, inRuns, disowned>>
  <2>1. told'[k] = {clock} /\ (\A h \in ScopedKey : h # k => told'[h] = told[h]) /\ told' \in [ScopedKey -> SUBSET Nat]
    BY <1>1, <1>2, <1>8 DEF Answered, LedgerInv, LedgerShape
  <2>2. entries' \in [ScopedKey -> Entry \cup {Nothing}] /\ entries'[k] = e
        /\ \A h \in ScopedKey : h # k => entries'[h] = entries[h]
    BY <1>8 DEF LedgerInv, LedgerShape
  <2>3. LedgerShape'
    BY <1>4, <1>5, <1>7, <1>8, <2>1, <2>2 DEF LedgerInv, LedgerShape
  <2>4. AnswersStand'
    <3>1. /\ UNCHANGED applied /\ applied[k] # <<>> /\ LinesOf(k)' # {}
          /\ told'[k] = {Latest(k)'.response}
      BY <1>1, <1>2, <1>3, <1>4, <1>7, <1>8, <2>1
    <3>2. ASSUME NEW h \in ScopedKey, h # k
          PROVE  /\ told'[h] = told[h] /\ LinesOf(h)' = LinesOf(h)
                 /\ LinesOf(h) # {} => Latest(h)' = Latest(h)
      BY <1>7, <1>8, <2>1, <3>2
    <3>3. \A h \in ScopedKey :
             /\ applied[h] # <<>> => LinesOf(h) # {}
             /\ told[h] # {} => applied[h] # <<>> /\ told[h] = {Latest(h).response}
             /\ LinesOf(h) # {} /\ Latest(h).response # NoAnswer => applied[h] # <<>>
      BY DEF LedgerInv, AnswersStand
    <3>4. ASSUME NEW h \in ScopedKey
          PROVE  /\ applied'[h] # <<>> => LinesOf(h)' # {}
                 /\ told'[h] # {} => applied'[h] # <<>> /\ told'[h] = {Latest(h)'.response}
                 /\ LinesOf(h)' # {} /\ Latest(h)'.response # NoAnswer => applied'[h] # <<>>
      BY <3>1, <3>2, <3>3
    <3> QED
      BY <3>4 DEF AnswersStand
  <2>5. MemoryAgrees'
    <3>1. e # Nothing /\ e.response = clock /\ e.response # NoAnswer
      BY <1>1, <1>3, EntryIsSomething, LedgerAssumption
    <3> QED
      BY <1>4, <1>7, <1>8, <2>1, <2>2, <3>1 DEF LedgerInv, MemoryAgrees
  <2>6. WrittenWell'
    <3> SUFFICES ASSUME ~failed PROVE Legible' /\ \A h \in ScopedKey : entries'[h] = Loaded(h)'
      BY <1>4, <1>8 DEF WrittenWell
    <3>1. Legible /\ \A h \in ScopedKey : entries[h] = Loaded(h)
      BY <1>1 DEF LedgerInv, WrittenWell
    <3>2. Follows(Latest(k), e)
      BY <1>1, <1>2, <1>3, <3>1 DEF Loaded, Follows
    <3>3. Legible'
      BY <1>1, <1>3, <1>4, <1>8, <3>1, <3>2, LegibleGrows DEF LedgerInv
    <3> QED
      BY <1>7, <1>8, <2>2, <3>1, <3>3 DEF Loaded
  <2>7. ASSUME NEW l \in LedgerLock, Busy(l)' PROVE HeldFor(l)'
    <3>1. doing'[l] = doing[l] /\ HeldFor(l) /\ doing[l].key \in ScopedKey /\ doing[l].key # k
      BY <1>6, <2>7
    <3> QED
      BY <1>4, <1>7, <1>8, <2>1, <2>2, <2>7, <3>1, HeldStays
  <2> QED
    BY <1>1, <1>4, <2>3, <2>4, <2>5, <2>6, <2>7 DEF LedgerInv, RefusesForCause
<1>9. CASE failed' = TRUE /\ ledger' = Append(ledger, Line(k, e)) /\ Forgets(d) /\ UNCHANGED <<entries, torn, told>>
  <2>1. LedgerShape' /\ WrittenWell' /\ RefusesForCause'
    BY <1>4, <1>5, <1>7, <1>9 DEF LedgerInv, LedgerShape, WrittenWell, RefusesForCause
  <2>2. AnswersStand'
    BY <1>1, <1>2, <1>4, <1>7, <1>9 DEF LedgerInv, AnswersStand
  <2>3. MemoryAgrees'
    <3>1. entries[k].response = NoAnswer /\ entries[k] # Nothing
      BY <1>1, <1>2, LedgerAssumption DEF Nothing
    <3> QED
      BY <1>1, <1>2, <1>4, <1>7, <1>9, <3>1 DEF LedgerInv, MemoryAgrees
  <2>4. ASSUME NEW l \in LedgerLock, Busy(l)' PROVE HeldFor(l)'
    <3>1. doing'[l] = doing[l] /\ HeldFor(l) /\ doing[l].key \in ScopedKey /\ doing[l].key # k
      BY <1>6, <2>4
    <3> QED
      BY <1>4, <1>7, <1>9, <3>1 DEF HeldFor, LockOf, IsCreate
  <2> QED
    BY <2>1, <2>2, <2>3, <2>4 DEF LedgerInv
<1>10. CASE failed' = TRUE /\ torn' = TRUE /\ Forgets(d) /\ UNCHANGED <<entries, ledger, told>>
  <2>1. LedgerShape' /\ WrittenWell' /\ RefusesForCause'
    BY <1>4, <1>5, <1>10 DEF LedgerInv, LedgerShape, WrittenWell, RefusesForCause
  <2>2. AnswersStand' /\ MemoryAgrees'
    BY <1>4, <1>10, SameLines DEF LedgerInv, AnswersStand, MemoryAgrees
  <2>3. \A l \in LedgerLock : Busy(l)' => HeldFor(l)'
    BY <1>4, <1>6, <1>10, SameLines, HeldStays
  <2> QED
    BY <2>1, <2>2, <2>3 DEF LedgerInv
<1> QED
  BY <1>4, <1>8, <1>9, <1>10

(* A crash loses memory only, and may leave directories behind.            *)
LEMMA ServesNoMoreKeeps ==
  ASSUME LedgerInv, ServesNoMore
  PROVE  LedgerInv'
<1> USE DEF ServesNoMore
<1>1. PICK lost \in SUBSET {doing[l].run : l \in {l \in LedgerLock : doing[l].at # "idle"}} : made' = made \cup lost
  OBVIOUS
<1>2. lost \subseteq Run
  <2>1. \A l \in LedgerLock : doing[l].at # "idle" => doing[l].run \in Run
    BY DEF LedgerInv, Busy, HeldFor
  <2> QED
    BY <1>1, <2>1
<1>3. LedgerShape'
  BY <1>1, <1>2 DEF LedgerInv, LedgerShape, Vacant
<1>4. AnswersStand' /\ MemoryAgrees' /\ RefusesForCause'
  BY SameLines DEF LedgerInv, AnswersStand, MemoryAgrees, RefusesForCause
<1>5. WrittenWell'
  BY LegibleStays DEF LedgerInv, WrittenWell
<1>6. \A l \in LedgerLock : ~Busy(l)'
  BY DEF Busy, Vacant
<1> QED
  BY <1>3, <1>4, <1>5, <1>6 DEF LedgerInv

(* What is loaded is the last line of each key.                            *)
LEMMA ServesAgainKeeps ==
  ASSUME LedgerInv, ServesAgain
  PROVE  LedgerInv'
<1> USE DEF ServesAgain
<1>1. UNCHANGED <<ledger, torn, failed, made, saved, bound, disowned, shown, doing, applied, told, clock>>
  OBVIOUS
<1>2. \A l \in LedgerLock : ~Busy(l)
  BY DEF LedgerInv, HeldFor
<1>3. \A k \in ScopedKey : Loaded(k) \in Entry \cup {Nothing}
  BY LastLineIsLast DEF Loaded, LedgerInv
<1>4. LedgerShape'
  BY <1>3 DEF LedgerInv, LedgerShape
<1>5. AnswersStand'
  BY SameLines DEF LedgerInv, AnswersStand
<1>6. MemoryAgrees'
  <2> SUFFICES ASSUME NEW k \in ScopedKey, serves' = "up"
               PROVE  /\ entries'[k] = Nothing => applied[k] = <<>> /\ told[k] = {}
                      /\ entries'[k].response = NoAnswer => told[k] = {}
                      /\ entries'[k].response # NoAnswer => LinesOf(k) # {} /\ entries'[k] = Latest(k)
    BY <1>1, SameLines DEF MemoryAgrees
  <2>1. entries'[k] = Loaded(k)
    OBVIOUS
  <2>2. /\ applied[k] # <<>> => LinesOf(k) # {}
        /\ told[k] # {} => applied[k] # <<>> /\ told[k] = {Latest(k).response}
        /\ told[k] \subseteq Nat
    BY DEF LedgerInv, LedgerShape, AnswersStand
  <2>3. CASE LinesOf(k) = {}
    BY <2>1, <2>2, <2>3 DEF Loaded, Nothing
  <2>4. CASE LinesOf(k) # {}
    <3>1. Latest(k) # Nothing
      BY <2>4, LastLineIsLast, EntryIsSomething DEF LedgerInv
    <3> QED
      BY <2>1, <2>2, <2>4, <3>1, LedgerAssumption DEF Loaded
  <2> QED
    BY <2>3, <2>4
<1>7. WrittenWell' /\ RefusesForCause'
  BY LegibleStays, SameLines DEF LedgerInv, WrittenWell, RefusesForCause
<1>8. \A l \in LedgerLock : ~Busy(l)'
  BY <1>1, <1>2 DEF Busy
<1> QED
  BY <1>4, <1>5, <1>6, <1>7, <1>8 DEF LedgerInv

LEMMA LedgerInvStep == LedgerInv /\ [LedgerNext]_ledgerVars => LedgerInv'
<1> SUFFICES ASSUME LedgerInv, [LedgerNext]_ledgerVars PROVE LedgerInv' OBVIOUS
<1>1. CASE LedgerNext
  BY <1>1, AskKeeps, AskForExistingKeeps, AskAgainKeeps, CarryOutKeeps, CommandFailsKeeps, StoreKeeps, ServesNoMoreKeeps, ServesAgainKeeps
     DEF LedgerNext
<1>2. CASE UNCHANGED ledgerVars
  <2>1. LedgerShape' /\ AnswersStand' /\ MemoryAgrees' /\ RefusesForCause'
    BY <1>2, SameLines DEF ledgerVars, LedgerInv, LedgerShape, AnswersStand, MemoryAgrees, RefusesForCause
  <2>2. WrittenWell'
    BY <1>2, LegibleStays, SameLines DEF ledgerVars, LedgerInv, WrittenWell
  <2>3. \A l \in LedgerLock : Busy(l)' => HeldFor(l)'
    BY <1>2, SameLines DEF ledgerVars, LedgerInv, Busy, HeldFor, LockOf, IsCreate
  <2> QED
    BY <2>1, <2>2, <2>3 DEF LedgerInv
<1> QED
  BY <1>1, <1>2

-----------------------------------------------------------------------------
(* The run of an intake problem                                            *)

LEMMA SameRuns ==
  ASSUME RunsFound, UNCHANGED <<serves, made, saved, inRuns, bound, disowned, shown>>,
         doing'["service"] = doing["service"]
  PROVE  RunsFound'
BY DEF RunsFound, OneRunPerProblem, Claimed, Unrivalled, MadeFor

LEMMA AlikeBothWays == \A p, q : p \in Alike(q) => q \in Alike(p)
BY DEF Alike

\* The service lock is held for creates, the lock of a run for its commands.
LEMMA CreatesHoldTheService ==
  \A k \in ScopedKey : (LockOf(k) = "service" <=> IsCreate(k)) /\ (~IsCreate(k) => k[1] \in Run)
BY LedgerAssumption DEF LockOf, ScopedKey, IsCreate

(* A create goes on only when it finds no run of its problem.              *)
LEMMA AskFinds ==
  ASSUME LedgerInv, RunsFound, NEW k \in ScopedKey, NEW p \in Payload, Ask(k, p)
  PROVE  RunsFound'
<1>1. PICK r \in RunsFor(k) : Accept(k, p, r)
  BY DEF Ask
<1>2. /\ UNCHANGED <<serves, made, saved, inRuns, bound, disowned, shown>>
      /\ IsCreate(k) => MadeFor(p) = {}
  BY DEF Ask
<1>3. CASE doing'["service"] = doing["service"]
  BY <1>2, <1>3, SameRuns
<1>4. CASE doing'["service"] # doing["service"]
  <2>1. LockOf(k) = "service" /\ doing' = [doing EXCEPT !["service"] = Started(k, p, r)]
    <3>1. doing' = [doing EXCEPT ![LockOf(k)] = Started(k, p, r)]
      BY <1>1, <1>4 DEF Accept
    <3>2. LockOf(k) # "service" => doing'["service"] = doing["service"]
      BY <3>1 DEF LedgerInv, LedgerShape, LedgerLock
    <3> QED
      BY <1>4, <3>1, <3>2
  <2>2. IsCreate(k) /\ r \in Run \ made /\ MadeFor(p) = {}
    BY <1>2, <2>1, CreatesHoldTheService DEF RunsFor
  <2>3. doing'["service"] = Started(k, p, r)
    BY <2>1 DEF LedgerInv, LedgerShape, LedgerLock
  <2>4. MadeFor(p)' = {} /\ r \notin {s[2] : s \in shown}
    BY <1>2, <2>2 DEF MadeFor, LedgerInv, LedgerShape
  <2>5. Unrivalled(Started(k, p, r))'
    BY <1>2, <2>2, <2>4 DEF Unrivalled, Started
  <2>6. OneRunPerProblem' /\ (serves' = "up" => Claimed' \subseteq inRuns')
    BY <1>2 DEF RunsFound, OneRunPerProblem, Claimed
  <2> QED
    BY <2>3, <2>5, <2>6 DEF RunsFound, Unrivalled
<1> QED
  BY <1>3, <1>4

(* The run that is shown is the only one of its problem.                   *)
LEMMA AskForExistingFinds ==
  ASSUME LedgerInv, RunsFound, NEW k \in ScopedKey, NEW p \in Payload, AskForExisting(k, p)
  PROVE  RunsFound'
<1>1. PICK r \in MadeFor(p) : MadeFor(p) = {r} /\ bound[r] = p /\ shown' = shown \cup {<<p, r>>}
  BY DEF AskForExisting
<1>2. UNCHANGED <<serves, made, saved, inRuns, bound, disowned, doing>> /\ serves = "up"
      /\ doing["service"] = Vacant
  BY DEF AskForExisting, LockOf
<1>3. r \in inRuns
  BY <1>1 DEF MadeFor
<1>4. Claimed' = Claimed \cup {r}
  <2>1. {s[2] : s \in shown'} = {s[2] : s \in shown} \cup {r}
    <3>1. <<p, r>>[2] = r
      OBVIOUS
    <3>2. \A s \in shown' : s \in shown \/ s = <<p, r>>
      BY <1>1
    <3>3. shown \subseteq shown' /\ <<p, r>> \in shown'
      BY <1>1
    <3> QED
      BY <3>1, <3>2, <3>3
  <2> QED
    BY <1>2, <2>1 DEF Claimed
<1>5. Claimed \subseteq inRuns
  BY <1>2 DEF RunsFound
<1>6. ASSUME NEW q \in Claimed, bound[q] \in Alike(p) PROVE q = r
  BY <1>1, <1>5, <1>6 DEF MadeFor
<1>7. ASSUME NEW q \in Claimed', NEW h \in Claimed', bound[q] \in Alike(bound[h]) PROVE q = h
  BY <1>1, <1>4, <1>6, <1>7, AlikeBothWays DEF RunsFound, OneRunPerProblem
<1>8. \A s \in shown' : bound[s[2]] = s[1]
  BY <1>1 DEF RunsFound, OneRunPerProblem
<1>9. OneRunPerProblem'
  BY <1>2, <1>7, <1>8 DEF OneRunPerProblem, Alike
<1> QED
  BY <1>2, <1>3, <1>4, <1>5, <1>9 DEF RunsFound, Vacant

(* What a lock is held for that is not the service's leaves the runs alone.*)
LEMMA CommandFinds ==
  ASSUME LedgerInv, RunsFound, NEW lock \in LedgerLock, CarryOut(lock) \/ CommandFails(lock) \/ Store(lock),
         ~IsCreate(doing[lock].key)
  PROVE  RunsFound'
<1>1. Busy(lock) /\ LockOf(doing[lock].key) = lock /\ doing[lock].key \in ScopedKey
  BY DEF LedgerInv, Busy, HeldFor, CarryOut, CommandFails, Store
<1>2. lock # "service"
  BY <1>1, CreatesHoldTheService
<1>3. doing'["service"] = doing["service"]
  BY <1>2 DEF LedgerInv, LedgerShape, CarryOut, CommandFails, Store, LedgerLock
<1>4. UNCHANGED <<serves, made, saved, inRuns, bound, disowned, shown>>
  BY DEF CarryOut, CommandFails, Store, Forgets
<1> QED
  BY <1>3, <1>4, SameRuns

(* The run a create makes is the first of its problem.                     *)
LEMMA CreateFinds ==
  ASSUME LedgerInv, RunsFound, NEW lock \in LedgerLock, CarryOut(lock), IsCreate(doing[lock].key)
  PROVE  RunsFound'
<1>1. /\ doing[lock].key \in ScopedKey /\ LockOf(doing[lock].key) = lock /\ doing[lock].at = "accepted"
      /\ serves = "up"
  BY DEF LedgerInv, Busy, HeldFor, CarryOut
<1>2. lock = "service"
  BY <1>1, CreatesHoldTheService
<1>3. PICK m \in Run, p \in Payload : m = doing[lock].run /\ p = doing[lock].payload
  BY DEF LedgerInv, Busy, HeldFor, CarryOut
<1>4. m \notin {s[2] : s \in shown} /\ m \notin made /\ MadeFor(p) = {}
  BY <1>1, <1>2, <1>3 DEF RunsFound, Unrivalled
<1>5. /\ saved' = saved \cup {m} /\ inRuns' = inRuns \cup {m} /\ bound' = [bound EXCEPT ![m] = p]
      /\ UNCHANGED <<serves, disowned, shown>> /\ doing' = [doing EXCEPT ![lock].at = "done"]
  BY <1>3 DEF CarryOut
<1>6. /\ Claimed \subseteq inRuns /\ inRuns \subseteq made /\ disowned \subseteq made /\ saved \subseteq made
      /\ Claimed' = Claimed \cup {m}
  BY <1>1, <1>4, <1>5 DEF RunsFound, LedgerInv, LedgerShape, Claimed
<1>7. bound'[m] = p /\ \A q \in Run : q # m => bound'[q] = bound[q]
  BY <1>5 DEF LedgerInv, LedgerShape
<1>8. made \subseteq Run /\ \A q \in Claimed : q \in Run /\ q # m /\ bound'[q] = bound[q] /\ bound[q] \notin Alike(p)
  BY <1>4, <1>6, <1>7 DEF MadeFor, LedgerInv, LedgerShape
<1>9. ASSUME NEW q \in Claimed', NEW h \in Claimed', bound'[q] \in Alike(bound'[h]) PROVE q = h
  <2>1. CASE q \in Claimed /\ h \in Claimed
    BY <1>8, <1>9, <2>1 DEF RunsFound, OneRunPerProblem
  <2>2. CASE q = m /\ h \in Claimed
    BY <1>7, <1>8, <1>9, <2>2, AlikeBothWays
  <2>3. CASE q \in Claimed /\ h = m
    BY <1>7, <1>8, <1>9, <2>3
  <2> QED
    BY <1>6, <2>1, <2>2, <2>3
<1>10. \A s \in shown' : bound'[s[2]] = s[1]
  <2>1. \A s \in shown : s[2] \in Claimed /\ bound[s[2]] = s[1]
    BY DEF RunsFound, OneRunPerProblem, Claimed
  <2> QED
    BY <1>5, <1>8, <2>1
<1>11. OneRunPerProblem'
  BY <1>9, <1>10 DEF OneRunPerProblem, Alike
<1>12. doing'["service"].run = m /\ doing'["service"].at = "done"
  BY <1>2, <1>3, <1>5 DEF LedgerInv, LedgerShape, LedgerLock
<1>13. Unrivalled(doing["service"])'
  BY <1>4, <1>5, <1>12 DEF Unrivalled
<1> QED
  BY <1>5, <1>6, <1>11, <1>13 DEF RunsFound

(* A create that fails takes its run out of what is claimed; nobody was    *)
(* shown it.                                                               *)
LEMMA CreateUndoneFinds ==
  ASSUME LedgerInv, RunsFound, NEW lock \in LedgerLock, CommandFails(lock) \/ Store(lock), IsCreate(doing[lock].key)
  PROVE  RunsFound'
<1>1. doing[lock].key \in ScopedKey /\ LockOf(doing[lock].key) = lock /\ serves = "up" /\ Busy(lock)
  BY DEF LedgerInv, Busy, HeldFor, CommandFails, Store
<1>2. lock = "service"
  BY <1>1, CreatesHoldTheService
<1>3. PICK m : m = doing[lock].run
  OBVIOUS
<1>4. m \notin {s[2] : s \in shown}
  BY <1>1, <1>2, <1>3 DEF RunsFound, Unrivalled, Busy
<1>5. UNCHANGED <<serves, saved, bound, shown>> /\ doing' = [doing EXCEPT ![lock] = Vacant]
  BY DEF CommandFails, Store
<1>6. \/ UNCHANGED <<inRuns, disowned>>
      \/ inRuns' = inRuns \ {m} /\ disowned' = disowned \cup ({m} \cap saved)
  BY <1>3 DEF CommandFails, Store, Forgets
<1>7. Claimed' \subseteq Claimed /\ Claimed' \subseteq inRuns'
  BY <1>1, <1>4, <1>5, <1>6 DEF Claimed, RunsFound
<1>8. OneRunPerProblem'
  BY <1>5, <1>7 DEF RunsFound, OneRunPerProblem, Alike
<1>9. doing'["service"].at = "idle"
  BY <1>2, <1>5 DEF Vacant, LedgerInv, LedgerShape, LedgerLock
<1> QED
  BY <1>7, <1>8, <1>9 DEF RunsFound

(* A start finds every run with a manifest.                                *)
LEMMA ServesFinds ==
  ASSUME LedgerInv, RunsFound, ServesNoMore \/ ServesAgain
  PROVE  RunsFound'
<1>1. UNCHANGED <<saved, bound, disowned, shown>>
  BY DEF ServesNoMore, ServesAgain
<1>2. OneRunPerProblem' /\ Claimed' = Claimed /\ Claimed \subseteq saved
  BY <1>1 DEF RunsFound, OneRunPerProblem, Claimed, LedgerInv, LedgerShape
<1>3. serves' = "up" => inRuns' = saved
  BY DEF ServesNoMore, ServesAgain
<1>4. doing'["service"].at = "idle"
  <2>1. CASE ServesNoMore
    BY <2>1 DEF ServesNoMore, Vacant, LedgerLock
  <2>2. CASE ServesAgain
    <3>1. "service" \in LedgerLock /\ doing' = doing /\ serves # "up"
      BY <2>2 DEF ServesAgain, LedgerLock
    <3> QED
      BY <3>1 DEF LedgerInv, Busy, HeldFor
  <2> QED
    BY <2>1, <2>2
<1> QED
  BY <1>2, <1>3, <1>4 DEF RunsFound

LEMMA RunsFoundStep == LedgerInv /\ RunsFound /\ [LedgerNext]_ledgerVars => RunsFound'
<1> SUFFICES ASSUME LedgerInv, RunsFound, [LedgerNext]_ledgerVars PROVE RunsFound' OBVIOUS
<1>1. ASSUME NEW k \in ScopedKey, NEW p \in Payload, AskAgain(k, p) PROVE RunsFound'
  BY <1>1, SameRuns DEF AskAgain
<1>2. ASSUME NEW lock \in LedgerLock, CarryOut(lock) \/ CommandFails(lock) \/ Store(lock) PROVE RunsFound'
  BY <1>2, CommandFinds, CreateFinds, CreateUndoneFinds
<1>3. CASE UNCHANGED ledgerVars
  BY <1>3, SameRuns DEF ledgerVars
<1> QED
  BY <1>1, <1>2, <1>3, AskFinds, AskForExistingFinds, ServesFinds DEF LedgerNext

-----------------------------------------------------------------------------
(* The refinement                                                          *)

LEMMA LedgerTyped == LedgerInv => LedgerTypeOK
<1> SUFFICES ASSUME LedgerInv PROVE LedgerTypeOK OBVIOUS
<1>1. \A lock \in LedgerLock : doing[lock].at \in {"idle", "accepted", "done"}
  BY DEF LedgerInv, LedgerShape
<1>2. \A k \in ScopedKey : doing[LockOf(k)].key = k /\ doing[LockOf(k)].at # "idle" =>
         entries[k] = [payload |-> doing[LockOf(k)].payload, run |-> doing[LockOf(k)].run, response |-> NoAnswer]
  BY LockIsLock DEF LedgerInv, Busy, HeldFor
<1> QED
  BY <1>1, <1>2 DEF LedgerInv, LedgerShape, LedgerTypeOK

(* Only CarryOut has an effect, and only Store and AskAgain answer.        *)
LEMMA OnceStep == LedgerInv /\ [LedgerNext]_ledgerVars => [Once!OnceNext]_<<applied, told>>
<1> SUFFICES ASSUME LedgerInv, [LedgerNext]_ledgerVars PROVE [Once!OnceNext]_<<applied, told>> OBVIOUS
<1>1. ASSUME NEW k \in ScopedKey, NEW p \in Payload, AskAgain(k, p) PROVE Once!OnceNext
  <2>1. entries[k].response # NoAnswer /\ told' = [told EXCEPT ![k] = @ \cup {entries[k].response}] /\ UNCHANGED applied
    BY <1>1 DEF AskAgain
  <2>2. applied[k] # <<>> /\ told[k] \subseteq {entries[k].response}
    BY <1>1, <2>1 DEF AskAgain, LedgerInv, MemoryAgrees, AnswersStand
  <2>3. told' = [told EXCEPT ![k] = {entries[k].response}] /\ entries[k].response \in told'[k]
    BY <2>1, <2>2 DEF LedgerInv, LedgerShape
  <2>4. Once!Tell(k, entries[k].response)
    BY <2>1, <2>2, <2>3 DEF Once!Tell
  <2> QED
    BY <2>3, <2>4 DEF Once!OnceNext
<1>2. ASSUME NEW lock \in LedgerLock, CarryOut(lock) PROVE Once!OnceNext
  <2> DEFINE d == doing[lock]
  <2>1. d.key \in ScopedKey /\ d.payload \in Payload /\ applied[d.key] = <<>>
    BY <1>2 DEF CarryOut, LedgerInv, Busy, HeldFor
  <2>2. applied' = [applied EXCEPT ![d.key] = <<d.payload>>] /\ UNCHANGED told
    BY <1>2, <2>1 DEF CarryOut, LedgerInv, LedgerShape
  <2>3. Once!Do(d.key, d.payload)
    BY <2>1, <2>2 DEF Once!Do
  <2> QED
    BY <2>1, <2>3 DEF Once!OnceNext
<1>3. ASSUME NEW lock \in LedgerLock, Store(lock) PROVE Once!OnceNext \/ UNCHANGED <<applied, told>>
  <2> DEFINE d == doing[lock]
  <2>1. d.key \in ScopedKey /\ applied[d.key] # <<>> /\ told[d.key] = {} /\ UNCHANGED applied
    BY <1>3 DEF Store, LedgerInv, Busy, HeldFor
  <2>2. UNCHANGED told \/ Answered(d.key, clock)
    BY <1>3 DEF Store
  <2>3. ASSUME Answered(d.key, clock) PROVE Once!OnceNext
    <3>1. told' = [told EXCEPT ![d.key] = {clock}] /\ clock \in told'[d.key]
      BY <2>1, <2>3 DEF Answered, LedgerInv, LedgerShape
    <3>2. Once!Tell(d.key, clock)
      BY <2>1, <3>1 DEF Once!Tell
    <3> QED
      BY <2>1, <3>1, <3>2 DEF Once!OnceNext
  <2> QED
    BY <2>1, <2>2, <2>3
<1>4. ASSUME \/ \E k \in ScopedKey, p \in Payload : Ask(k, p) \/ AskForExisting(k, p)
             \/ \E lock \in LedgerLock : CommandFails(lock)
             \/ ServesNoMore \/ ServesAgain \/ UNCHANGED ledgerVars
      PROVE  UNCHANGED <<applied, told>>
  BY <1>4 DEF Ask, AskForExisting, CommandFails, ServesNoMore, ServesAgain, ledgerVars
<1> QED
  BY <1>1, <1>2, <1>3, <1>4 DEF LedgerNext

(* A command whose key the service keeps happens at most once and has one  *)
(* answer, also when writes to the ledger fail, the service crashes        *)
(* between any two of its steps and starts again; what has happened is on  *)
(* disk, what was answered is answered by every later start, and a start   *)
(* refuses the ledger only after a failed write.  An intake problem has    *)
(* one run, whatever keys its create is sent under.                        *)
THEOREM LedgerThm == LedgerSpec => LedgerSound
<1>1. LedgerSpec => []LedgerInv
  BY LedgerInvInit, LedgerInvStep, PTL DEF LedgerSpec
<1>2. LedgerInit => Once!OnceInit
  BY DEF LedgerInit, Once!OnceInit
<1>3. LedgerSpec => Once!OnceSpec
  BY <1>1, <1>2, OnceStep, PTL DEF LedgerSpec, Once!OnceSpec
<1>4. LedgerInv => LedgerTypeOK /\ AnswersDurable /\ RefusesForCause
  BY LedgerTyped DEF LedgerInv, AnswersStand, AnswersDurable
<1>5. LedgerInit => RunsFound
  BY DEF LedgerInit, RunsFound, OneRunPerProblem, Claimed, LedgerLock, Vacant
<1>6. LedgerSpec => []RunsFound
  BY <1>1, <1>5, RunsFoundStep, PTL DEF LedgerSpec
<1>7. RunsFound => OneRunPerProblem
  BY DEF RunsFound
<1> QED
  BY <1>1, <1>3, <1>4, <1>6, <1>7, PTL DEF LedgerSound

-----------------------------------------------------------------------------
(* The export of reports.  The invariant says what holds of a bundle       *)
(* whoever left it, and what an export in flight knows of its own at each  *)
(* of its steps; a step of one export changes its record and its bundle    *)
(* and no other.                                                           *)

FileName == {"assets/", "report.tex", "compile.log", "report.pdf"}
WarningCode == {"quotation_verbatim", "math_rejected", "typeset_substituted"}
Attempt == [tex : SUBSET Nat, formula : Nat]
Bundle == [files : SUBSET FileName, tex : SUBSET Nat, attempts : Seq(Attempt), log : SUBSET Nat,
           code : Code, pdf : {"none", "partial", "whole"}, pdfOf : SUBSET Nat,
           manifest : [status : {"none", "success", "failed"}, failure : Code,
                       warnings : SUBSET (Nat \X WarningCode), equations : SUBSET Nat,
                       files : SUBSET FileName, hashes : {<<>>} \cup ((SUBSET Nat) \X Seq(Attempt)
                          \X (SUBSET Nat) \X {"none", "partial", "whole"} \X (SUBSET Nat))]]
ExportRecord == [at : InFlight \cup {"idle", "done", "failed"}, snapshot : Snapshot \cup {"none"},
                 directory : Directory \cup {<<>>}, rejected : SUBSET Nat, attempt : Nat,
                 compiled : SUBSET Nat, code : Code, named : Nat]

\* What holds of a bundle, whoever wrote it and whether or not it was finished.
BundleSound(s, b) ==
    /\ b \in Bundle
    /\ b.files = {} => b = Missing
    /\ "report.pdf" \in b.files <=> b.pdf # "none"
    /\ b.pdf = "whole" => b.code = "none" /\ b.pdfOf = b.tex /\ b.log = b.tex
    /\ Chained(s, b)
    /\ Sealed(b) => b.tex = Fallbacks(b) /\ Tells(s, b)

\* What an export in flight knows of its own bundle, at each of its steps.
Carries(s, x, b) ==
    /\ b.files # {} /\ ~Sealed(b)
    /\ x.rejected = Fallbacks(b) /\ x.rejected \subseteq Occurrence(s)
    /\ IsFiniteSet(x.rejected) /\ Cardinality(x.rejected) = x.attempt
    /\ x.at \notin {"close", "manifest"} => b.pdf = "none"
    /\ x.at = "close" => b.pdf = "partial"
    /\ x.at \notin {"render", "write"} => b.tex = x.rejected
    /\ x.at \in {"judge", "log", "pdf", "close", "manifest"} => x.compiled = x.rejected
    /\ x.at = "judge" => x.named \in Named(s, x.rejected, x.code)
    /\ x.at \in {"pdf", "close", "manifest"} => b.log = x.compiled /\ b.code = x.code
    /\ x.at \in {"pdf", "close"} => x.code = "none"
    /\ x.at = "manifest" => ((x.code = "none") <=> (b.pdf = "whole"))

Owned(e) ==
    exports[e].at \in InFlight =>
       /\ Here(e) \in Directory /\ exports[e].snapshot = Here(e)[2]
       /\ Carries(Here(e)[2], exports[e], bundles[Here(e)])

ReportInv ==
    /\ report \in [Snapshot -> Report]
    /\ exports \in [Export -> ExportRecord] /\ bundles \in [Directory -> Bundle]
    /\ \A d \in Directory : BundleSound(d[2], bundles[d])
    /\ \A e \in Export : Owned(e)
    /\ OwnBundle

LEMMA Snapshots ==
  ASSUME NEW d \in Directory
  PROVE  d[2] \in Snapshot
BY DEF Directory

LEMMA Counts ==
  ASSUME report \in [Snapshot -> Report], NEW s \in Snapshot
  PROVE  FormulaCount(s) \in Nat /\ DOMAIN report[s] = Occurrence(s)
<1>1. report[s] \in Report
  OBVIOUS
<1>2. PICK n \in 0..MaxFormulas : report[s] \in [1..n -> Formula]
  BY <1>1 DEF Report
<1>3. report[s] \in Seq(Formula) /\ n \in Nat /\ DOMAIN report[s] = 1..n
  BY <1>2, ReportAssumption
<1>4. Len(report[s]) = n
  BY <1>3
<1> QED
  BY <1>3, <1>4 DEF FormulaCount, Occurrence

LEMMA MarkedOccurs ==
  ASSUME NEW s, NEW rejected
  PROVE  Marked(s, rejected) \subseteq Occurrence(s) /\ Marked(s, rejected) \cap rejected = {}
BY DEF Marked, Unrendered

\* Reports do not change, so neither does what is known of a bundle or carried by an export.
LEMMA RenderingStays ==
  ASSUME UNCHANGED report, NEW s, NEW rejected
  PROVE  /\ Occurrence(s)' = Occurrence(s) /\ Marked(s, rejected)' = Marked(s, rejected)
         /\ Warnings(s, rejected)' = Warnings(s, rejected)
         /\ Equations(s, rejected)' = Equations(s, rejected)
<1>1. Occurrence(s)' = Occurrence(s)
  BY DEF Occurrence, FormulaCount
<1>3. Marked(s, rejected)' = Marked(s, rejected)
  BY <1>1 DEF Marked, Unrendered, Quoted
<1>4. Equations(s, rejected)' = Equations(s, rejected)
  BY <1>3 DEF Equations
<1>5. Warnings(s, rejected)' = Warnings(s, rejected)
  BY <1>1, <1>3 DEF Warnings, Unrendered, Quoted
<1> QED
  BY <1>1, <1>3, <1>4, <1>5

LEMMA CarriesStays ==
  ASSUME UNCHANGED report, NEW s, NEW y, NEW b, Carries(s, y, b)
  PROVE  Carries(s, y, b)'
<1>1. Named(s, y.rejected, y.code)' = Named(s, y.rejected, y.code)
  BY RenderingStays DEF Named
<1>2. Occurrence(s)' = Occurrence(s)
  BY RenderingStays
<1> QED
  BY <1>1, <1>2 DEF Carries, Sealed, Fallbacks

LEMMA BundleStays ==
  ASSUME UNCHANGED report, NEW s, NEW b, BundleSound(s, b)
  PROVE  BundleSound(s, b)'
<1>1. Chained(s, b)'
  <2>1. \A i \in DOMAIN b.attempts :
           /\ b.attempts[i].tex = {b.attempts[j].formula : j \in 1..(i - 1)}
           /\ b.attempts[i].formula \in Marked(s, b.attempts[i].tex)
    BY DEF BundleSound, Chained
  <2>2. \A i \in DOMAIN b.attempts : Marked(s, b.attempts[i].tex)' = Marked(s, b.attempts[i].tex)
    BY RenderingStays
  <2> QED
    BY <2>1, <2>2 DEF Chained
<1>2. ASSUME Sealed(b) PROVE Tells(s, b)'
  <2>1. Tells(s, b)
    BY <1>2 DEF BundleSound
  <2>2. /\ Occurrence(s)' = Occurrence(s) /\ Marked(s, b.tex)' = Marked(s, b.tex)
        /\ Warnings(s, b.tex)' = Warnings(s, b.tex) /\ Equations(s, b.tex)' = Equations(s, b.tex)
    BY RenderingStays
  <2> QED
    BY <2>1, <2>2 DEF Tells, Hashes
<1> QED
  BY <1>1, <1>2 DEF BundleSound, Sealed, Fallbacks

LEMMA OwnedStays ==
  ASSUME UNCHANGED <<report, bundles>>, NEW f \in Export, exports'[f] = exports[f], Owned(f)
  PROVE  Owned(f)'
<1> SUFFICES ASSUME exports[f].at \in InFlight PROVE Owned(f)'
  BY DEF Owned
<1>1. PICK y, g : y = exports[f] /\ g = bundles[y.directory]
  OBVIOUS
<1>2. y.directory \in Directory /\ y.snapshot = y.directory[2] /\ Carries(y.directory[2], y, g)
  BY <1>1 DEF Owned, Here
<1>3. Carries(y.directory[2], y, g)'
  BY <1>2, CarriesStays
<1>4. exports'[f] = y /\ bundles'[y.directory] = g
  BY <1>1
<1> QED
  BY <1>2, <1>3, <1>4 DEF Owned, Here

\* One export takes a step: its record becomes x and the bundle of directory d becomes b.
LEMMA OneStep ==
  ASSUME ReportInv, UNCHANGED report, NEW e \in Export, NEW x \in ExportRecord,
         NEW d \in Directory, NEW b \in Bundle,
         exports' = [exports EXCEPT ![e] = x], bundles' = [bundles EXCEPT ![d] = b],
         BundleSound(d[2], b),
         x.at \in InFlight => x.directory = d /\ x.snapshot = d[2] /\ Carries(d[2], x, b),
         \A f \in Export : f # e /\ exports[f].at \in InFlight => exports[f].directory # d
  PROVE  ReportInv'
<1>1. report' = report /\ exports' \in [Export -> ExportRecord] /\ bundles' \in [Directory -> Bundle]
  BY DEF ReportInv
<1>2. \A f \in Export : f # e => exports'[f] = exports[f]
  BY DEF ReportInv
<1>3. exports'[e] = x /\ bundles'[d] = b /\ \A c \in Directory : c # d => bundles'[c] = bundles[c]
  BY DEF ReportInv
<1>4. ASSUME NEW s, NEW g, BundleSound(s, g) PROVE BundleSound(s, g)'
  BY <1>1, <1>4, BundleStays
<1>5. ASSUME NEW s, NEW y, NEW g, Carries(s, y, g) PROVE Carries(s, y, g)'
  BY <1>1, <1>5, CarriesStays
<1>6. ASSUME NEW c \in Directory PROVE BundleSound(c[2], bundles[c])'
  <2>1. CASE c = d
    <3>1. BundleSound(d[2], b)'
      BY <1>4
    <3> QED
      BY <3>1, <2>1, <1>3
  <2>2. CASE c # d
    <3>1. BundleSound(c[2], bundles[c])
      BY DEF ReportInv
    <3>2. PICK g : g = bundles[c]
      OBVIOUS
    <3>3. BundleSound(c[2], g)'
      BY <3>1, <3>2, <1>4
    <3> QED
      BY <3>2, <3>3, <2>2, <1>3
  <2> QED
    BY <2>1, <2>2
<1>7. ASSUME NEW f \in Export PROVE Owned(f)'
  <2>1. CASE f = e
    <3>1. ASSUME x.at \in InFlight PROVE Carries(d[2], x, b)'
      BY <3>1, <1>5
    <3> QED
      BY <3>1, <2>1, <1>3 DEF Owned, Here
  <2>2. CASE f # e
    <3> SUFFICES ASSUME exports[f].at \in InFlight PROVE Owned(f)'
      BY <2>2, <1>2 DEF Owned
    <3>1. PICK y : y = exports[f]
      OBVIOUS
    <3>2. y.directory \in Directory /\ y.directory # d /\ y.snapshot = y.directory[2]
      BY <2>2, <3>1 DEF ReportInv, Owned, Here
    <3>3. PICK g : g = bundles[y.directory]
      OBVIOUS
    <3>4. Carries(y.directory[2], y, g)
      BY <3>1, <3>3 DEF ReportInv, Owned, Here
    <3>5. Carries(y.directory[2], y, g)'
      BY <3>4, <1>5
    <3>6. exports'[f] = y /\ bundles'[y.directory] = g
      BY <3>1, <3>2, <3>3, <2>2, <1>2, <1>3
    <3> QED
      BY <3>2, <3>5, <3>6 DEF Owned, Here
  <2> QED
    BY <2>1, <2>2
<1>8. OwnBundle'
  BY <1>2, <1>3 DEF OwnBundle, Here, ReportInv
<1>9. report' \in [Snapshot -> Report]
  BY <1>1 DEF ReportInv
<1> QED
  BY <1>1, <1>6, <1>7, <1>8, <1>9 DEF ReportInv

LEMMA ReportInvInit == ReportInit => ReportInv
<1> SUFFICES ASSUME ReportInit PROVE ReportInv
  OBVIOUS
<1>1. Missing \in Bundle
  <2>1. <<>> \in Seq(Attempt)
    BY EmptySeq
  <2>2. "none" \in Code
    BY DEF Code
  <2>3. Unwritten \in [status : {"none", "success", "failed"}, failure : Code,
                       warnings : SUBSET (Nat \X WarningCode), equations : SUBSET Nat,
                       files : SUBSET FileName, hashes : {<<>>} \cup ((SUBSET Nat) \X Seq(Attempt)
                          \X (SUBSET Nat) \X {"none", "partial", "whole"} \X (SUBSET Nat))]
    BY <2>2 DEF Unwritten
  <2> QED
    BY <2>1, <2>2, <2>3 DEF Bundle, Missing
<1>2. NoExport \in ExportRecord
  BY DEF NoExport, ExportRecord, Code
<1>3. ASSUME NEW s PROVE BundleSound(s, Missing)
  BY <1>1 DEF BundleSound, Missing, Chained, Sealed, Unwritten
<1>4. ASSUME NEW e \in Export PROVE exports[e].at \notin InFlight
  BY DEF ReportInit, NoExport, InFlight
<1>5. report \in [Snapshot -> Report] /\ exports \in [Export -> ExportRecord]
      /\ bundles \in [Directory -> Bundle]
  BY <1>1, <1>2 DEF ReportInit
<1> QED
  BY <1>3, <1>4, <1>5 DEF ReportInv, ReportInit, Owned, OwnBundle

-----------------------------------------------------------------------------
(* One step of one export.                                                 *)

LEMMA Mine ==
  ASSUME ReportInv, NEW e \in Export, exports[e].at \in InFlight
  PROVE  /\ exports[e] \in ExportRecord /\ Here(e) \in Directory /\ bundles[Here(e)] \in Bundle
         /\ exports[e].snapshot = Here(e)[2] /\ Here(e)[2] \in Snapshot
         /\ BundleSound(Here(e)[2], bundles[Here(e)])
         /\ Carries(Here(e)[2], exports[e], bundles[Here(e)])
BY Snapshots DEF ReportInv, Owned

LEMMA Advance ==
  ASSUME ReportInv, NEW e \in Export, exports[e].at \in InFlight,
         NEW y \in ExportRecord, NEW g \in Bundle,
         y.directory = exports[e].directory, y.snapshot = exports[e].snapshot,
         Goes(e, y), Leaves(Here(e), g), BundleSound(Here(e)[2], g),
         y.at \in InFlight => Carries(Here(e)[2], y, g)
  PROVE  ReportInv'
<1>1. PICK d : d = Here(e)
  OBVIOUS
<1>2. d \in Directory /\ exports[e].directory = d /\ exports[e].snapshot = d[2]
  BY <1>1, Mine DEF Here
<1>3. \A f \in Export : f # e /\ exports[f].at \in InFlight => exports[f].directory # d
  BY <1>1 DEF ReportInv, OwnBundle, Here
<1>4. /\ exports' = [exports EXCEPT ![e] = y] /\ bundles' = [bundles EXCEPT ![d] = g]
      /\ UNCHANGED report /\ BundleSound(d[2], g) /\ y.directory = d /\ y.snapshot = d[2]
      /\ (y.at \in InFlight => Carries(d[2], y, g))
  BY <1>1, <1>2 DEF Goes, Leaves
<1> QED
  BY <1>2, <1>3, <1>4, OneStep

LEMMA AdvanceOnly ==
  ASSUME ReportInv, NEW e \in Export, exports[e].at \in InFlight, NEW y \in ExportRecord,
         y.directory = exports[e].directory, y.snapshot = exports[e].snapshot,
         Goes(e, y), UNCHANGED bundles,
         y.at \in InFlight => Carries(Here(e)[2], y, bundles[Here(e)])
  PROVE  ReportInv'
<1>1. Leaves(Here(e), bundles[Here(e)])
  BY Mine DEF Leaves, ReportInv
<1> QED
  BY <1>1, Mine, Advance

\* The same export, a step further.
LEMMA Moved ==
  ASSUME NEW x \in ExportRecord, NEW at \in InFlight \cup {"done", "failed"}
  PROVE  LET y == [x EXCEPT !.at = at] IN
         /\ y \in ExportRecord /\ y.at = at
         /\ y.snapshot = x.snapshot /\ y.directory = x.directory /\ y.rejected = x.rejected
         /\ y.attempt = x.attempt /\ y.compiled = x.compiled /\ y.code = x.code
         /\ y.named = x.named
BY DEF ExportRecord

LEMMA RendersKeeps ==
  ASSUME ReportInv, NEW e \in Export, Renders(e)
  PROVE  ReportInv'
<1>1. exports[e].at = "render" /\ exports[e].at \in InFlight
  BY DEF Renders, InFlight
<1>2. PICK y : y = [exports[e] EXCEPT !.at = "write"]
  OBVIOUS
<1>a. exports[e] \in ExportRecord /\ "write" \in InFlight \cup {"done", "failed"}
  BY <1>1, Mine DEF InFlight
<1>3. /\ y \in ExportRecord /\ y.at = "write" /\ y.snapshot = exports[e].snapshot
      /\ y.directory = exports[e].directory /\ y.rejected = exports[e].rejected
      /\ y.attempt = exports[e].attempt
  BY <1>a, <1>2, Moved
<1>4. Carries(Here(e)[2], y, bundles[Here(e)])
  BY <1>1, <1>3, Mine DEF Carries
<1> QED
  BY <1>1, <1>2, <1>3, <1>4, AdvanceOnly DEF Renders

LEMMA SettlesKeeps ==
  ASSUME ReportInv, NEW e \in Export, Settles(e)
  PROVE  ReportInv'
<1>1. exports[e].at = "judge" /\ exports[e].at \in InFlight
  BY DEF Settles, InFlight
<1>2. PICK y : y = [exports[e] EXCEPT !.at = "log"]
  OBVIOUS
<1>a. exports[e] \in ExportRecord /\ "log" \in InFlight \cup {"done", "failed"}
  BY <1>1, Mine DEF InFlight
<1>3. /\ y \in ExportRecord /\ y.at = "log" /\ y.snapshot = exports[e].snapshot
      /\ y.directory = exports[e].directory /\ y.rejected = exports[e].rejected
      /\ y.attempt = exports[e].attempt /\ y.compiled = exports[e].compiled
  BY <1>a, <1>2, Moved
<1>4. Carries(Here(e)[2], y, bundles[Here(e)])
  BY <1>1, <1>3, Mine DEF Carries
<1> QED
  BY <1>1, <1>2, <1>3, <1>4, AdvanceOnly DEF Settles

LEMMA RaisesKeeps ==
  ASSUME ReportInv, NEW e \in Export, Raises(e)
  PROVE  ReportInv'
<1>1. exports[e].at \in InFlight
  BY DEF Raises
<1>2. PICK y : y = [exports[e] EXCEPT !.at = "failed"]
  OBVIOUS
<1>3. /\ y \in ExportRecord /\ y.at = "failed" /\ y.snapshot = exports[e].snapshot
      /\ y.directory = exports[e].directory
  BY <1>1, <1>2, Mine, Moved
<1> QED
  BY <1>1, <1>2, <1>3, AdvanceOnly DEF Raises, InFlight

LEMMA FailureIsACode ==
  ASSUME NEW faults \in SUBSET Faults
  PROVE  FailureCode(faults) \in Code
<1>1. CASE faults = {}
  BY <1>1 DEF FailureCode, Code
<1>2. CASE faults # {}
  <2> DEFINE First(c) == \E i \in DOMAIN Checks :
                Checks[i] = c /\ \A j \in 1..(i - 1) : Checks[j] \notin faults
  <2>1. \E i \in DOMAIN Checks : Checks[i] \in faults
    BY <1>2, FaultsAssumption DEF Code
  <2>2. \E c \in faults : First(c)
    <3>1. DOMAIN Checks = 1..7
      BY DEF Checks
    <3> DEFINE Hit == {i \in 1..7 : Checks[i] \in faults}
    <3>2. Hit \in SUBSET Nat /\ Hit # {}
      BY <2>1, <3>1
    <3>3. PICK k \in Hit : \A i \in Hit : k <= i
      BY <3>2, \A i \in Nat : i \in 1..7 <=> i \in {1, 2, 3, 4, 5, 6, 7}
    <3>4. \A j \in 1..(k - 1) : Checks[j] \notin faults
      BY <3>3
    <3> QED
      BY <3>1, <3>3, <3>4
  <2>3. FailureCode(faults) = CHOOSE c \in faults : First(c)
    BY <1>2 DEF FailureCode
  <2> HIDE DEF First
  <2>4. FailureCode(faults) \in faults
    BY <2>2, <2>3
  <2> QED
    BY <2>4, FaultsAssumption
<1> QED
  BY <1>1, <1>2

LEMMA CompilesKeeps ==
  ASSUME ReportInv, NEW e \in Export, Compiles(e)
  PROVE  ReportInv'
<1>1. exports[e].at = "compile" /\ exports[e].at \in InFlight
  BY DEF Compiles, InFlight
<1>2. PICK faults \in SUBSET Faults :
         \E i \in Named(exports[e].snapshot, exports[e].rejected, FailureCode(faults)) :
            Goes(e, [exports[e] EXCEPT !.at = "judge", !.code = FailureCode(faults), !.named = i,
                                       !.compiled = exports[e].rejected])
  BY DEF Compiles
<1>3. PICK i \in Named(exports[e].snapshot, exports[e].rejected, FailureCode(faults)) :
            Goes(e, [exports[e] EXCEPT !.at = "judge", !.code = FailureCode(faults), !.named = i,
                                       !.compiled = exports[e].rejected])
  BY <1>2
<1>4. PICK c \in Code : c = FailureCode(faults)
  BY FailureIsACode
<1>5. exports[e] \in ExportRecord /\ exports[e].snapshot \in Snapshot
  BY <1>1, Mine
<1>6. i \in Nat
  BY <1>5, MarkedOccurs, Counts DEF Named, Occurrence, ReportInv
<1>7. PICK y : y = [exports[e] EXCEPT !.at = "judge", !.code = c, !.named = i,
                                      !.compiled = exports[e].rejected]
  OBVIOUS
<1>8. y \in ExportRecord
  BY <1>5, <1>6, <1>7 DEF ExportRecord, InFlight
<1>9. /\ y.at = "judge" /\ y.snapshot = exports[e].snapshot /\ y.directory = exports[e].directory
      /\ y.rejected = exports[e].rejected /\ y.attempt = exports[e].attempt
      /\ y.compiled = exports[e].rejected /\ y.code = c /\ y.named = i
  BY <1>5, <1>7 DEF ExportRecord
<1>10. Carries(Here(e)[2], y, bundles[Here(e)])
  BY <1>1, <1>3, <1>4, <1>9, Mine DEF Carries
<1>11. Goes(e, y) /\ UNCHANGED bundles
  BY <1>3, <1>4, <1>7 DEF Compiles
<1> QED
  BY <1>1, <1>8, <1>9, <1>10, <1>11, AdvanceOnly

LEMMA WritesTexKeeps ==
  ASSUME ReportInv, NEW e \in Export, WritesTex(e)
  PROVE  ReportInv'
<1>1. exports[e].at = "write" /\ exports[e].at \in InFlight
  BY DEF WritesTex, InFlight
<1>2. PICK s, x, b, y, g : /\ s = Here(e)[2] /\ x = exports[e] /\ b = bundles[Here(e)]
                           /\ y = [x EXCEPT !.at = "compile"]
                           /\ g = [b EXCEPT !.files = @ \cup {"report.tex"}, !.tex = x.rejected]
  OBVIOUS
<1>3. x \in ExportRecord /\ b \in Bundle /\ BundleSound(s, b) /\ Carries(s, x, b)
  BY <1>1, <1>2, Mine
<1>a. "compile" \in InFlight \cup {"done", "failed"}
  BY DEF InFlight
<1>4. /\ y \in ExportRecord /\ y.at = "compile" /\ y.snapshot = x.snapshot
      /\ y.directory = x.directory /\ y.rejected = x.rejected /\ y.attempt = x.attempt
  BY <1>2, <1>3, <1>a, Moved
<1>5. /\ g.files = b.files \cup {"report.tex"} /\ g.tex = x.rejected /\ g.attempts = b.attempts
      /\ g.log = b.log /\ g.code = b.code /\ g.pdf = b.pdf /\ g.pdfOf = b.pdfOf
      /\ g.manifest = b.manifest
  BY <1>2, <1>3 DEF Bundle
<1>6. g \in Bundle
  BY <1>2, <1>3 DEF Bundle, FileName, ExportRecord
<1>7. x.at = "write" /\ b.pdf = "none" /\ ~Sealed(b) /\ b.files # {}
  BY <1>1, <1>2, <1>3 DEF Carries
<1>8. BundleSound(s, g)
  BY <1>3, <1>5, <1>6, <1>7 DEF BundleSound, Chained, Sealed
<1>9. Carries(s, y, g)
  BY <1>3, <1>4, <1>5, <1>7 DEF Carries, Sealed, Fallbacks
<1>10. Goes(e, y) /\ Leaves(Here(e), g)
  BY <1>2 DEF WritesTex
<1> QED
  BY <1>1, <1>2, <1>4, <1>6, <1>8, <1>9, <1>10, Advance

LEMMA WritesLogKeeps ==
  ASSUME ReportInv, NEW e \in Export, WritesLog(e)
  PROVE  ReportInv'
<1>1. exports[e].at = "log" /\ exports[e].at \in InFlight
  BY DEF WritesLog, InFlight
<1>2. PICK s, x, b, at, y, g : /\ s = Here(e)[2] /\ x = exports[e] /\ b = bundles[Here(e)]
                               /\ at = IF x.code = "none" THEN "pdf" ELSE "manifest"
                               /\ y = [x EXCEPT !.at = at]
                               /\ g = [b EXCEPT !.files = @ \cup {"compile.log"}, !.log = x.compiled,
                                                !.code = x.code]
  OBVIOUS
<1>3. x \in ExportRecord /\ b \in Bundle /\ BundleSound(s, b) /\ Carries(s, x, b)
  BY <1>1, <1>2, Mine
<1>a. at \in InFlight \cup {"done", "failed"}
  BY <1>2 DEF InFlight
<1>4. /\ y \in ExportRecord /\ y.at = at /\ y.snapshot = x.snapshot /\ y.compiled = x.compiled
      /\ y.directory = x.directory /\ y.rejected = x.rejected /\ y.attempt = x.attempt
      /\ y.code = x.code
  BY <1>2, <1>3, <1>a, Moved
<1>5. /\ g.files = b.files \cup {"compile.log"} /\ g.tex = b.tex /\ g.attempts = b.attempts
      /\ g.log = x.compiled /\ g.code = x.code /\ g.pdf = b.pdf /\ g.pdfOf = b.pdfOf
      /\ g.manifest = b.manifest
  BY <1>2, <1>3 DEF Bundle
<1>6. g \in Bundle
  BY <1>2, <1>3 DEF Bundle, FileName, ExportRecord
<1>7. x.at = "log" /\ b.pdf = "none" /\ ~Sealed(b) /\ b.files # {}
  BY <1>1, <1>2, <1>3 DEF Carries
<1>8. BundleSound(s, g)
  BY <1>3, <1>5, <1>6, <1>7 DEF BundleSound, Chained, Sealed
<1>9. Carries(s, y, g)
  <2>1. b.tex = x.rejected /\ x.compiled = x.rejected /\ x.rejected = Fallbacks(b)
        /\ x.rejected \subseteq Occurrence(s) /\ IsFiniteSet(x.rejected)
        /\ Cardinality(x.rejected) = x.attempt
    BY <1>3, <1>7 DEF Carries
  <2>2. Fallbacks(g) = Fallbacks(b) /\ ~Sealed(g) /\ g.files # {} /\ g.pdf = "none"
    BY <1>5, <1>7 DEF Fallbacks, Sealed
  <2>3. CASE x.code = "none"
    BY <1>2, <1>4, <1>5, <2>1, <2>2, <2>3 DEF Carries
  <2>4. CASE x.code # "none"
    BY <1>2, <1>4, <1>5, <2>1, <2>2, <2>4 DEF Carries
  <2> QED
    BY <2>3, <2>4
<1>10. Goes(e, y) /\ Leaves(Here(e), g)
  BY <1>2 DEF WritesLog
<1> QED
  BY <1>1, <1>2, <1>4, <1>6, <1>8, <1>9, <1>10, Advance

LEMMA OpensPdfKeeps ==
  ASSUME ReportInv, NEW e \in Export, OpensPdf(e)
  PROVE  ReportInv'
<1>1. exports[e].at = "pdf" /\ exports[e].at \in InFlight
  BY DEF OpensPdf, InFlight
<1>2. PICK s, x, b, y, g : /\ s = Here(e)[2] /\ x = exports[e] /\ b = bundles[Here(e)]
                           /\ y = [x EXCEPT !.at = "close"]
                           /\ g = [b EXCEPT !.files = @ \cup {"report.pdf"}, !.pdf = "partial"]
  OBVIOUS
<1>3. x \in ExportRecord /\ b \in Bundle /\ BundleSound(s, b) /\ Carries(s, x, b)
  BY <1>1, <1>2, Mine
<1>a. "close" \in InFlight \cup {"done", "failed"}
  BY DEF InFlight
<1>4. /\ y \in ExportRecord /\ y.at = "close" /\ y.snapshot = x.snapshot /\ y.compiled = x.compiled
      /\ y.directory = x.directory /\ y.rejected = x.rejected /\ y.attempt = x.attempt
      /\ y.code = x.code
  BY <1>2, <1>3, <1>a, Moved
<1>5. /\ g.files = b.files \cup {"report.pdf"} /\ g.tex = b.tex /\ g.attempts = b.attempts
      /\ g.log = b.log /\ g.code = b.code /\ g.pdf = "partial" /\ g.pdfOf = b.pdfOf
      /\ g.manifest = b.manifest
  BY <1>2, <1>3 DEF Bundle
<1>6. g \in Bundle
  BY <1>2, <1>3 DEF Bundle, FileName
<1>7. x.at = "pdf" /\ b.pdf = "none" /\ ~Sealed(b) /\ b.files # {}
  BY <1>1, <1>2, <1>3 DEF Carries
<1>8. BundleSound(s, g)
  BY <1>3, <1>5, <1>6, <1>7 DEF BundleSound, Chained, Sealed
<1>9. Carries(s, y, g)
  BY <1>3, <1>4, <1>5, <1>7 DEF Carries, Sealed, Fallbacks
<1>10. Goes(e, y) /\ Leaves(Here(e), g)
  BY <1>2 DEF OpensPdf
<1> QED
  BY <1>1, <1>2, <1>4, <1>6, <1>8, <1>9, <1>10, Advance

LEMMA FillsPdfKeeps ==
  ASSUME ReportInv, NEW e \in Export, FillsPdf(e)
  PROVE  ReportInv'
<1>1. exports[e].at = "close" /\ exports[e].at \in InFlight
  BY DEF FillsPdf, InFlight
<1>2. PICK s, x, b, y, g : /\ s = Here(e)[2] /\ x = exports[e] /\ b = bundles[Here(e)]
                           /\ y = [x EXCEPT !.at = "manifest"]
                           /\ g = [b EXCEPT !.pdf = "whole", !.pdfOf = x.compiled]
  OBVIOUS
<1>3. x \in ExportRecord /\ b \in Bundle /\ BundleSound(s, b) /\ Carries(s, x, b)
  BY <1>1, <1>2, Mine
<1>a. "manifest" \in InFlight \cup {"done", "failed"}
  BY DEF InFlight
<1>4. /\ y \in ExportRecord /\ y.at = "manifest" /\ y.snapshot = x.snapshot
      /\ y.directory = x.directory /\ y.rejected = x.rejected /\ y.attempt = x.attempt
      /\ y.code = x.code /\ y.compiled = x.compiled
  BY <1>2, <1>3, <1>a, Moved
<1>5. /\ g.files = b.files /\ g.tex = b.tex /\ g.attempts = b.attempts
      /\ g.log = b.log /\ g.code = b.code /\ g.pdf = "whole" /\ g.pdfOf = x.compiled
      /\ g.manifest = b.manifest
  BY <1>2, <1>3 DEF Bundle
<1>6. g \in Bundle
  BY <1>2, <1>3 DEF Bundle, ExportRecord
<1>7. x.at = "close" /\ b.pdf = "partial" /\ ~Sealed(b) /\ b.files # {}
  BY <1>1, <1>2, <1>3 DEF Carries
<1>8. b.tex = x.rejected /\ x.compiled = x.rejected /\ b.log = x.compiled /\ b.code = "none"
      /\ x.code = "none"
  BY <1>3, <1>7 DEF Carries
<1>9. BundleSound(s, g)
  BY <1>3, <1>5, <1>6, <1>7, <1>8 DEF BundleSound, Chained, Sealed
<1>10. Carries(s, y, g)
  BY <1>3, <1>4, <1>5, <1>7, <1>8 DEF Carries, Sealed, Fallbacks
<1>11. Goes(e, y) /\ Leaves(Here(e), g)
  BY <1>2 DEF FillsPdf
<1> QED
  BY <1>1, <1>2, <1>4, <1>6, <1>9, <1>10, <1>11, Advance

LEMMA SoundStays ==
  ASSUME ReportInv, UNCHANGED <<report, bundles>>
  PROVE  (\A d \in Directory : BundleSound(d[2], bundles[d]))'
<1>1. report' = report /\ bundles' = bundles
  OBVIOUS
<1>2. ASSUME NEW s, NEW g, BundleSound(s, g) PROVE BundleSound(s, g)'
  BY <1>1, <1>2, BundleStays
<1>3. ASSUME NEW d \in Directory PROVE BundleSound(d[2], bundles[d])'
  <2>1. PICK g : g = bundles[d]
    OBVIOUS
  <2>2. BundleSound(d[2], g)
    BY <2>1 DEF ReportInv
  <2>3. BundleSound(d[2], g)'
    BY <2>2, <1>2
  <2> QED
    BY <2>1, <2>3, <1>1
<1> QED
  BY <1>3

LEMMA BeginsKeeps ==
  ASSUME ReportInv, NEW e \in Export, NEW t \in Instant, NEW s \in Snapshot, Begins(e, t, s)
  PROVE  ReportInv'
<1>1. CASE Goes(e, [NoExport EXCEPT !.at = "failed"]) /\ UNCHANGED bundles
  <2>1. PICK y : y = [NoExport EXCEPT !.at = "failed"]
    OBVIOUS
  <2>2. y \in ExportRecord /\ y.at \notin InFlight
    BY <2>1 DEF NoExport, ExportRecord, Code, InFlight
  <2>3. exports' = [exports EXCEPT ![e] = y] /\ UNCHANGED <<report, bundles>>
    BY <1>1, <2>1 DEF Goes
  <2>4. \A f \in Export : f # e => exports'[f] = exports[f]
    BY <2>3 DEF ReportInv
  <2>5. exports'[e] = y /\ exports' \in [Export -> ExportRecord]
    BY <2>2, <2>3 DEF ReportInv
  <2>6. \A d \in Directory : BundleSound(d[2], bundles[d])'
    BY <2>3, SoundStays
  <2>7. ASSUME NEW f \in Export PROVE Owned(f)'
    <3>1. CASE f = e
      BY <3>1, <2>2, <2>5 DEF Owned
    <3>2. CASE f # e
      <4>1. exports'[f] = exports[f] /\ UNCHANGED <<report, bundles>> /\ Owned(f)
        BY <3>2, <2>3, <2>4 DEF ReportInv
      <4> QED
        BY <4>1, OwnedStays
    <3> QED
      BY <3>1, <3>2
  <2>8. OwnBundle'
    BY <2>2, <2>4, <2>5 DEF ReportInv, OwnBundle, Here
  <2> QED
    BY <2>3, <2>5, <2>6, <2>7, <2>8 DEF ReportInv
<1>2. ASSUME NEW c \in Free(t, s), Leaves(<<t, s, c>>, [Missing EXCEPT !.files = {"assets/"}]),
             Goes(e, [NoExport EXCEPT !.at = "render", !.snapshot = s, !.directory = <<t, s, c>>])
      PROVE  ReportInv'
  <2>1. PICK d, y, b : /\ d = <<t, s, c>> /\ b = [Missing EXCEPT !.files = {"assets/"}]
                       /\ y = [NoExport EXCEPT !.at = "render", !.snapshot = s, !.directory = d]
    OBVIOUS
  <2>2. d \in Directory /\ d[2] = s /\ bundles[d].files = {}
    BY <1>2, <2>1 DEF Free, Directory
  <2>3. /\ y.at = "render" /\ y.snapshot = s /\ y.directory = d /\ y.rejected = {} /\ y.attempt = 0
    BY <2>1 DEF NoExport
  <2>4. y \in ExportRecord
    BY <2>1, <2>2 DEF NoExport, ExportRecord, Code, InFlight
  <2>5. /\ b.files = {"assets/"} /\ b.attempts = <<>> /\ b.pdf = "none" /\ b.manifest = Unwritten
        /\ b.tex = {} /\ b.log = {} /\ b.code = "none" /\ b.pdfOf = {}
    BY <2>1 DEF Missing
  <2>6. b \in Bundle
    <3>1. bundles[d] = Missing /\ bundles[d] \in Bundle
      BY <2>2 DEF ReportInv, BundleSound
    <3> QED
      BY <2>1, <3>1 DEF Bundle, FileName
  <2>7. BundleSound(s, b)
    BY <2>5, <2>6 DEF BundleSound, Chained, Sealed, Unwritten
  <2>8. Carries(s, y, b)
    <3>1. Fallbacks(b) = {} /\ IsFiniteSet({}) /\ Cardinality({}) = 0 /\ ~Sealed(b)
      BY <2>5, FS_EmptySet DEF Fallbacks, Sealed, Unwritten
    <3> QED
      BY <2>3, <2>5, <3>1 DEF Carries
  <2>9. \A f \in Export : f # e /\ exports[f].at \in InFlight => exports[f].directory # d
    BY <2>2 DEF ReportInv, Owned, Here, Carries
  <2>10. exports' = [exports EXCEPT ![e] = y] /\ bundles' = [bundles EXCEPT ![d] = b]
         /\ UNCHANGED report
    BY <1>2, <2>1 DEF Goes, Leaves
  <2>11. BundleSound(d[2], b) /\ (y.at \in InFlight =>
            y.directory = d /\ y.snapshot = d[2] /\ Carries(d[2], y, b))
    BY <2>2, <2>3, <2>7, <2>8
  <2>12. d \in Directory /\ UNCHANGED report
    BY <2>2, <2>10
  <2> QED
    BY <2>4, <2>6, <2>9, <2>10, <2>11, <2>12, OneStep
<1> QED
  BY <1>1, <1>2 DEF Begins

LEMMA CrashKeeps ==
  ASSUME ReportInv, ReportCrashes
  PROVE  ReportInv'
<1>1. UNCHANGED <<report, bundles>>
  BY DEF ReportCrashes
<1>2. ASSUME NEW e \in Export PROVE exports'[e] \in ExportRecord /\ exports'[e].at \notin InFlight
  <2>1. exports[e] \in ExportRecord
    BY DEF ReportInv
  <2>2. CASE exports[e].at \in InFlight
    <3>1. exports'[e] = [exports[e] EXCEPT !.at = "failed"]
      BY <2>2 DEF ReportCrashes
    <3>2. exports'[e] \in ExportRecord /\ exports'[e].at = "failed"
      BY <2>1, <3>1, Moved
    <3> QED
      BY <3>2 DEF InFlight
  <2>3. CASE exports[e].at \notin InFlight
    BY <2>1, <2>3 DEF ReportCrashes
  <2> QED
    BY <2>2, <2>3
<1>3. exports' \in [Export -> ExportRecord]
  <2>1. exports' = [e \in Export |-> exports'[e]]
    BY DEF ReportCrashes
  <2> QED
    BY <1>2, <2>1
<1>4. \A d \in Directory : BundleSound(d[2], bundles[d])'
  BY <1>1, SoundStays
<1>5. (\A e \in Export : Owned(e))' /\ OwnBundle'
  BY <1>2 DEF Owned, OwnBundle
<1> QED
  BY <1>1, <1>3, <1>4, <1>5 DEF ReportInv

\* Once every formula is shown as text there is nothing left to name: the last round ends the loop.
LEMMA NamedLeavesARound ==
  ASSUME NEW s \in Snapshot, report \in [Snapshot -> Report], NEW rejected, NEW code, NEW n \in Nat,
         rejected \subseteq Occurrence(s), Cardinality(rejected) = n,
         NEW i \in Named(s, rejected, code), i # 0
  PROVE  /\ i \in Marked(s, rejected) /\ i \in Occurrence(s) /\ i \notin rejected
         /\ n + 1 < Rounds(s)
<1>1. i \in Marked(s, rejected) /\ i \in Occurrence(s) /\ i \notin rejected
  BY MarkedOccurs DEF Named
<1>2. FormulaCount(s) \in Nat
  BY Counts
<1>3. IsFiniteSet(Occurrence(s)) /\ Cardinality(Occurrence(s)) = FormulaCount(s)
  BY <1>2, FS_Interval DEF Occurrence
<1>4. IsFiniteSet(rejected) /\ n <= FormulaCount(s) /\ (n = FormulaCount(s) => rejected = Occurrence(s))
  BY <1>3, FS_Subset
<1> QED
  BY <1>1, <1>2, <1>4 DEF Rounds

LEMMA FallsBackKeeps ==
  ASSUME ReportInv, NEW e \in Export, FallsBack(e)
  PROVE  ReportInv'
<1>1. exports[e].at = "judge" /\ exports[e].at \in InFlight
  BY DEF FallsBack, InFlight
<1>2. PICK s, x, b : s = Here(e)[2] /\ x = exports[e] /\ b = bundles[Here(e)]
  OBVIOUS
<1>3. /\ x \in ExportRecord /\ b \in Bundle /\ BundleSound(s, b) /\ Carries(s, x, b)
      /\ x.snapshot = s /\ s \in Snapshot
  BY <1>1, <1>2, Mine
<1>4. /\ x.named \in Named(s, x.rejected, x.code) /\ x.named # 0 /\ x.at = "judge"
      /\ x.rejected = Fallbacks(b) /\ x.rejected \subseteq Occurrence(s) /\ IsFiniteSet(x.rejected)
      /\ Cardinality(x.rejected) = x.attempt /\ b.pdf = "none" /\ b.files # {} /\ ~Sealed(b)
  BY <1>1, <1>2, <1>3 DEF Carries, FallsBack, Rejectable
<1>5. x.attempt \in Nat /\ x.named \in Nat /\ x.rejected \in SUBSET Nat /\ b.attempts \in Seq(Attempt)
  BY <1>3 DEF ExportRecord, Bundle
<1>6. report \in [Snapshot -> Report]
  BY DEF ReportInv
<1>7. /\ x.named \in Marked(s, x.rejected) /\ x.named \in Occurrence(s) /\ x.named \notin x.rejected
      /\ x.attempt + 1 < Rounds(s)
  BY <1>3, <1>4, <1>5, <1>6, NamedLeavesARound
<1>8. PICK y, last, g : /\ last = [tex |-> x.rejected, formula |-> x.named]
                        /\ y = [x EXCEPT !.at = "write", !.rejected = @ \cup {x.named}, !.attempt = @ + 1]
                        /\ g = [b EXCEPT !.attempts = Append(@, last)]
  OBVIOUS
<1>9. last \in Attempt /\ last.tex = x.rejected /\ last.formula = x.named
  BY <1>5, <1>8 DEF Attempt
<1>10. PICK a : a = Append(b.attempts, last)
  OBVIOUS
<1>11. /\ a \in Seq(Attempt) /\ DOMAIN a = 1..(Len(b.attempts) + 1) /\ Len(b.attempts) \in Nat
       /\ DOMAIN b.attempts = 1..Len(b.attempts)
       /\ a[Len(b.attempts) + 1] = last /\ \A i \in 1..Len(b.attempts) : a[i] = b.attempts[i]
  BY <1>5, <1>9, <1>10
<1>12. /\ y \in ExportRecord /\ y.at = "write" /\ y.snapshot = x.snapshot /\ y.directory = x.directory
       /\ y.rejected = x.rejected \cup {x.named} /\ y.attempt = x.attempt + 1
  <2>1. x.rejected \cup {x.named} \in SUBSET Nat /\ x.attempt + 1 \in Nat
        /\ "write" \in InFlight \cup {"idle", "done", "failed"}
    BY <1>5 DEF InFlight
  <2> QED
    BY <2>1, <1>3, <1>8 DEF ExportRecord
<1>13. /\ g \in Bundle /\ g.attempts = a /\ g.files = b.files /\ g.tex = b.tex /\ g.log = b.log
       /\ g.code = b.code /\ g.pdf = b.pdf /\ g.pdfOf = b.pdfOf /\ g.manifest = b.manifest
  BY <1>3, <1>8, <1>10, <1>11 DEF Bundle
<1>14. Fallbacks(g) = Fallbacks(b) \cup {x.named}
  BY <1>9, <1>11, <1>13 DEF Fallbacks
<1>15. Chained(s, g)
  <2> SUFFICES ASSUME NEW i \in DOMAIN a
               PROVE  /\ a[i].tex = {a[j].formula : j \in 1..(i - 1)}
                      /\ a[i].formula \in Marked(s, a[i].tex)
    BY <1>13 DEF Chained
  <2>1. Chained(s, b)
    BY <1>3 DEF BundleSound
  <2>2. CASE i \in DOMAIN b.attempts
    <3>1. a[i] = b.attempts[i] /\ \A j \in 1..(i - 1) : a[j] = b.attempts[j]
      BY <2>2, <1>11
    <3> QED
      BY <3>1, <2>1, <2>2 DEF Chained
  <2>3. CASE i = Len(b.attempts) + 1
    <3>1. i - 1 = Len(b.attempts) /\ a[i] = last
      BY <2>3, <1>11
    <3>2. {a[j].formula : j \in 1..(i - 1)} = Fallbacks(b)
      BY <3>1, <1>11 DEF Fallbacks
    <3> QED
      BY <3>1, <3>2, <1>4, <1>7, <1>9
  <2> QED
    BY <2>2, <2>3, <1>11
<1>16. ~Sealed(g) /\ BundleSound(s, g)
  BY <1>3, <1>4, <1>13, <1>15 DEF BundleSound, Sealed
<1>17. Carries(s, y, g)
  <2>1. IsFiniteSet(y.rejected) /\ Cardinality(y.rejected) = y.attempt
    <3>1. IsFiniteSet(x.rejected \cup {x.named})
          /\ Cardinality(x.rejected \cup {x.named}) = x.attempt + 1
      <4>1. IsFiniteSet(x.rejected) /\ Cardinality(x.rejected) = x.attempt /\ x.named \notin x.rejected
        BY <1>4, <1>7
      <4>2. /\ IsFiniteSet(x.rejected \cup {x.named})
            /\ Cardinality(x.rejected \cup {x.named}) =
                  IF x.named \in x.rejected THEN Cardinality(x.rejected) ELSE Cardinality(x.rejected) + 1
        BY ONLY <4>1, FS_AddElement
      <4> QED
        BY <4>1, <4>2
    <3> QED
      BY <3>1, <1>12
  <2>2. y.rejected \subseteq Occurrence(s) /\ y.rejected = Fallbacks(g)
    BY <1>4, <1>7, <1>12, <1>14
  <2> QED
    BY <2>1, <2>2, <1>4, <1>12, <1>13, <1>16 DEF Carries
<1>18. Goes(e, y) /\ Leaves(Here(e), g)
  BY <1>2, <1>3, <1>7, <1>8 DEF FallsBack
<1> QED
  BY <1>1, <1>2, <1>12, <1>13, <1>16, <1>17, <1>18, Advance

LEMMA WritesManifestKeeps ==
  ASSUME ReportInv, NEW e \in Export, WritesManifest(e)
  PROVE  ReportInv'
<1>1. exports[e].at = "manifest" /\ exports[e].at \in InFlight
  BY DEF WritesManifest, InFlight
<1>2. PICK s, x, b : s = Here(e)[2] /\ x = exports[e] /\ b = bundles[Here(e)]
  OBVIOUS
<1>3. /\ x \in ExportRecord /\ b \in Bundle /\ BundleSound(s, b) /\ Carries(s, x, b)
      /\ x.snapshot = s /\ s \in Snapshot
  BY <1>1, <1>2, Mine
<1>4. PICK y, m, g : /\ y = [x EXCEPT !.at = "done"] /\ m = Manifest(x, b)
                     /\ g = [b EXCEPT !.manifest = m]
  OBVIOUS
<1>5. y \in ExportRecord /\ y.at = "done" /\ y.snapshot = x.snapshot /\ y.directory = x.directory
  BY <1>3, <1>4, Moved
<1>6. /\ x.at = "manifest" /\ b.tex = x.rejected /\ b.log = b.tex /\ b.code = x.code
      /\ ((x.code = "none") <=> (b.pdf = "whole")) /\ b.files # {} /\ b.tex = Fallbacks(b)
  BY <1>1, <1>2, <1>3 DEF Carries
<1>7. /\ m.status = IF x.code = "none" THEN "success" ELSE "failed"
      /\ m.failure = x.code /\ m.warnings = Warnings(s, b.tex) /\ m.equations = Equations(s, b.tex)
      /\ m.files = b.files /\ m.hashes = Hashes(b)
  BY <1>3, <1>4, <1>6 DEF Manifest
<1>8. Occurrence(s) \subseteq Nat
  BY <1>3, Counts DEF Occurrence, ReportInv
<1>9. m.warnings \in SUBSET (Nat \X WarningCode) /\ m.equations \in SUBSET Nat
  <2>1. ASSUME NEW w \in m.warnings PROVE w \in Nat \X WarningCode
    <3>1. PICK i \in Occurrence(s) : \/ w = <<i, "quotation_verbatim">> \/ w = <<i, "math_rejected">>
                                    \/ w = <<i, "typeset_substituted">>
      BY <2>1, <1>7 DEF Warnings, Marked
    <3> QED
      BY <3>1, <1>8 DEF WarningCode
  <2>2. m.equations \subseteq Occurrence(s)
    BY <1>7 DEF Equations, Marked
  <2> QED
    BY <2>1, <2>2, <1>8
<1>10. m.hashes \in (SUBSET Nat) \X Seq(Attempt) \X (SUBSET Nat) \X {"none", "partial", "whole"} \X (SUBSET Nat)
  <2>1. /\ b.tex \in SUBSET Nat /\ b.attempts \in Seq(Attempt) /\ b.log \in SUBSET Nat
        /\ b.pdf \in {"none", "partial", "whole"} /\ b.pdfOf \in SUBSET Nat
    BY <1>3 DEF Bundle
  <2>2. m.hashes = <<b.tex, b.attempts, b.log, b.pdf, b.pdfOf>>
    BY <1>7 DEF Hashes
  <2> HIDE DEF Attempt
  <2> QED
    BY <2>1, <2>2
<1>11. m.status \in {"success", "failed"} /\ m.failure \in Code /\ m.files \in SUBSET FileName
  BY <1>3, <1>7 DEF ExportRecord, Bundle
<1>12. m = [status |-> m.status, failure |-> m.failure, warnings |-> m.warnings,
            equations |-> m.equations, files |-> m.files, hashes |-> m.hashes]
  BY <1>4 DEF Manifest
<1>13. g \in Bundle
  BY <1>3, <1>4, <1>9, <1>10, <1>11, <1>12 DEF Bundle
<1>14. /\ g.files = b.files /\ g.tex = b.tex /\ g.attempts = b.attempts /\ g.log = b.log
       /\ g.code = b.code /\ g.pdf = b.pdf /\ g.pdfOf = b.pdfOf /\ g.manifest = m
  BY <1>3, <1>4 DEF Bundle
<1>15. ASSUME NEW i \in Occurrence(s)
       PROVE  \/ i \in Marked(s, b.tex) /\ report[s][i].layer \in {"none", "ok"}
              \/ \E w \in m.warnings : w[1] = i
  <2>1. CASE Quoted(s, i)
    <3>1. <<i, "quotation_verbatim">> \in m.warnings
      BY <2>1, <1>7 DEF Warnings
    <3> QED
      BY <3>1
  <2>2. CASE Unrendered(s, b.tex, i)
    <3>1. <<i, "math_rejected">> \in m.warnings
      BY <2>2, <1>7 DEF Warnings
    <3> QED
      BY <3>1
  <2>3. CASE ~Quoted(s, i) /\ ~Unrendered(s, b.tex, i)
    <3>1. i \in Marked(s, b.tex)
      BY <2>3 DEF Marked
    <3>2. CASE report[s][i].layer = "substituted"
      <4>1. <<i, "typeset_substituted">> \in m.warnings
        BY <3>1, <3>2, <1>7 DEF Warnings
      <4> QED
        BY <4>1
    <3>3. CASE report[s][i].layer # "substituted"
      <4>1. report[s] \in Report
        BY <1>3 DEF ReportInv
      <4>2. PICK n \in 0..MaxFormulas : report[s] \in [1..n -> Formula]
        BY <4>1 DEF Report
      <4>3. i \in DOMAIN report[s]
        BY <1>3, Counts DEF ReportInv
      <4>4. report[s][i] \in Formula
        BY <4>2, <4>3
      <4> QED
        BY <4>4, <3>1, <3>3, <2>3 DEF Formula, Quoted, Unrendered
    <3> QED
      BY <3>2, <3>3
  <2> QED
    BY <2>1, <2>2, <2>3
<1>16. Tells(s, g)
  BY <1>6, <1>7, <1>14, <1>15 DEF Tells, Hashes
<1>17. BundleSound(s, g)
  <2>1. g.tex = Fallbacks(g) /\ Chained(s, g)
    BY <1>3, <1>6, <1>14 DEF Fallbacks, Chained, BundleSound
  <2> QED
    BY <2>1, <1>3, <1>6, <1>13, <1>14, <1>16 DEF BundleSound
<1>18. Goes(e, y) /\ Leaves(Here(e), g)
  BY <1>2, <1>4 DEF WritesManifest
<1> QED
  BY <1>1, <1>2, <1>5, <1>13, <1>17, <1>18, Advance DEF InFlight

-----------------------------------------------------------------------------
LEMMA ReportInvNext ==
  ASSUME ReportInv, [ReportNext]_reportVars
  PROVE  ReportInv'
<1>1. CASE ReportCrashes
  BY <1>1, CrashKeeps
<1>2. ASSUME NEW e \in Export, ExportStep(e) PROVE ReportInv'
  <2>1. ASSUME NEW t \in Instant, NEW s \in Snapshot, Begins(e, t, s) PROVE ReportInv'
    BY <2>1, BeginsKeeps
  <2> QED
    BY <1>2, <2>1, RendersKeeps, WritesTexKeeps, CompilesKeeps, FallsBackKeeps, SettlesKeeps,
       WritesLogKeeps, OpensPdfKeeps, FillsPdfKeeps, WritesManifestKeeps, RaisesKeeps DEF ExportStep
<1>3. CASE UNCHANGED reportVars
  <2>1. report' = report /\ exports' = exports /\ bundles' = bundles
    BY <1>3 DEF reportVars
  <2>2. (\A d \in Directory : BundleSound(d[2], bundles[d]))'
    BY <2>1, SoundStays
  <2>3. ASSUME NEW e \in Export PROVE Owned(e)'
    <3>1. Owned(e)
      BY DEF ReportInv
    <3> QED
      BY <2>1, <3>1, OwnedStays
  <2> QED
    BY <2>1, <2>2, <2>3 DEF ReportInv, OwnBundle, Here
<1> QED
  BY <1>1, <1>2, <1>3 DEF ReportNext

\* No step changes a bundle with a manifest, or takes a file away.
LEMMA BundlesStayThere ==
  ASSUME ReportInv, ReportNext
  PROVE  BundlesStay
<1>1. CASE UNCHANGED bundles
  BY <1>1 DEF BundlesStay
<1>2. ASSUME NEW d \in Directory, NEW g \in Bundle, Leaves(d, g), ~Sealed(bundles[d]),
             bundles[d].files \subseteq g.files
      PROVE  BundlesStay
  BY <1>2 DEF BundlesStay, Leaves, ReportInv
<1>3. ASSUME NEW e \in Export, ExportStep(e) PROVE BundlesStay
  <2>1. ASSUME NEW t \in Instant, NEW s \in Snapshot, Begins(e, t, s) PROVE BundlesStay
    <3>1. CASE UNCHANGED bundles
      BY <1>1, <3>1
    <3>2. ASSUME NEW c \in Free(t, s), Leaves(<<t, s, c>>, [Missing EXCEPT !.files = {"assets/"}])
          PROVE  BundlesStay
      <4>1. PICK d : d = <<t, s, c>>
        OBVIOUS
      <4>2. d \in Directory /\ bundles[d].files = {}
        BY <3>2, <4>1 DEF Free, Directory
      <4>3. bundles[d] = Missing
        BY <4>2 DEF ReportInv, BundleSound
      <4>4. bundles' = [bundles EXCEPT ![d] = [Missing EXCEPT !.files = {"assets/"}]]
        BY <3>2, <4>1 DEF Leaves
      <4> QED
        BY <4>2, <4>3, <4>4 DEF BundlesStay, ReportInv, Sealed, Missing, Unwritten
    <3> QED
      BY <2>1, <3>1, <3>2 DEF Begins
  <2>2. ASSUME exports[e].at \in InFlight, NEW g, Leaves(Here(e), g),
               bundles[Here(e)].files \subseteq g.files
        PROVE  BundlesStay
    <3>1. Here(e) \in Directory /\ ~Sealed(bundles[Here(e)])
      BY <2>2, Mine DEF Carries
    <3> QED
      BY <2>2, <3>1 DEF BundlesStay, Leaves, ReportInv
  <2>3. ASSUME exports[e].at \in InFlight PROVE bundles[Here(e)] \in Bundle
    BY <2>3, Mine
  <2>4. CASE Renders(e) \/ Compiles(e) \/ Settles(e) \/ Raises(e)
    BY <1>1, <2>4 DEF Renders, Compiles, Settles, Raises
  <2>5. CASE WritesTex(e)
    BY <2>2, <2>3, <2>5 DEF WritesTex, InFlight, Bundle
  <2>6. CASE FallsBack(e)
    BY <2>2, <2>3, <2>6 DEF FallsBack, InFlight, Bundle
  <2>7. CASE WritesLog(e)
    BY <2>2, <2>3, <2>7 DEF WritesLog, InFlight, Bundle
  <2>8. CASE OpensPdf(e)
    BY <2>2, <2>3, <2>8 DEF OpensPdf, InFlight, Bundle
  <2>9. CASE FillsPdf(e)
    BY <2>2, <2>3, <2>9 DEF FillsPdf, InFlight, Bundle
  <2>10. CASE WritesManifest(e)
    BY <2>2, <2>3, <2>10 DEF WritesManifest, InFlight, Bundle
  <2> QED
    BY <1>3, <2>1, <2>4, <2>5, <2>6, <2>7, <2>8, <2>9, <2>10 DEF ExportStep
<1>4. CASE ReportCrashes
  BY <1>1, <1>4 DEF ReportCrashes
<1> QED
  BY <1>3, <1>4 DEF ReportNext

LEMMA ReportInvImplies ==
  ASSUME ReportInv
  PROVE  ReportTypeOK /\ OwnBundle /\ PdfOfItsTex /\ FallbacksKept /\ ManifestTrue
<1>1. ReportTypeOK
  <2>1. ASSUME NEW e \in Export
        PROVE  /\ exports[e].at \in InFlight \cup {"idle", "done", "failed"}
               /\ exports[e].at \in InFlight =>
                     Here(e) \in Directory /\ exports[e].snapshot = Here(e)[2]
    BY DEF ReportInv, Owned, ExportRecord
  <2>2. ASSUME NEW d \in Directory
        PROVE  /\ bundles[d].files \subseteq {"assets/", "report.tex", "compile.log", "report.pdf"}
               /\ bundles[d].pdf \in {"none", "partial", "whole"} /\ bundles[d].code \in Code
               /\ Readable(bundles[d]) <=> bundles[d].pdf # "none"
    <3>1. bundles[d] \in Bundle /\ BundleSound(d[2], bundles[d])
      BY DEF ReportInv
    <3> QED
      BY <3>1 DEF Bundle, FileName, BundleSound, Readable
  <2> QED
    BY <2>1, <2>2 DEF ReportTypeOK, ReportInv
<1>2. PdfOfItsTex /\ FallbacksKept /\ ManifestTrue
  BY DEF ReportInv, BundleSound, PdfOfItsTex, FallbacksKept, ManifestTrue
<1> QED
  BY <1>1, <1>2 DEF ReportInv

\* What an export leaves is true and stays, for any number of workers, snapshots and formulas.
THEOREM ReportThm == ReportSpec => ReportSound
<1> DEFINE Sound == ReportTypeOK /\ OwnBundle /\ PdfOfItsTex /\ FallbacksKept /\ ManifestTrue
<1>1. ReportInit => ReportInv
  BY ReportInvInit
<1>2. ReportInv /\ [ReportNext]_reportVars => ReportInv'
  BY ReportInvNext
<1>3. ReportInv => Sound
  BY ReportInvImplies
<1>4. ReportInv /\ [ReportNext]_reportVars => [BundlesStay]_reportVars
  BY BundlesStayThere
<1>5. ReportSpec => []ReportInv
  BY <1>1, <1>2, PTL DEF ReportSpec
<1>6. ReportSpec => [][BundlesStay]_reportVars
  BY <1>4, <1>5, PTL DEF ReportSpec
<1> QED
  BY <1>3, <1>5, <1>6, PTL DEF ReportSound

=============================================================================
