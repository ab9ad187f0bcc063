------------------------------ MODULE RunLedger -------------------------------
(***************************************************************************)
(* The idempotency ledger of the service, service.py _idempotency_*, and   *)
(* the way create_run and the commands of a run use it: looked up,         *)
(* accepted on disk, carried out, stored on disk with the answer.  A key   *)
(* is the pair of scope and Idempotency-Key: create_run, or a command of a *)
(* run.  A create for an intake problem that has a run is answered with    *)
(* that run instead, outside the ledger.                                   *)
(***************************************************************************)
EXTENDS RunNames, Naturals, Sequences

CONSTANTS
    CreateKey, CommandKey, Payload, NoRun, NoAnswer, MaxLines,
    Intake  \* the creates of each confirmed intake problem: one problem, its possible configurations

ASSUME LedgerAssumption ==
    /\ NoRun \notin Run /\ NoRun \notin Payload /\ NoAnswer \notin Nat /\ MaxLines \in Nat
    /\ "service" \notin Run /\ CreateKey \cap (Run \X CommandKey) = {}
    /\ \A S, T \in Intake : S = T \/ S \cap T = {}

ScopedKey == CreateKey \cup (Run \X CommandKey)
IsCreate(k) == k \in CreateKey

VARIABLES
    serves,  \* down, up, or refused: a start that read the ledger and gave up
    entries, \* _idempotency: the entries of memory
    ledger,  \* the lines of .idempotency.jsonl
    torn,    \* a write to it was cut short
    failed,  \* a write to it, or its fsync, raised
    made,    \* the runs with a directory
    saved,   \* those of them with a manifest
    inRuns,  \* _runs
    bound,   \* context.command: the create a run was made by, kept in its manifest
    disowned,\* the runs with a manifest whose create failed and took them out of _runs
    shown,   \* the answers to creates that keep no key: the create and the run
    doing,   \* what the service lock, and the lock of each run, are held for
    applied, \* what was carried out for each key
    told,    \* the answers its callers got
    clock    \* the changes of all runs: two views of different moments differ

ledgerVars == <<serves, entries, ledger, torn, failed, made, saved, inRuns, bound, disowned, shown,
                doing, applied, told, clock>>

\* response is NoAnswer while pending.
Entry == [payload : Payload, run : Run, response : Nat \cup {NoAnswer}]
Nothing == [payload |-> NoRun, run |-> NoRun, response |-> NoAnswer]
Vacant == [at |-> "idle", key |-> NoRun, payload |-> NoRun, run |-> NoRun]
LedgerLock == Run \cup {"service"}
LockOf(k) == IF IsCreate(k) THEN "service" ELSE k[1]

LedgerTypeOK ==
    /\ serves \in {"down", "up", "refused"} /\ torn \in BOOLEAN /\ failed \in BOOLEAN /\ clock \in Nat
    /\ entries \in [ScopedKey -> Entry \cup {Nothing}]
    /\ ledger \in Seq([key : ScopedKey, entry : Entry])
    /\ saved \subseteq made /\ inRuns \subseteq made /\ made \subseteq Run /\ disowned \subseteq saved
    /\ bound \in [Run -> Payload \cup {NoRun}] /\ shown \subseteq Payload \X saved
    /\ \A lock \in LedgerLock : doing[lock].at \in {"idle", "accepted", "done"}
    /\ \A k \in ScopedKey : doing[LockOf(k)].key = k /\ doing[LockOf(k)].at # "idle" =>
          entries[k] = [payload |-> doing[LockOf(k)].payload, run |-> doing[LockOf(k)].run, response |-> NoAnswer]
    /\ applied \in [ScopedKey -> Seq(Payload)] /\ told \in [ScopedKey -> SUBSET Nat]

LedgerInit ==
    /\ serves = "up" /\ entries = [k \in ScopedKey |-> Nothing] /\ ledger = <<>> /\ torn = FALSE /\ failed = FALSE
    /\ made = {} /\ saved = {} /\ inRuns = {} /\ bound = [r \in Run |-> NoRun] /\ disowned = {} /\ shown = {}
    /\ doing = [lock \in LedgerLock |-> Vacant]
    /\ applied = [k \in ScopedKey |-> <<>>] /\ told = [k \in ScopedKey |-> {}] /\ clock = 0

Line(k, e) == [key |-> k, entry |-> e]
Started(k, p, r) == [at |-> "accepted", key |-> k, payload |-> p, run |-> r]

-----------------------------------------------------------------------------
(* A command *)

\* A run id that is not in use; a command names its run.
RunsFor(k) == IF IsCreate(k) THEN Run \ made ELSE {k[1]} \cap inRuns

\* _idempotency_accept: on disk, then in memory. A write that fails may have left the line, or a part of it.
Accept(k, p, r) ==
    LET e == [payload |-> p, run |-> r, response |-> NoAnswer] IN
    \/ /\ ledger' = Append(ledger, Line(k, e)) /\ entries' = [entries EXCEPT ![k] = e]
       /\ doing' = [doing EXCEPT ![LockOf(k)] = Started(k, p, r)] /\ UNCHANGED <<torn, failed>>
    \/ failed' = TRUE /\ ledger' = Append(ledger, Line(k, e)) /\ UNCHANGED <<entries, torn, doing>>
    \/ failed' = TRUE /\ torn' = TRUE /\ UNCHANGED <<entries, ledger, doing>>

\* Mutant: a pending key is accepted again.
FreshUnlessAnswered(k) == entries[k].response = NoAnswer

Fresh(k) == entries[k] = Nothing

\* The creates for the problem of p, and the runs made for it; a problem that is no intake problem is compared with none.
Alike(p) == UNION {S \in Intake : p \in S}
MadeFor(p) == {r \in inRuns : bound[r] \in Alike(p)}

\* A key that was used with another payload, or whose outcome is not known, is refused.
Ask(k, p) ==
    /\ serves = "up" /\ doing[LockOf(k)] = Vacant /\ Len(ledger) < MaxLines
    /\ Fresh(k) /\ (IsCreate(k) => MadeFor(p) = {})
    /\ \E r \in RunsFor(k) : Accept(k, p, r)
    /\ UNCHANGED <<serves, made, saved, inRuns, bound, disowned, shown, applied, told, clock>>

\* A create of an intake problem that has its run: shown if it was made by the same create, and the key is not kept.
AskForExisting(k, p) ==
    /\ serves = "up" /\ doing[LockOf(k)] = Vacant /\ IsCreate(k) /\ Fresh(k)
    /\ \E r \in MadeFor(p) : MadeFor(p) = {r} /\ bound[r] = p /\ shown' = shown \cup {<<p, r>>}
    /\ UNCHANGED <<serves, entries, ledger, torn, failed, made, saved, inRuns, bound, disowned, doing, applied, told, clock>>

AskAgain(k, p) ==
    /\ serves = "up" /\ doing[LockOf(k)] = Vacant
    /\ entries[k].payload = p /\ entries[k].response # NoAnswer
    /\ told' = [told EXCEPT ![k] = @ \cup {entries[k].response}]
    /\ UNCHANGED <<serves, entries, ledger, torn, failed, made, saved, inRuns, bound, disowned, shown, doing, applied, clock>>

\* A create makes the directory, the run and last its manifest; a command leaves the set of runs alone.
CarryOut(lock) ==
    LET d == doing[lock] IN
    /\ serves = "up" /\ d.at = "accepted"
    /\ applied' = [applied EXCEPT ![d.key] = Append(@, d.payload)] /\ clock' = clock + 1
    /\ IF IsCreate(d.key)
       THEN /\ made' = made \cup {d.run} /\ saved' = saved \cup {d.run} /\ inRuns' = inRuns \cup {d.run}
            /\ bound' = [bound EXCEPT ![d.run] = d.payload]
       ELSE UNCHANGED <<made, saved, inRuns, bound>>
    /\ doing' = [doing EXCEPT ![lock].at = "done"]
    /\ UNCHANGED <<serves, entries, ledger, torn, failed, disowned, shown, told>>

\* The command raises, before or after it had its effect; a run that was being created is forgotten,
\* and found again by the next start if its manifest was written.
Forgets(d) ==
    IF IsCreate(d.key)
    THEN inRuns' = inRuns \ {d.run} /\ disowned' = disowned \cup ({d.run} \cap saved)
    ELSE UNCHANGED <<inRuns, disowned>>

CommandFails(lock) ==
    LET d == doing[lock] IN
    /\ serves = "up" /\ d.at # "idle" /\ doing' = [doing EXCEPT ![lock] = Vacant]
    /\ made' = (IF IsCreate(d.key) THEN made \cup {d.run} ELSE made) /\ Forgets(d)
    /\ UNCHANGED <<serves, entries, ledger, torn, failed, saved, bound, shown, applied, told, clock>>

Answered(k, a) == told' = [told EXCEPT ![k] = @ \cup {a}]

\* _idempotency_store, and the answer; it raises for a run that was forgotten.
Store(lock) ==
    LET d == doing[lock]
        e == [payload |-> d.payload, run |-> d.run, response |-> clock] IN
    /\ serves = "up" /\ d.at = "done" /\ d.run \in inRuns /\ Len(ledger) < MaxLines
    /\ doing' = [doing EXCEPT ![lock] = Vacant]
    /\ \/ /\ ledger' = Append(ledger, Line(d.key, e)) /\ entries' = [entries EXCEPT ![d.key] = e]
          /\ Answered(d.key, clock) /\ UNCHANGED <<torn, failed, inRuns, disowned>>
       \/ failed' = TRUE /\ ledger' = Append(ledger, Line(d.key, e)) /\ Forgets(d) /\ UNCHANGED <<entries, torn, told>>
       \/ failed' = TRUE /\ torn' = TRUE /\ Forgets(d) /\ UNCHANGED <<entries, ledger, told>>
    /\ UNCHANGED <<serves, made, saved, bound, shown, applied, clock>>

-----------------------------------------------------------------------------
(* The process *)

\* Between two writes, or inside one; a run's directory may be there without its manifest.
ServesNoMore ==
    /\ serves = "up" /\ serves' = "down"
    /\ entries' = [k \in ScopedKey |-> Nothing] /\ inRuns' = {} /\ doing' = [lock \in LedgerLock |-> Vacant]
    /\ \E lost \in SUBSET {doing[lock].run : lock \in {l \in LedgerLock : doing[l].at # "idle"}} : made' = made \cup lost
    /\ UNCHANGED <<ledger, torn, failed, saved, bound, disowned, shown, applied, told, clock>>

\* A line may repeat the one before it for its key, or answer it; what is promised must be there.
Follows(e, f) == e = f \/ (e.payload = f.payload /\ e.run = f.run /\ e.response = NoAnswer)
LinesOf(k) == {i \in DOMAIN ledger : ledger[i].key = k}
IsNext(i, j) == i < j /\ \A h \in LinesOf(ledger[j].key) : h <= i \/ j <= h
Legible ==
    /\ ~torn
    /\ \A j \in DOMAIN ledger : LET line == ledger[j] IN
          /\ \A i \in LinesOf(line.key) : IsNext(i, j) => Follows(ledger[i].entry, line.entry)
          /\ ~IsCreate(line.key) \/ line.entry.response # NoAnswer => line.entry.run \in saved

\* The last line of a key counts.
LastLine(k) == CHOOSE i \in LinesOf(k) : \A j \in LinesOf(k) : j <= i
Latest(k) == ledger[LastLine(k)].entry
Loaded(k) == IF LinesOf(k) = {} THEN Nothing ELSE Latest(k)

\* _load_idempotency_entries
ServesAgain ==
    /\ serves # "up" /\ inRuns' = IF Legible THEN saved ELSE {}
    /\ IF Legible THEN serves' = "up" /\ entries' = [k \in ScopedKey |-> Loaded(k)]
       ELSE serves' = "refused" /\ UNCHANGED entries
    /\ UNCHANGED <<ledger, torn, failed, made, saved, bound, disowned, shown, doing, applied, told, clock>>

LedgerNext ==
    \/ \E k \in ScopedKey, p \in Payload : Ask(k, p) \/ AskForExisting(k, p) \/ AskAgain(k, p)
    \/ \E lock \in LedgerLock : CarryOut(lock) \/ CommandFails(lock) \/ Store(lock)
    \/ ServesNoMore \/ ServesAgain

LedgerSpec == LedgerInit /\ [][LedgerNext]_ledgerVars

-----------------------------------------------------------------------------

(* A command whose key is kept takes effect at most once and has one       *)
(* answer, whatever fails, crashes or is retried: the ledger implements    *)
(* OnceOnly.  A create that is shown the run of its intake problem keeps   *)
(* no key; it takes no effect, and what it is promised is OneRunPerProblem.*)
Once == INSTANCE OnceOnly WITH Key <- ScopedKey

(* What has taken effect is on disk as accepted, and no answer under a key *)
(* that is kept would be another after a restart.                          *)
AnswersDurable ==
    \A k \in ScopedKey :
       /\ applied[k] # <<>> => LinesOf(k) # {}
       /\ told[k] # {} => told[k] = {Latest(k).response}

(* An intake problem has one run, however often and under whatever keys    *)
(* its create is sent, and that run was made by the create that is shown   *)
(* it.  A create that failed after its manifest was written leaves a run   *)
(* outside this: a second one can be made until the next start finds it.   *)
Claimed == (saved \ disowned) \cup {s[2] : s \in shown}
OneRunPerProblem ==
    /\ \A q, r \in Claimed : bound[q] \in Alike(bound[r]) => q = r
    /\ \A s \in shown : bound[s[2]] = s[1]

(* A start gives up on the ledger only after a write to it failed: the     *)
(* order of manifest, directory and lines is one that always loads.        *)
RefusesForCause == serves = "refused" => failed

(* A command whose key is kept happens once and is answered once, also by  *)
(* the services that start later from what was written, whatever write was *)
(* the last; and an intake problem has one run.                            *)
LedgerSound == Once!OnceSpec /\ [](LedgerTypeOK /\ AnswersDurable /\ OneRunPerProblem /\ RefusesForCause)

=============================================================================
