# A verification development for DerivationLab

DerivationLab drives language-model calls through a long scientific derivation.
A *writer* extends branches of a derivation one sealed step at a time, *checkers*
examine steps, and a human may fork, edit, pause or steer at any moment. Everything that
happens in a run is an event of one append-only, hash-chained JSONL log (the *record*); every
other piece of a run's state is derived from it or repaired from it after a crash.
Around the run stand a service that owns many runs, an App Server child process that
talks to the model, an intake conversation that turns a user's problem into a task, and
a web client.

This directory holds TLA+ models of that system, the TLC runs that check them and
TLAPS proofs about them. Source paths are relative to the repository's root,
whose Python packages live under `src/`. `PROJECT.json` lists the components, the runs,
the source lines of every definition, the hazards with the properties that cover them, and the theorems.

## 1. Inventory

| Component | State it keeps | Operations | Hard part | Module |
| --- | --- | --- | --- | --- |
| **Record contract** `derivation_agent_record/replay.py`, `model.py` | branches, steps, calls, checks, candidates, judgements, selection, human actions; all rebuilt by replay | one handler per event type | any order of legal events, for ever: what one event freezes, later ones must not undo | `RecordContract` |
| **Event log writer** `derivation_runtime/record.py` | file, sequence number, last hash | append, load, verify | a crash, a failed fsync or a power loss in the middle of an append | `EventLog` |
| **Orchestrator, control store, record queries** `derivation_runtime/orchestrator.py`, `control.py`, `query.py` | record, rows of the control store, pause flag | drive, advance a branch, pause, resume, interrupt, expand, revise, reconcile, repair | every `await` is a point where a command or a crash may fall; repair must finish each half-done step exactly once | `Orchestrator` |
| **Formula gate** `orchestrator.py` `_formula_gate*`, `control.py` | audits, rechecks, stop flag | audit, normalize, reject, rewrite, recheck | each is a durable write of its own, and the normalizer may be another after a restart | `FormulaGate` |
| **App server client, runtime, sharing** `derivation_runtime/app_server_client.py`, `app_server_runtime.py`, `shared_app_server.py` | pending requests, registry of threads and turns, owners and claims, queues | request, collect, interrupt, fork, reconcile, share, close | answers, notifications, deadlines and process death in any order | `AppServerClient`, `TurnRuntime`, `SharedBroker` |
| **Threads of Writers** `orchestrator.py`, `control.py`, `app_server_runtime.py` | the session of a branch, the operation behind a step, owners of threads, what the provider's threads remember | fork, rehydrate, rotate, rebind, resume, register after a restart | four memories of one fact change one after the other, and two of them die with the process | `WriterSessions` |
| **Reviews** `orchestrator.py`, `evidence.py`, `app_server_runtime.py`, `replay.py` | the check or judgement, its calls, their handles and turns | request, start, collect, retry, recover, complete | an answer is read by three readers, two of them again after a crash, and a quotation that is accepted for its words must be recorded with its source's characters | `Reviews` |
| **Run service** `derivation_app/service.py` | run contexts, driver tasks, locks, idempotency ledger, event streams | create, pause, resume, interrupt, branch, recover, close | commands against a driver task that is starting, running or settling | `RunService`, `RunStream`, `RunLedger` |
| **Host run lease, profile lock, factory** `derivation_app/host_run_lease.py`, `product_profile.py`, `factory.py`, `shared_client.py` | file locks, a set of active paths, pending cleanups | acquire, release, launch, lend, close | several threads of several processes, which may die | `HostLease`, `ProfileLock`, `Launch` |
| **Intake sessions** `derivation_app/intake_session*.py`, `app_server_intake_session.py` | decision log, frontier, pending, held submission, receipts | create, answer, correct, finalize, replace thread, confirm, cancel | a round awaits the model for minutes and may fail or be repeated | `IntakeSession`, `IntakeRound` |
| **Route typesetting** `derivation_app/route_typeset.py` | layer files, journal of calls | compile, repair, review, write | crashes, a call budget, corrections that must not change the content | `RouteTypeset` |
| **Account** `derivation_app/account.py` | credential file, backups, device logins | import, log in, poll, cancel, publish | failures between moving the old credential away and putting the new one in | `AccountLogin` |
| **Sites** `derivation_app/site_identity.py`, `derivation_api` middleware | accounts, sessions | log in, log out, change passwords, disable | a request acts later than it was authenticated | `SiteAccess` |
| **Web client** `derivation_web/src` | the view and the sheet of answers | press, retry, reload, carry answers over | lost answers, and other pages that move the session | `PageIntake`, `RunStream` |
| **Reporting** `derivation_app/reporting.py` | report directories | export, download | a loop of renderings and compilations, files written one by one, exports side by side | `ReportExport` |
| Rendering, prompts, launch gate, catalog, in-memory service for tests | none, or configuration | pure functions, validation at start | - | - |

Components interact as follows. The HTTP interface calls the service. The service owns one
orchestrator and one driver task per run and schedules it after a command or at start. The orchestrator
appends to the record through the log writer, which validates each event with the
replay engine *before* it is written, keeps the control store in step with the record, and awaits
the provider through the runtime, whose App Server child is its own or one that a broker shares. A child
needs the profile lock, and its run the host lease, which the factory takes and gives back. Views, phases
and the decision to recover are computed from the replayed record; a completed route is typeset before its run is shown as ready.

What makes each component correct:

* Record contract: shared steps have one history and one slot; a call contributes
  once to a branch; the active branches stay within the cap; no required check escapes a candidate; a
  decided candidate, a selection and a killed branch stay what they are; provenance and
  evidence stay true.
* Event log: every file that opens shows all acknowledged events.
* Orchestrator: a finished call is never paid for twice; attempts agree with the record; retries are bounded;
  every append is accepted; the driver settles; a pause is honoured, and no call is made that a pause, a
  failure or a human edit asked to wait for; a restart at any point finishes what was half done.
* Formula gate: what is sealed is what was audited, and rewrites stay within their budget.
* Provider side: nobody waits for an answer that cannot come; what is filed is what the child said; a client, a
  broker or a router fails only for a cause.
* Service: a runtime is held exactly as long as it is needed, every command ends, a keyed command happens once, a
  page that follows a run sees it in order.
* Host: at most one owner per profile and run over all processes, children are covered by the locks taken for them.
* Intake: what a user is asked is all that is open, what was sent is held, an answer stands under its own question.
* Reports: a bundle says what lies beside it, and stays.
* Typesetting, account, sites: only checked corrections are delivered; no credential is lost; a session that ended never counts again.

The hazards are listed one by one, with their source lines, in `PROJECT.json`.

## 2. Modules

| Module | Role |
| --- | --- |
| `RecordContract`, `MCRecord` | the replay engine, one action per event handler; its TLC instances |
| `Orchestrator` | the driver of one run, its control store, commands, provider and crashes; extends `RecordContract` and is checked directly |
| `ProviderTurns` | names and small operators that the three provider modules share |
| `AppServerClient`, `SharedBroker`, `TurnRuntime`, `FormulaGate`, `WriterSessions`, `Reviews`, `AccountLogin` | the provider's side of a run |
| `MCProvider` | these seven, one run |
| `Processes`, `ProfileLock`, `HostLease`, `HostOwners`, `Launch`, `EventLog` | what keeps the processes of one host apart, and the log; `HostOwners` states what lock and lease promise beyond one owner |
| `IntakeRound`, `IntakeSession`, `PageIntake`, `RouteTypeset`, `SiteAccess` | what surrounds a run |
| `MCHost` | these eight parts, one run |
| `RunNames`, `RunService`, `RunStream`, `RunLedger`, `ReportExport`, `MCService` | the service; four parts, one run |
| `OneOwner`, `DurableLog`, `OnceOnly` | abstract specifications: a lock with one owner, an append-only log, a keyed command |
| `RecordProofs`, `OrchProofs`, `ProviderProofs`, `HostProofs`, `IntakeProofs`, `AroundProofs`, `ServiceProofs`, `LedgerProofs` | theorems |

A composite (`MCProvider`, `MCHost`, `MCService`) chooses one part in its initial state and lets only that part step. The parts
share no variables, so that a behaviour of the composite is a behaviour of one part and every property of a part is checked as in a run
of its own; it saves TLC runs, nothing else. `Orchestrator` is a true composition: its steps *are* steps
of `RecordContract`.

### RecordContract

State: the tables `branches`, `steps`, `calls`, `checks`, `candidates`, `judgements`,
`actions` are functions from the identifiers used so far to records, as the
dictionaries of `ReplayEngine` are; `selections` holds the selected candidate with its action. Each action is one
handler `_on_...` and is enabled exactly when the handler would accept the event: a
log is legal when it is a behaviour. Texts, hashes, costs and timestamps are left
out, and so are the checks that a hash matches; a text is kept as far as it matters
who wrote it (`Content`) and which evidence it names. `V11` chooses between the
Record v1 and 1.1 rules; `MaxActive`, `MaxCalls` are the task's limits (0: none);
`MaxRaw` bounds the raw output chunks of a call. `Kinds`, `Moves`, `Ends` are the
human actions, branch status changes and ends of a call that an instance lets happen: they
restrict an instance, the theorems hold for every value of them.

An identifier can be used once, so the sets of identifiers bound a log; the runs therefore end, which is why
every record cfg says `CHECK_DEADLOCK FALSE`. `Canonical` follows only the logs that introduce identifiers in increasing
order: no handler compares identifiers, so every other log is a renaming of one that is followed, and
a renaming preserves the violation of every property here. `Families` keeps `RecordEvents` to logs of two kinds, those with
several checks and calls around a candidate, and those with every kind of event on one call and one check.

### Orchestrator

State. The record is the one of `RecordContract`; `failure`, `consumed` and `resumed` are three facts of the same log that the
replay engine does not compare (why a call failed, which human actions have had their effect, which writer
calls are older than a resume of their branch). `marks`, `stepMarks` and `pause` are the rows of the control
store, `manifest` the error or interrupt the run manifest keeps; all of these survive a crash. `turn` is what the
provider knows of each call and also survives. `driver`, `live` and `phase` belong to the process and are
lost: `driver` is where the driver task stands (`at`), the call, step or action it is busy with (`on`), the branch it
does it for, and the branches it still has to look at (`todo`).

Actions. One action is one durable write (an event, or a row of the control store) or one
answer of the provider. The orchestrator is the only writer of its record and Python switches
tasks only at an `await`, so commands are enabled while `driver` awaits the provider or is
idle, while `Crash` is enabled between any two writes. Every event is written by the action of `RecordContract` of that name, so
the model cannot append what the replay engine would refuse: a driver that wanted to would have no step,
and `Accepted` says it always has one. The exceptions the code raises on purpose are
`DriverFails`. The groups `CallStep`, `RepairStep`, `ScheduleStep`, `CommandStep`, `AbortStep` and `RecoverStep` follow the
methods they are mapped to; the guards `Aligned`, `NoOrphans`, ..., `Repaired` are the
order in which `_repair_record_prefix` looks for something to repair.

Abstractions. A writer answers with one chunk that is its control object, a decision and for a revision the step it replaces; a
`fork` names one alternative. A checker's answer is its verdict, and a hard
defect quotes the task. A provider failure is retryable, fatal or for want of context room, and
may leave partial text. A human edit is an expansion with a direction or a revision of a step. Between two writes the code also updates
branch session bookmarks; they choose
between continuing and rehydrating a provider thread, which is the module `WriterSessions`; here the fork of a step
needs a turn its own process collected (`Forkable`, for the production service, which preserves provider handles at a start).
Identifiers are given out in order, as `_next_id` does, so nothing needs symmetry. `_next_id` never runs out; the sets of identifiers do, and where that
would show the action carries the bound `Left`. A run that has come to rest has no step, hence `CHECK_DEADLOCK FALSE`; that the driver itself
never gets stuck is `Accepted` and `DriverRests`.

### The provider's side

`AppServerClient` has the client's registry, its callers (coroutines that the reader resolves and that resume later), the tool calls of turns, and an honest child that
answers in any order. `SharedBroker` has the pump, the sessions with their queues, the claims that attribute events, the barrier and poisoning. `TurnRuntime` has
the router of one run's events, the collectors with timeout, interrupt and proof, forks and the reconciliation after a restart. `woes`, `blame` and `causes` are
history: what happened outside that could explain a failure; they appear in properties only. `FormulaGate` is the gate between a finished output and its seal,
for both policies of the run's manifest. `WriterSessions` is the one question the driver, the control store, the runtime's tables and the provider have to answer together, which thread carries which branch: its record is only
the routes, what each branch's tip decided and who wrote a step, its thread only the steps it was told of or wrote. One action is one write of the control store or one answer of the runtime, so a crash falls between a fork, its
branch and its session, and between a seal, its bookmark and the session. Judging, checks and the gate appear as the choice whether an answer is sealed. `Reviews` follows one check or judgement through its calls, character by character where it quotes: the Checker may put a quotation in
other white space, the host finds it in its source all the same and records the source's characters, and the replay engine compares those. A process that reads an answer after a crash has lost the request, and reads it less strictly. `AccountLogin` has the steps of a publication, each of which may fail or be
the last before a crash, and device logins that live from one request to the next.

### The host and what surrounds a run

`ProfileLock` models files by inode, so that a process can lock a file whose path has been unlinked; `HostLease` a file lock together with the process's set of active
paths; both let a process die at any step. `Launch` has three users of them: a run with a child of its own, an intake turn, and the holder that lends one child to several
runs; a close may time out and leave its child alive, which `leaky` notes. `EventLog` has the file line by line, what of it is synced, and torn lines.

`IntakeSession` has the store, its held submission, receipts and commands; a command that is sent again is answered from its receipt, a create that is sent again with the session as it is now (`CreateAgain`); `IntakeRound` the pure part of a round: parsed, audited, repaired against the decision log, applied.
A question is a wording and whether it blocks; dependencies and semantic keys are left out. `PageIntake` is the page that answers such a session, which other pages move as well; a question there is the revision that
asked it. What it loads and what it sends share one flag, `busy`: the load that a switch of the language runs again ends it while a command is under way, and then a second command can be pressed. So every press has a command and requests of its own, `acts` and `inbox`, and every answer
is read at one step and lands at a later one. A session that is resumed from the list is one of those loads (`LoadBegins`). `RouteTypeset` follows one operation of the typeset layer through its repair rounds; a formula's text is "recorded", "expanded" or a correction, which is within the syntax-only guard or not.
`SiteAccess` splits each request in the transaction that authenticates it and the one in which it acts.

### The service

`RunService` steps from await to await: the factory that makes a runtime, the driver task, commands, releases, the start, close and crash of the service. What an operation does to the record is
only the phase it leaves. `RunStream` follows the events of one run from `_publish` through a bounded queue to a page that reconnects, and the answers of the page's commands, which replace what it shows however late they land. `RunLedger` is the idempotency ledger, line by line, with failed and torn writes; a create of an intake problem
that has its run is answered with that run and keeps no key (`AskForExisting`). Commands without a key are left out there.
`ReportExport` follows the exports of reports. A report is the sequence of its formulas, and a tex is told apart by the formulas it was rendered without: `Marked` are those rendered, and the only ones a compiler's line can be mapped to;
`FallsBack` is a round of the loop that rejects one. A compilation is the set of what is wrong with it, looked at in the order of `compile`. A write is a step, opening and filling the PDF are two, and a crash or an exception may come before each.

## 3. Runs

| Run | Instance | Properties and what they show |
| --- | --- | --- |
| `RecordForks` | three branches and steps, two calls, a check, directions and human revisions | `RouteTree`; `InheritanceSound`: evidence stays visible and provenance true under forks of forks and a verdict that is forked away from |
| `RecordRevisions` | three calls under a cap of one active branch | `RevisionsSound`: one step per call and the cap; `RoutesOnlyGrow` |
| `RecordEvents` | two families: checks around a candidate with retried calls, a judgement, a selection; every kind of event on one call | `TypeOK`, `CandidatesSound`, `SettledStays`, `CandidateFinal` |
| `OrchCrash` | one checked branch, five calls, one retry, every failure, two crashes, no commands | `CallsCounted`: no call is made twice nor too often; `RecoverySound`: nothing is left half done or in error; `AttemptsAgree` |
| `OrchCommands` | three unchecked branches, four calls, alternatives, revisions, two commands out of five, a crash | `Accepted`, `RestsInRestPhase`, `BranchesSound`, `NoCallUnbidden` |
| `OrchLive` | three checked branches, two active, five calls, a retryable failure, two commands, a crash, under `FairSpec` | `DriverRests`, `PauseTakesHold`, `ForksSound` |
| `Provider` | see below | `ClientJust`, `BrokerSound`, `OutcomesTrue`, `GateSound`, `SessionsSound`, `ReviewsSound`, `AccountSound`, one of each part |
| `Host` | see below | `LockImplementsOwner`, `LeaseImplementsOwner`, `OwnersHonest`, `LogIsDurable`, `ChildrenCovered`, `IntakeSound`, `IntakeIsOnce`, `PageSound`, `TypesetSound`, `SiteSound` |
| `Service` | see below | `RunsSound`, `CommandEnds`, `PageFollows`, `LedgerSound`, `ReportSound` |
| `OrchLostRevision` | *violation* | at the call cap no driver is started after a crash, and a revision that the record holds is never applied (`RECORD_SPEC.md:723`) |
| `IntakeStopped` | *violation* | a stopped session with nothing pending cannot be finalized, which the page's test expects (`RunStartForm.test.tsx:365`) |
| `StreamHasNoGap` | *violation* | a full queue makes the page pass over an event (`derivation_api/README.md:149`) |

Several properties are conjunctions of named parts, each commented where it is defined: a component's promise is one property, its parts say what it consists of.

Bounds. The record runs: three branches and three steps give a fork of a fork with a replaced or revised step; three calls a checker call that is retried after a
release, or two writer calls that race a revision; a check on either side of the candidate. The runs use the 1.1 rules; the theorems cover both record versions.
The orchestrator: `MaxCalls` is both the code's cap and what keeps a run finite: a run at its cap exercises the sweep for zero-call work. Two crashes let the
second fall into the repair of the first; two commands give a pause and its resume, or an edit and a pause; three branches an alternative of an alternative.

`Provider`: two threads, two turns and three requests let responses, events, reads and forks overtake each other; two sessions with three calls and queues of two fill a queue, and leave one session
to suffer the other's error; the gate has two slots, four outputs, one format retry, two rewrites, two normalizers and a crash; two branches, two steps and three threads, on a shared server whose handles are kept, let an alternative or a revision be opened, crashed between any two of its writes, and rehydrated; a source of three characters with its white space outside or inside
quoted by up to three others, one retry and a crash let a quotation be respaced, invented and read twice; two logins and two faults let a publication fail while another login is open. `Host`: three processes and two inodes are what it takes to unlink a file that another has re-created, each with one slot (a second user of a lease inside a process is left to `LeaseRefinement`, which holds for any slots); two intake keys and decisions, two rounds, two rejections and three revisions
reach a stopped, a finalized and a replaced session, and once the create was sent again after a later command only one of the keys is used (`IntakeBound`); one route with two formulas (one of them quoted), two repair rounds and three calls; a page with one decision, three revisions of the session, two presses and one of: a lost answer, a closed page, a load that runs again. The theorem has no such bounds, and its proof does not count losses; a site with two users, both administrators, two overlapping requests and two ticks. `Service`: two runs, so that one of them can wait for the profile the other holds; a queue of two and five events,
so that a queue fills, closes and continues after a restart, and a command given before the third (`EarlyCommand`), so that its answer can be older than two events; two create keys for one intake problem with one other configuration of it, one command key, and four ledger lines, three once a second create was accepted (`LedgerBound`); two exports of the same
report at one instant, with two directories, a timeout and a failing compilation, and reports that fall back twice or show every way a formula is not rendered. Symmetry: sessions of the broker; decisions and keys of the intake, which are never compared; no temporal property is checked in
`Provider`, and those of `Host` are safety properties, for which symmetry is sound.

Fairness. `FairSpec` of the orchestrator: the driver is an asyncio task that is always rescheduled, a provider turn ends
because the provider bounds it, and a stopped service is started again: weak fairness of each. Crashes and commands are not fair. A call
whose provider handle was lost in a crash is left open by `reconcile_in_flight`, which then waits for ever; both
liveness properties except it (`Lost`). `PauseTakesHold` also excepts a driver that ends in an error, and one that stops because a restart finds the calls used up or for a failed check
with another branch active or its own not yet paused: there the pause stays requested without effect (see 5). `AllFairness` of the service: factories, releases, driver tasks and waiting
commands end (weak), the browser reconnects to an ended stream, the service comes back, and a connection that is made again and again delivers in the end (strong, for
`Hears`). Pressing buttons, crashes and disconnections are not fair.

`RestsInRestPhase` and `NoDriverError` are properties of their instances: they hold without the features that 5 describes. `PauseStartsNoCall` exempts the driver that has just
opened an alternative (`driver.at = "forked"`): it goes on to its parent's next writer call without looking at the pause again, see 5.

## 4. Proofs

The theorems hold for all values of the constants that satisfy the assumptions named in the modules (finite sets, distinct names, limits that are naturals, an absent value that is none of the values it is absent for).
Every safety theorem follows one pattern: an inductive invariant, checked first by TLC on the instance of the run, a lemma per action or group of actions that it is preserved, and a temporal step.

`RecordProofs`

* `TypeCorrect`: the handlers are functions on tables, so the proof is one lemma about adding an entry and one about updating one, and a case per action.
* `CandidatesStaySound`, `CandidatesAreFinal`. That no required check escapes a candidate is not
  inductive: a check is created on a step and a step may already be part of a
  candidate, so `CandidateInv` adds what a candidate froze and what a check may still become.
* `RoutesFormATree`, `RoutesGrow`. `RouteInv` relates every route
  to the position each step recorded when it was sealed: equal steps have equal
  positions and equal predecessors, forks copy a prefix.
* `RevisionsStaySound`, from `RevInv`: a sealed step lies at its slot of the branch it was sealed in, and a call that sealed a step of its own branch
  was started for that very slot, which no later step of the branch can have; a revision takes a call that has sealed nothing and parks one branch for the one it opens.
* `SettledStaysSettled`, from `TextInv` (a step that cites a call has that call's effective output, and the call has finished): a call that sealed a step is never normalized again, a new step copies the output in the event
  that seals it, and every event that moves a branch either asks for an active one or looks up a transition, of which "killed" has none.
* `InheritanceStaysSound`, from `LineageInv`: what a branch inherits is a prefix of its parent's route, so what a check quoted lies on every route that holds the checked step, and a branch reported model-only has no human ancestor and no step from a branch
  that has one. The proof showed that `EvidenceVisible` is false of v1 verdicts other than a hard defect, whose quotations the code does not examine (`replay.py:1003`), and that it needs the code's rule that a quotation names the kind of its source (`KindAssumption`); the property says so now.

`OrchProofs`

* `DriverWritesRecords`: `OrchSpec => Spec`. The actions of the orchestrator reuse those of `RecordContract`; what is left
  to show is that each is one of the steps of `Next`, with arguments in its sets. That needs
  `OrchInv`: where the driver stands, it has what it stands on
  (`OnInv`); every finished call has its answer at the provider, also after a crash, and a completed answer
  can be recorded (`TurnInv`); routes hold sealed steps.
* `RunsKeepRecordsSound`: hence the theorems about records hold of every run.
* `AttemptsMatchRecord`: `AttemptsAgree`. `MarkInv` says which row the store may lack: that of a call between its started event and its
  row, or one a crash left without. In both cases no call was started later (`OrderInv`: identifiers
  grow), so counting its siblings in the store or, at a restart, in the record gives its rank.
* `BranchesStaySound`: `BranchesSound`, from `BranchInv`. `BornInv` says what a branch was opened for, and that only one was for each step's alternative or edit; `SweepInv` that the driver looks at a branch it has picked only while that is still
  what the record asks for; `InheritInv` and `ReplacedInv` that a human revision holds what it inherited and the human's step before any call is made on it, also after a crash between the two.
* `CallsStayCounted` and `NoCallStartsUnbidden`: `CallsCounted` and `NoCallUnbidden`, from `CallInv`. A call is started from a state the driver looked at some steps before, with awaits in between, so the parts say what stays true
  until it is: at most one call is in flight, and for a branch that is still active (`FlightInv`); a branch that is done is never opened again (`TodoInv`, `NoReturn`), so a call that completed or revised its branch leaves no open slot (`RetiredInv`); a call that
  another one followed on its target had ended, unanswered (`HistoryInv`); and where the driver stands between a check or fork and the call after it, no action waits for its effect and the slot is open (`QuietInv`). With the repairs that come before a
  decision these give `StartsQuiet`: the state a call is started from. The budget then follows from `MayRetry`, counted over the finite set of calls on the check.

The others

* `HostProofs`: `LockRefinement`, `LeaseRefinement` and `LogRefinement` are refinements of `OneOwner` and `DurableLog`, step by step; the lock's invariant says which inode the path names, and who may still unlink it. `OwnersThm`
  takes both invariants, for `OwnersHonest`: the path of a held lock, the payload of a lease, and who is told that a run is in use. `ChildrenCoveredThm` from `LaunchInv`, which ties each stage of a launch to what it holds.
* `ServiceProofs`: `RunsThm` from `ServiceInv`, which relates the lock, the driver, the command and the runtime of a run. The proof found that the model had lost a manifest error at a reload; the model was corrected.
* `LedgerProofs`: `LedgerThm` includes the refinement of `OnceOnly`. Its invariant ties restarts together by the last line of a key, which is what a start reads; a second one, about the runs themselves, gives one run per intake problem: a run that was shown, or is
  not disowned, is in `_runs` while the service is up, and a create is accepted only when none is there for its problem. `ReportThm` from `ReportInv`: what an export in flight
  knows of its own bundle at each step. The loop always ends in its `break`, so that the last rendering is the one on disk: the rejected formulas are as many as the rounds, and with all of them rejected there is none left to name.
* `IntakeProofs`: `IntakeThm` and, for the refinement of `OnceOnly`, `IntakeOnceThm`, from `IntakeInv`. The proof found that a session the user finalized can go on asking past its rejection budget after a correction: `AskingEnds` says so now.
  `PageThm` from `PageInv`, about answers that may come late, twice or never. Requests are taken in the order they were sent, so the one the page waits for is the last under way, and everything before it is for the session the page has
  seen; a key whose request was refused has not landed, and never will, because its revision has passed; so only one of the two tries of a press can land; and what is on the sheet was typed for the question it stands under. Several presses may be under way: what is said of
  one speaks of its own requests, its own receipts and the session only, so that a step of another press leaves it alone except where it moves the session forward.
* `ProviderProofs`: `GateThm` from `GateInv`, for any budgets, normalizers and crashes. `SessionsThm` from `SessionsInv`, which says of every point between two changes of the four memories what each of them knows: the thread behind a marked
  step begins with the route up to that step (`MarkInv`), the thread of a branch's session carries its route, and the runtime would take it (`SessionInv`), a bound branch has had a turn (`BoundInv`), a fork's thread is nobody's (`ForkedInv`). The proof
  found two overlapping cases in the model of a restart, which are disjoint now. `ReviewsThm` from `ReviewInv`: every call but the last was given up for a reason that allows another; a durable answer is good, which is more than
  what its reader asked of it and exactly what completing it again needs; and the outcome is a copy of it. `EvidenceStands` then needs a theorem about texts, `SpanIs`: if a quotation occurs in a source when both are read with normal spaces, the
  source's characters between the places of its first and last are a text of the source that reads like the quotation. It follows from the order of the places (`PlacesRise`), each of which is shown by the least counterexample, a form of induction
  the provers can use.
* `AroundProofs`: `SiteThm` from `SiteInv`, `AccountThm` from `AccountInv`, and `TypesetThm` from `TypesetInv`: the calls of an attempt are booked in the journal or lost with a slip, what has still no layer is
  what the attempt has still to do, and a formula that is final has the text the last compiled document had of it.

Only model-checked: liveness (`DriverRests`, `PauseTakesHold`, `CommandEnds`, and `PageFollows`, which contains some), `Accepted`, which speaks of enabled steps;
`RestsInRestPhase` and the parts `NothingHalfDone`, `NoDriverError` of `RecoverySound`, which are not true of every instance; `ForksSound`,
`ClientJust`, `BrokerSound` and `OutcomesTrue`. `BrokerSound` compares filtered sequences and `OutcomesTrue` what recursive functions make of a log, which would need an induction over sequences that the installed provers cannot instantiate. `ClientJust`
has no such obstacle; it would need an invariant of the whole order of the wire, which is not written.

## 5. What the models show beyond the runs

Each of the following is a behaviour of a model as it stands and can be read off its actions, or was found when the code was read for it; no property of a run is about it.

Orchestrator and record

* A required check whose instrument failed stops the driver (`orchestrator.py:171`). With another branch active, or after a crash between the verdict and the pause of its own branch, the run stays in the exploring phase with no driver: a resume is refused, a pause takes no hold, and a restart changes nothing, although a failed checker call pauses its branch and a resume allows a new attempt (`RECORD_SPEC.md:922`).
* A crash inside a resume, and a second resume, leave an action whose repair raises (`orchestrator.py:2748`, against the docstring at `:2470`).
* A check that is still open when a conditional candidate is declared, and later ends as an objection, is missing from its `unresolved_check_ids` (`replay.py:1040`, against `RECORD_SPEC.md:758`).
* After a restart, a fork of an older step may raise `RuntimeInvariantError`
  (`app_server_runtime.py:1092`), which the driver does not catch, although an optional alternative must not
  end the run (`orchestrator.py:1940`). The guard is `Forkable`; without a crash it is always true. In `WriterSessions` it is `ForkRaises`, and takes a step sealed and bookmarked, a restart, a fork
  refused because the new process has not loaded the thread, and a writer turn that loads it and fails.
* A crash between `attach_invocation` and `upsert_branch` of the first turn of a branch (`orchestrator.py:873`) leaves a thread that the runtime, after the restart, does not know as that branch's: if the turn is recovered
  and sealed, the next turn or fork is refused with an error nobody catches (`unbooked`, which `SessionsSound` excepts).
* `resume` does not read `max_active_branches` (`orchestrator.py:309`): resuming a branch while the others fill
  the cap makes the driver append an event the replay engine refuses.
* A crash after a call was started and before its provider handle was attached (`orchestrator.py:624`) leaves a call that recovery waits for without end.
* A crash after the status change that completed the last branch leaves a run that is
  ready for review, so no driver is started (`service.py:2156`) and no candidate is declared.
* A pause accepted while the provider opens an alternative lets the parent's next writer call start
  (`orchestrator.py:760`), although it should take effect at the next sealed boundary (`service.py:1526`).
* At the call cap the service accepts an expansion or revision (`service.py:1638`), but the driver raises and the run stays in error (`fake_service.py:1771`, the service for tests, keeps it in review). An edit that is recorded
  and whose branch a crash kept from being opened leaves a run that looks ready for review; the next edit appends another action, and the driver then errors for ever (`orchestrator.py:2732`).
* A human resume may set a branch to `completed` (`replay.py:665`), which `RECORD_SPEC.md:1049` denies. The provenance of a candidate is computed from its branch (`replay.py:1193`), so it changes with later actions on
  the branch, although a candidate is fixed when it is declared (`RECORD_SPEC.md:441`).
* Formula gate: a newer normalizer that comes between the audit of an output and the record of its edits makes every later start raise (`FailsOnlyAfterUpgrade` is the exact condition). Under v1 a crash between an accepted recheck and the drive leaves a run whose
  view says that resume cannot help, although it would seal the output (`service.py:2430`).

Provider

* A turn that completes just as its time runs out may be told as a timeout with proof (`app_server_runtime.py:1195`), and a timed-out request becomes a retryable error (`:2531`).
* A refused fork whose turns are restated ends the router, although "One refused fork, not a broken provider" (`app_server_runtime.py:1121`). A late event for a released session poisons the broker for all.
* A tool call that is outstanding when its turn ends, or a snapshot filed after the turn it shows as running has ended, fails the client.

Service and page

* An errored run keeps its child until shutdown. A terminal release that fails once stops the whole service from taking commands. A resume refused while the driver finishes burns its key. A pause accepted while the
  run is typeset or released stays set.
* A create whose manifest is on disk may still fail (`service.py:1350`): its run leaves `_runs`, so a create with another key makes a second run for the same intake problem; the next start loads both, and from then on every create of the problem raises (`service.py:1275`). `disowned` notes it.
* A create that is shown the run of its problem keeps no key: the key can then be used with another payload, and a repetition is answered with the view of that moment (`service.py:1286`).
* An fsync that fails after the ledger's accept line was written makes a retry append a second line with another run id, and the next start refuses the ledger; so does a torn line. A failed command's key stays pending for ever.
* The answer of a command replaces the view of the run without a look at what was heard while it was under way (`useDerivationRun.ts:111`): until the next event the page shows an older one. It is never older than what was shown when the command was given (`AnswersNoOlder`), and what the page has *heard* is unaffected.
* A switch of the interface's language runs the load of an intake session again (`useProblemIntake.ts:303`), also while a command is under way: when it ends, the page is no longer busy and takes a second command (`:325`), and of several answers the last to come is shown, which may be an older
  session (`:315`). `NeverGoesBack` says how far: not behind what was shown when that answer was asked for.
* `useDerivationRun.ts:49` gives the stream the number of record events as the last event id, but the stream counts its own ids (`service.py:2618`).
* Intake: `replace_thread` discards a failed submission that is held. On the page, a correction whose answer is lost twice and that is pressed again is applied twice; a confirmation
  after a conflict confirms the refreshed candidate that nobody has seen (`useProblemIntake.ts:692`, against `derivation_app/README.md:187`).
* Typesetting: typeset calls count against `max_model_calls` in the typeset layer only (`route_typeset.py:722`); a torn journal line that is continued is counted once; an infrastructure error in a later round marks a formula that had failed as not compiled.
* Reports: `read_pdf` asks for the PDF only, so a PDF is downloadable while it is being written, and after a crash also a part of one (`reporting.py:1215`); a bundle left without a manifest is never cleaned up. A compiler may name the lines of another formula than the one to
  blame, which is then shown as text: `_formula_at_line` counts lines with `splitlines`, which also ends a line at U+2028, and the compiler does not (`reporting.py:238`).
* Account: when the backup of a credential fails before its move, the clean-up unlinks the credential in place (`account.py:538`); `spoiled` notes it and `NothingLost` excepts it. A crash between backup and replacement signs the account out, and the credential is in the backup directory.

## 6. Not modelled

* Rendering, macro expansion, prompts and the normalization of formulas are functions of their input: no state of theirs is read again. `launch_gate.py`, the catalog and the
  validation of product profiles are checks at start.
* The archive of typeset layers, the tenant services of a site, rate limits, password hashing.
* The in-memory service for tests (`fake_service.py`, `fake.py`).
* The typed parts of the protocol, redaction and error texts.
