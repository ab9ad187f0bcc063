---------------------------- MODULE ServiceProofs ----------------------------
(***************************************************************************)
(* What holds of the runs of a service, for any number of runs and however *)
(* often the service is closed, crashes and starts.                        *)
(***************************************************************************)
EXTENDS RunService, TLAPS

-----------------------------------------------------------------------------
(* Each run keeps its own books.  Who waits for the lock while there is an *)
(* orchestrator has been given it; a command that waits has no driver      *)
(* beside it but one that it scheduled; a driver on its way out has left   *)
(* the exploration.                                                        *)

RuntimeKept(c) ==
    /\ c.orch => c.runtime
    /\ c.child => c.runtime
    /\ c.runtime => c.known
    /\ ~c.known => c.driver = "none" /\ c.command = "none"
    /\ c.orch /\ ~c.child => c.driver = "none" /\ c.at # "ensure"
    /\ c.driver = "operation" => c.orch
    /\ c.driver \in {"typeset", "release", "releasing"} /\ c.op # "typeset" => c.orch
    /\ c.driver = "scheduled" /\ c.op \in {"drive", "resume", "branch"} => c.orch

LockKept(c) ==
    /\ c.lock = "command" => c.at = "ensure"
    /\ c.lock = "driver" => c.driver \in {"ensure", "releasing"}
    /\ c.driver = "releasing" => c.lock = "driver" /\ c.runtime
    /\ c.orch /\ c.at = "ensure" => c.lock = "command"
    /\ c.orch /\ c.driver = "ensure" => c.lock = "driver"

CommandKept(c) ==
    /\ c.at = "none" <=> c.command = "none"
    /\ c.at = "undo" => c.command = "create"
    /\ c.at = "abort" => c.command = "interrupt"
    /\ c.at = "wait" => c.command = "branch"
    /\ c.command = "create" =>
          c.driver = "none" /\ c.phase = "exploring" /\ c.at \in {"ensure", "undo"} /\ (c.at = "ensure" => ~c.runtime)
    /\ c.command = "interrupt" => c.driver = "none" /\ c.calling
    /\ c.command = "resume" => c.driver = "none" /\ c.phase = "paused"
    /\ c.command = "pause" => \/ c.phase = "exploring"
                              \/ c.orch /\ (c.driver # "none" \/ c.phase = "paused" \/ c.error # "none")
    /\ c.command = "branch" /\ c.at = "ensure" => c.driver = "none" /\ c.phase = "review"
    /\ c.at = "wait" => \/ c.driver \in {"scheduled", "operation"} /\ c.op = "branch" /\ c.phase = "review"
                        \/ c.driver = "none" /\ c.error # "none"

DriverKept(c) ==
    /\ c.calling => c.phase = "exploring"
    /\ c.driver = "none" <=> c.op = "none"
    /\ c.driver \notin {"none", "scheduled"} => c.shown # "none"
    /\ c.driver \in {"typeset", "release", "releasing"} => c.phase # "exploring"
    /\ c.op = "typeset" => c.phase # "exploring" /\ c.shown = "recovering"
    /\ c.driver = "releasing" => c.phase = "review"
    /\ c.driver = "operation" => c.op # "typeset"
    /\ c.driver = "ensure" => c.op \in {"reconcile", "recover", "typeset"}
    /\ c.driver \in {"scheduled", "ensure"} /\ c.op \in {"drive", "reconcile", "recover"} => c.phase = "exploring"
    /\ c.driver = "scheduled" /\ c.op = "resume" => c.phase = "paused"
    /\ c.driver = "scheduled" /\ c.op = "branch" => c.at = "wait"

\* A context, field by field.
Field == {"known", "saved", "phase", "calling", "pause", "error", "interrupted", "shown", "runtime", "orch", "child",
          "lock", "driver", "op", "command", "at"}
Shaped(c) ==
    /\ c = [x \in Field |-> c[x]]
    /\ c.known \in BOOLEAN /\ c.saved \in BOOLEAN /\ c.calling \in BOOLEAN /\ c.pause \in BOOLEAN
    /\ c.interrupted \in BOOLEAN /\ c.runtime \in BOOLEAN /\ c.orch \in BOOLEAN /\ c.child \in BOOLEAN
    /\ c.phase \in {"exploring", "paused", "review"}
    /\ c.error \in {"none", "memory", "manifest"}
    /\ c.shown \in {"none", "exploring", "recovering", "interrupted", "error"}
    /\ c.lock \in {"free", "command", "driver"}
    /\ c.driver \in {"none", "scheduled", "ensure", "operation", "typeset", "release", "releasing"}
    /\ c.op \in {"none", "drive", "resume", "branch", "reconcile", "recover", "typeset"}
    /\ c.command \in Commands \cup {"none"} /\ c.at \in {"none", "ensure", "abort", "wait", "undo"}

RunKept(c) == Shaped(c) /\ RuntimeKept(c) /\ LockKept(c) /\ CommandKept(c) /\ DriverKept(c)

\* What a run owes while the service is at s, and f says whether a close has failed.
RestKept(c, s, f) ==
    /\ s # "up" => c.command = "none"
    /\ s \in {"closing", "down"} => c.driver = "none"
    /\ s = "down" => ~c.runtime
    /\ ~f => /\ c.orch => c.child
             /\ c.driver = "none" /\ Phase(c) = "review" => ~c.child
             /\ s = "up" /\ c.driver = "none" /\ c.known /\ Phase(c) \in {"exploring", "recovering"} =>
                   c.calling \/ c.command = "create"

Kept(c, s, f) == RunKept(c) /\ RestKept(c, s, f)

ServiceInv ==
    /\ service \in {"down", "up", "settling", "closing"} /\ closeFailed \in BOOLEAN /\ todo \subseteq Run
    /\ ctx = [r \in Run |-> ctx[r]]
    /\ \A r \in Run : Kept(ctx[r], service, closeFailed)

-----------------------------------------------------------------------------
(* What the helpers change in a context.                                   *)

Rec(c) == c = [x \in Field |-> c[x]]

\* d is a context that differs from c in the fields S at most.
Like(c, d, S) == Rec(d) /\ \A x \in Field \ S : d[x] = c[x]

LEMMA KeptIsRec == ASSUME NEW c, NEW s, NEW f, Kept(c, s, f) PROVE Rec(c)
BY DEF Kept, RunKept, Shaped, Rec

LEMMA AbsentIs ==
  LET d == Absent
  IN  /\ Rec(d) /\ ~d.known /\ ~d.calling /\ ~d.interrupted /\ ~d.runtime /\ ~d.orch /\ ~d.child
      /\ {d.known, d.saved, d.calling, d.pause, d.interrupted, d.runtime, d.orch, d.child} \subseteq BOOLEAN
      /\ d.phase = "exploring" /\ d.error = "none" /\ d.shown = "none" /\ d.lock = "free"
      /\ d.driver = "none" /\ d.op = "none" /\ d.command = "none" /\ d.at = "none"
BY DEF Absent, Rec, Field

LEMMA UnlockedIs ==
  ASSUME NEW c, Rec(c)
  PROVE  LET d == Unlocked(c)
         IN  Like(c, d, {"lock"})
             /\ d.lock = IF c.driver = "ensure" THEN "driver" ELSE IF c.at = "ensure" THEN "command" ELSE "free"
BY DEF Unlocked, Like, Rec, Field

LEMMA ScheduledIs ==
  ASSUME NEW c, Rec(c), NEW op
  PROVE  LET d == Scheduled(c, op) IN Like(c, d, {"driver", "op"}) /\ d.driver = "scheduled" /\ d.op = op
BY DEF Scheduled, Like, Rec, Field

LEMMA StoppedIs ==
  ASSUME NEW c, Rec(c)
  PROVE  LET d == Stopped(c) IN Like(c, d, {"driver", "op"}) /\ d.driver = "none" /\ d.op = "none"
BY DEF Stopped, Like, Rec, Field

LEMMA FailedIs ==
  ASSUME NEW c, Rec(c)
  PROVE  LET d == Failed(c)
         IN  Like(c, d, {"driver", "op", "error", "shown"})
             /\ d.driver = "none" /\ d.op = "none" /\ d.error = "manifest" /\ d.shown = "error"
BY DEF Failed, Stopped, Like, Rec, Field

LEMMA FinishedIs ==
  ASSUME NEW c, Rec(c)
  PROVE  LET d == Finished(c)
         IN  Like(c, d, {"driver", "op", "shown"}) /\ d.driver = "none" /\ d.op = "none" /\ d.shown = "none"
BY DEF Finished, Stopped, Like, Rec, Field

LEMMA CancelledIs ==
  ASSUME NEW c, Rec(c)
  PROVE  LET d == Cancelled(c)
         IN  Like(c, d, {"driver", "op", "lock"}) /\ d.driver = "none" /\ d.op = "none"
             /\ (c.lock # "driver" => d.lock = c.lock)
             /\ (c.lock = "driver" => d.lock = IF c.at = "ensure" THEN "command" ELSE "free")
<1>1. CASE c.lock = "driver" BY <1>1, StoppedIs, UnlockedIs DEF Cancelled, Like, Rec, Field
<1>2. CASE c.lock # "driver" BY <1>2, StoppedIs DEF Cancelled, Like, Rec, Field
<1> QED BY <1>1, <1>2

LEMMA OnwardDriverIs ==
  ASSUME NEW c, Rec(c)
  PROVE  LET d == Onward(c, "driver")
         IN  Like(c, d, {"driver"}) /\ d.driver = IF c.op = "typeset" THEN "typeset" ELSE "operation"
BY DEF Onward, Like, Rec, Field

\* How far a command has come once its run has an orchestrator.
LEMMA OnwardCreateIs ==
  ASSUME NEW c, Rec(c), c.command = "create"
  PROVE  LET d == Onward(c, "command")
         IN  /\ Like(c, d, {"driver", "op", "saved", "shown", "command", "at"})
             /\ d.driver = "scheduled" /\ d.op = "drive"
             /\ d.saved \in BOOLEAN /\ d.shown = "exploring" /\ d.command = "none" /\ d.at = "none"
<1> DEFINE e == Scheduled(c, "drive")
<1>1. Like(c, e, {"driver", "op"}) /\ e.driver = "scheduled" /\ e.op = "drive" BY ScheduledIs
<1>2. Onward(c, "command") = [e EXCEPT !.saved = TRUE, !.shown = "exploring", !.command = "none", !.at = "none"]
  BY DEF Onward
<1> HIDE DEF e
<1> QED BY <1>1, <1>2 DEF Like, Rec, Field

LEMMA OnwardPauseIs ==
  ASSUME NEW c, Rec(c), c.command = "pause"
  PROVE  LET d == Onward(c, "command")
         IN  Like(c, d, {"pause", "command", "at"}) /\ d.pause \in BOOLEAN /\ d.command = "none" /\ d.at = "none"
BY DEF Onward, Like, Rec, Field

LEMMA OnwardResumeIs ==
  ASSUME NEW c, Rec(c), c.command = "resume"
  PROVE  LET d == Onward(c, "command")
         IN  /\ Like(c, d, {"driver", "op", "command", "at"}) /\ d.command = "none" /\ d.at = "none"
             /\ (c.driver = "none" => d.driver = "scheduled" /\ d.op = "resume")
             /\ (c.driver # "none" => d.driver = c.driver /\ d.op = c.op)
<1> DEFINE e == IF c.driver = "none" THEN Scheduled(c, "resume") ELSE c
<1>1. /\ Like(c, e, {"driver", "op"})
      /\ (c.driver = "none" => e.driver = "scheduled" /\ e.op = "resume")
      /\ (c.driver # "none" => e.driver = c.driver /\ e.op = c.op)
  BY ScheduledIs DEF Like
<1>2. Onward(c, "command") = [e EXCEPT !.command = "none", !.at = "none"] BY DEF Onward
<1> HIDE DEF e
<1> QED BY <1>1, <1>2 DEF Like, Rec, Field

LEMMA OnwardBranchIs ==
  ASSUME NEW c, Rec(c), c.command = "branch", c.driver = "none"
  PROVE  LET d == Onward(c, "command")
         IN  Like(c, d, {"driver", "op", "at"}) /\ d.driver = "scheduled" /\ d.op = "branch" /\ d.at = "wait"
<1> DEFINE e == Scheduled(c, "branch")
<1>1. Like(c, e, {"driver", "op"}) /\ e.driver = "scheduled" /\ e.op = "branch" BY ScheduledIs
<1>2. Onward(c, "command") = [e EXCEPT !.at = "wait"] BY DEF Onward
<1> HIDE DEF e
<1> QED BY <1>1, <1>2 DEF Like, Rec, Field

LEMMA OnwardInterruptIs ==
  ASSUME NEW c, Rec(c), c.command = "interrupt"
  PROVE  LET d == Onward(c, "command") IN Like(c, d, {"at"}) /\ d.at = "abort"
BY DEF Onward, Like, Rec, Field

LEMMA EnsureIs ==
  ASSUME NEW c, Rec(c), NEW who \in {"command", "driver"}
  PROVE  LET d == Ensure(c, who)
         IN  /\ c.orch => d = Onward(c, who)
             /\ ~c.orch => /\ Like(c, d, {"at", "driver", "lock"})
                           /\ d.at = IF who = "command" THEN "ensure" ELSE c.at
                           /\ d.driver = IF who = "driver" THEN "ensure" ELSE c.driver
                           /\ d.lock = IF c.lock = "free" THEN who ELSE c.lock
BY DEF Ensure, Like, Rec, Field

\* What an exception leaves of a run.
LEMMA RaisedIs ==
  ASSUME NEW c, Rec(c)
  PROVE  /\ c.op = "typeset" => /\ Like(c, Raised(c, "driver"), {"driver"}) /\ Raised(c, "driver").driver = "release"
         /\ c.op # "typeset" => Raised(c, "driver") = Failed(c)
         /\ c.command = "create" /\ c.runtime =>
               Like(c, Raised(c, "command"), {"at"}) /\ Raised(c, "command").at = "undo"
         /\ ~(c.command = "create" /\ c.runtime) =>
               /\ Like(c, Raised(c, "command"), {"command", "at", "known"})
               /\ Raised(c, "command").command = "none" /\ Raised(c, "command").at = "none"
               /\ Raised(c, "command").known = (c.command # "create")
BY DEF Raised, Like, Rec, Field

-----------------------------------------------------------------------------
(* The driver's steps. *)

LEMMA CallStartsKept ==
  ASSUME NEW c, NEW s, NEW f \in BOOLEAN, Kept(c, s, f), c.driver = "operation", c.phase = "exploring"
  PROVE  Kept([c EXCEPT !.calling = TRUE], s, f)
<1> DEFINE d == [c EXCEPT !.calling = TRUE]
<1>1. Like(c, d, {"calling"}) /\ d.calling /\ d.calling \in BOOLEAN
  BY KeptIsRec DEF Like, Rec, Field
<1> HIDE DEF d
<1>2. Kept(d, s, f)
    BY <1>1 DEF Kept, RunKept, Shaped, RuntimeKept, LockKept, CommandKept, DriverKept, RestKept, Phase, Like, Rec,
        Field, Commands
<1> QED BY <1>2 DEF d

LEMMA CallEndsKept ==
  ASSUME NEW c, NEW s, NEW f \in BOOLEAN, Kept(c, s, f), c.driver = "operation"
  PROVE  Kept([c EXCEPT !.calling = FALSE], s, f)
<1> DEFINE d == [c EXCEPT !.calling = FALSE]
<1>1. Like(c, d, {"calling"}) /\ ~d.calling /\ d.calling \in BOOLEAN
  BY KeptIsRec DEF Like, Rec, Field
<1> HIDE DEF d
<1>2. Kept(d, s, f)
    BY <1>1 DEF Kept, RunKept, Shaped, RuntimeKept, LockKept, CommandKept, DriverKept, RestKept, Phase, Like, Rec,
        Field, Commands
<1> QED BY <1>2 DEF d

LEMMA FailedKept ==
  ASSUME NEW c, NEW s, NEW f \in BOOLEAN, Kept(c, s, f), c.driver = "operation"
  PROVE  Kept(Failed(c), s, f)
<1> DEFINE d == Failed(c)
<1>1. Like(c, d, {"driver", "op", "error", "shown"})
      /\ d.driver = "none" /\ d.op = "none" /\ d.error = "manifest" /\ d.shown = "error"
  BY KeptIsRec, FailedIs
<1> HIDE DEF d
<1>2. Kept(d, s, f)
    BY <1>1 DEF Kept, RunKept, Shaped, RuntimeKept, LockKept, CommandKept, DriverKept, RestKept, Phase, Like, Rec,
        Field, Commands
<1> QED BY <1>2 DEF d

LEMMA OperationEndsKept ==
  ASSUME NEW c, NEW s, NEW f \in BOOLEAN, Kept(c, s, f), c.driver = "operation", ~c.calling,
         NEW phase \in {"paused", "review"}, c.phase = "exploring"
  PROVE  Kept([c EXCEPT !.driver = "typeset", !.phase = phase], s, f)
<1> DEFINE d == [c EXCEPT !.driver = "typeset", !.phase = phase]
<1>1. Like(c, d, {"driver", "phase"}) /\ d.driver = "typeset" /\ d.phase = phase
  BY KeptIsRec DEF Like, Rec, Field
<1> HIDE DEF d
<1>2. Kept(d, s, f)
    BY <1>1 DEF Kept, RunKept, Shaped, RuntimeKept, LockKept, CommandKept, DriverKept, RestKept, Phase, Like, Rec,
        Field, Commands
<1> QED BY <1>2 DEF d

LEMMA BranchOpensKept ==
  ASSUME NEW c, NEW s, NEW f \in BOOLEAN, Kept(c, s, f), c.driver = "operation", c.op = "branch", c.phase = "review"
  PROVE  Kept([c EXCEPT !.phase = "exploring", !.command = IF @ = "branch" THEN "none" ELSE @,
                        !.at = IF @ = "wait" THEN "none" ELSE @], s, f)
<1> DEFINE d == [c EXCEPT !.phase = "exploring", !.command = IF @ = "branch" THEN "none" ELSE @,
                          !.at = IF @ = "wait" THEN "none" ELSE @]
<1>1. /\ Like(c, d, {"phase", "command", "at"}) /\ d.phase = "exploring"
      /\ d.command = IF c.command = "branch" THEN "none" ELSE c.command
      /\ d.at = IF c.at = "wait" THEN "none" ELSE c.at
  BY KeptIsRec DEF Like, Rec, Field
<1> HIDE DEF d
<1>2. Kept(d, s, f)
    BY <1>1 DEF Kept, RunKept, Shaped, RuntimeKept, LockKept, CommandKept, DriverKept, RestKept, Phase, Like, Rec,
        Field, Commands
<1> QED BY <1>2 DEF d

LEMMA TypesetKept ==
  ASSUME NEW c, NEW s, NEW f \in BOOLEAN, Kept(c, s, f), c.driver = "typeset"
  PROVE  Kept([c EXCEPT !.driver = "release"], s, f)
<1> DEFINE d == [c EXCEPT !.driver = "release"]
<1>1. Like(c, d, {"driver"}) /\ d.driver = "release"
  BY KeptIsRec DEF Like, Rec, Field
<1> HIDE DEF d
<1>2. Kept(d, s, f)
    BY <1>1 DEF Kept, RunKept, Shaped, RuntimeKept, LockKept, CommandKept, DriverKept, RestKept, Phase, Like, Rec,
        Field, Commands
<1> QED BY <1>2 DEF d

LEMMA EnsureTypesetKept ==
  ASSUME NEW c, NEW s, NEW f \in BOOLEAN, Kept(c, s, f), c.driver = "typeset", c.op = "typeset", ~c.runtime, s = "up"
  PROVE  Kept(Ensure(c, "driver"), s, f)
<1> DEFINE d == Ensure(c, "driver")
<1>1. /\ Like(c, d, {"driver", "lock"}) /\ d.driver = "ensure"
      /\ d.lock = IF c.lock = "free" THEN "driver" ELSE c.lock
  <2>1. Rec(c) /\ ~c.orch BY KeptIsRec DEF Kept, RunKept, RuntimeKept
  <2>2. Like(c, d, {"at", "driver", "lock"}) /\ d.at = c.at /\ d.driver = "ensure"
        /\ d.lock = IF c.lock = "free" THEN "driver" ELSE c.lock
    BY <2>1, EnsureIs
  <2> HIDE DEF d
  <2> QED BY <2>2 DEF Like, Field
<1> HIDE DEF d
<1>2. Kept(d, s, f)
    BY <1>1 DEF Kept, RunKept, Shaped, RuntimeKept, LockKept, CommandKept, DriverKept, RestKept, Phase, Like, Rec,
        Field, Commands
<1> QED BY <1>2 DEF d

LEMMA FinishedKept ==
  ASSUME NEW c, NEW s, NEW f \in BOOLEAN, Kept(c, s, f), c.driver = "release", c.phase = "review" => ~c.runtime
  PROVE  Kept(Finished(c), s, f)
<1> DEFINE d == Finished(c)
<1>1. Like(c, d, {"driver", "op", "shown"}) /\ d.driver = "none" /\ d.op = "none" /\ d.shown = "none"
  BY KeptIsRec, FinishedIs
<1> HIDE DEF d
<1>2. Kept(d, s, f)
    BY <1>1 DEF Kept, RunKept, Shaped, RuntimeKept, LockKept, CommandKept, DriverKept, RestKept, Phase, Like, Rec,
        Field, Commands
<1> QED BY <1>2 DEF d

LEMMA ReleasingKept ==
  ASSUME NEW c, NEW s, NEW f \in BOOLEAN, Kept(c, s, f), c.driver = "release", c.phase = "review",
         c.lock = "free", c.runtime
  PROVE  Kept([c EXCEPT !.driver = "releasing", !.lock = "driver"], s, f)
<1> DEFINE d == [c EXCEPT !.driver = "releasing", !.lock = "driver"]
<1>1. Like(c, d, {"driver", "lock"}) /\ d.driver = "releasing" /\ d.lock = "driver"
  BY KeptIsRec DEF Like, Rec, Field
<1> HIDE DEF d
<1>2. Kept(d, s, f)
    BY <1>1 DEF Kept, RunKept, Shaped, RuntimeKept, LockKept, CommandKept, DriverKept, RestKept, Phase, Like, Rec,
        Field, Commands
<1> QED BY <1>2 DEF d

LEMMA ReleasedKept ==
  ASSUME NEW c, NEW s, NEW f \in BOOLEAN, Kept(c, s, f), c.driver = "releasing"
  PROVE  Kept(Unlocked([Finished(c) EXCEPT !.runtime = FALSE, !.orch = FALSE, !.child = FALSE]), s, f)
<1> DEFINE b == Finished(c)
           e == [b EXCEPT !.runtime = FALSE, !.orch = FALSE, !.child = FALSE]
           d == Unlocked(e)
<1>1. Like(c, b, {"driver", "op", "shown"}) /\ b.driver = "none" /\ b.op = "none" /\ b.shown = "none"
  BY KeptIsRec, FinishedIs
<1> HIDE DEF b
<1>2. Like(b, e, {"runtime", "orch", "child"}) /\ ~e.runtime /\ ~e.orch /\ ~e.child
      /\ {e.runtime, e.orch, e.child} \subseteq BOOLEAN
  BY <1>1 DEF Like, Rec, Field
<1> HIDE DEF e
<1>3. Like(e, d, {"lock"})
      /\ d.lock = IF e.driver = "ensure" THEN "driver" ELSE IF e.at = "ensure" THEN "command" ELSE "free"
  BY <1>2, UnlockedIs DEF Like
<1> HIDE DEF d
<1>4. Kept(d, s, f)
    BY <1>1, <1>2, <1>3
        DEF Kept, RunKept, Shaped, RuntimeKept, LockKept, CommandKept, DriverKept, RestKept, Phase, Like, Rec, Field,
        Commands
<1> QED BY <1>4 DEF b, d, e

\* A release that fails leaves the run in error and the close to the service.
LEMMA NotReleasedKept ==
  ASSUME NEW c, NEW s, NEW f \in BOOLEAN, Kept(c, s, f), c.driver = "releasing", NEW child \in BOOLEAN
  PROVE  Kept(Unlocked([Stopped(c) EXCEPT !.error = "memory", !.shown = "error", !.child = child]), s, TRUE)
<1> DEFINE b == Stopped(c)
           e == [b EXCEPT !.error = "memory", !.shown = "error", !.child = child]
           d == Unlocked(e)
<1>1. Like(c, b, {"driver", "op"}) /\ b.driver = "none" /\ b.op = "none"
  BY KeptIsRec, StoppedIs
<1> HIDE DEF b
<1>2. Like(b, e, {"error", "shown", "child"}) /\ e.error = "memory" /\ e.shown = "error" /\ e.child \in BOOLEAN
  BY <1>1 DEF Like, Rec, Field
<1> HIDE DEF e
<1>3. Like(e, d, {"lock"})
      /\ d.lock = IF e.driver = "ensure" THEN "driver" ELSE IF e.at = "ensure" THEN "command" ELSE "free"
  BY <1>2, UnlockedIs DEF Like
<1> HIDE DEF d
<1>4. Kept(d, s, TRUE)
    BY <1>1, <1>2, <1>3
        DEF Kept, RunKept, Shaped, RuntimeKept, LockKept, CommandKept, DriverKept, RestKept, Phase, Like, Rec, Field,
        Commands
<1> QED BY <1>4 DEF b, d, e

(* Commands. *)

LEMMA BeginKept ==
  ASSUME NEW c, NEW s, NEW f \in BOOLEAN, Kept(c, s, f), s = "up", ~f, c.known, c.command = "none",
         NEW command \in {"pause", "resume", "branch"},
         Phase(c) = CASE command = "pause" -> "exploring" [] command = "resume" -> "paused" [] OTHER -> "review"
  PROVE  Kept(Ensure([c EXCEPT !.command = command], "command"), s, f)
<1> DEFINE e == [c EXCEPT !.command = command]
           d == Ensure(e, "command")
<1> SUFFICES Kept(d, s, f) OBVIOUS
<1>1. Like(c, e, {"command"}) /\ e.command = command BY KeptIsRec DEF Like, Rec, Field
<1> HIDE DEF e
<1>2. Rec(e) /\ e.command \in Commands BY <1>1 DEF Like, Commands
<1>3. CASE ~c.orch
  <2>1. Like(e, d, {"at", "driver", "lock"}) /\ d.at = "ensure" /\ d.driver = e.driver
        /\ d.lock = IF e.lock = "free" THEN "command" ELSE e.lock
    BY <1>1, <1>2, <1>3, EnsureIs DEF Like, Field
  <2> HIDE DEF d
  <2> QED BY <1>1, <1>3, <2>1
      DEF Kept, RunKept, Shaped, RuntimeKept, LockKept, CommandKept, DriverKept, RestKept, Phase, Like, Rec, Field,
      Commands
<1>4. CASE c.orch
  <2>1. e.orch BY <1>1, <1>4 DEF Like, Field
  <2>2. d = Onward(e, "command") BY <1>2, <2>1, EnsureIs
  <2>3. CASE command = "pause"
    <3>1. Like(e, d, {"pause", "command", "at"}) /\ d.pause \in BOOLEAN /\ d.command = "none" /\ d.at = "none"
      BY <1>1, <1>2, <2>2, <2>3, OnwardPauseIs
    <3> HIDE DEF d
    <3> QED BY <1>1, <1>4, <2>3, <3>1
        DEF Kept, RunKept, Shaped, RuntimeKept, LockKept, CommandKept, DriverKept, RestKept, Phase, Like, Rec, Field,
        Commands
  <2>4. CASE command = "resume"
    <3>1. /\ Like(e, d, {"driver", "op", "command", "at"}) /\ d.command = "none" /\ d.at = "none"
          /\ (e.driver = "none" => d.driver = "scheduled" /\ d.op = "resume")
          /\ (e.driver # "none" => d.driver = e.driver /\ d.op = e.op)
      BY <1>1, <1>2, <2>2, <2>4, OnwardResumeIs
    <3> HIDE DEF d
    <3> QED BY <1>1, <1>4, <2>4, <3>1
        DEF Kept, RunKept, Shaped, RuntimeKept, LockKept, CommandKept, DriverKept, RestKept, Phase, Like, Rec, Field,
        Commands
  <2>5. CASE command = "branch"
    <3>1. e.driver = "none"
        BY <1>1, <1>4, <2>5
            DEF Kept, RunKept, Shaped, RuntimeKept, LockKept, CommandKept, DriverKept, RestKept, Phase, Like, Rec,
            Field, Commands
    <3>2. Like(e, d, {"driver", "op", "at"}) /\ d.driver = "scheduled" /\ d.op = "branch" /\ d.at = "wait"
      BY <1>1, <1>2, <2>2, <2>5, <3>1, OnwardBranchIs
    <3> HIDE DEF d
    <3> QED BY <1>1, <1>4, <2>5, <3>1, <3>2
        DEF Kept, RunKept, Shaped, RuntimeKept, LockKept, CommandKept, DriverKept, RestKept, Phase, Like, Rec, Field,
        Commands
  <2> QED BY <2>3, <2>4, <2>5
<1> QED BY <1>3, <1>4

LEMMA CreateKept ==
  ASSUME NEW f \in BOOLEAN, ~f
  PROVE  Kept(Ensure([Absent EXCEPT !.known = TRUE, !.command = "create"], "command"), "up", f)
<1> DEFINE b == Absent
           e == [b EXCEPT !.known = TRUE, !.command = "create"]
           d == Ensure(e, "command")
<1> HIDE DEF b
<1>1. Like(b, e, {"known", "command"}) /\ e.known /\ e.known \in BOOLEAN /\ e.command = "create"
  BY AbsentIs DEF Like, Rec, Field, b
<1> HIDE DEF e
<1>2. ~e.orch /\ e.lock = "free" BY <1>1, AbsentIs DEF Like, Field, b
<1>3. Like(e, d, {"at", "driver", "lock"}) /\ d.at = "ensure" /\ d.driver = e.driver /\ d.lock = "command"
  BY <1>1, <1>2, EnsureIs DEF Like, Field
<1> HIDE DEF d
<1>4. Rec(b) /\ ~b.calling /\ ~b.interrupted /\ ~b.runtime /\ ~b.orch /\ ~b.child /\ b.phase = "exploring"
      /\ {b.saved, b.calling, b.pause, b.interrupted, b.runtime, b.orch, b.child} \subseteq BOOLEAN
      /\ b.error = "none" /\ b.shown = "none" /\ b.lock = "free" /\ b.driver = "none" /\ b.op = "none"
  BY AbsentIs DEF b
<1>5. Shaped(d)
  <2>1. Rec(d) BY <1>3 DEF Like
  <2>2. d.known \in BOOLEAN /\ d.saved \in BOOLEAN /\ d.calling \in BOOLEAN /\ d.pause \in BOOLEAN
        /\ d.interrupted \in BOOLEAN /\ d.runtime \in BOOLEAN /\ d.orch \in BOOLEAN /\ d.child \in BOOLEAN
    <3>1. /\ b.saved \in BOOLEAN /\ b.calling \in BOOLEAN /\ b.pause \in BOOLEAN /\ b.interrupted \in BOOLEAN
          /\ b.runtime \in BOOLEAN /\ b.orch \in BOOLEAN /\ b.child \in BOOLEAN
      BY <1>4
    <3>2. d.known = e.known /\ d.saved = e.saved /\ d.calling = e.calling /\ d.pause = e.pause
          /\ d.interrupted = e.interrupted /\ d.runtime = e.runtime /\ d.orch = e.orch /\ d.child = e.child
      BY <1>3 DEF Like, Field
    <3>3. e.saved = b.saved /\ e.calling = b.calling /\ e.pause = b.pause /\ e.interrupted = b.interrupted
          /\ e.runtime = b.runtime /\ e.orch = b.orch /\ e.child = b.child
      BY <1>1 DEF Like, Field
    <3> QED
      BY <1>1, <3>1, <3>2, <3>3
  <2>3. d.phase = "exploring" /\ d.error = "none" /\ d.shown = "none" /\ d.lock = "command" /\ d.driver = "none"
        /\ d.op = "none" /\ d.command = "create" /\ d.at = "ensure"
    BY <1>1, <1>3, <1>4 DEF Like, Field
  <2> QED BY <2>1, <2>2, <2>3 DEF Shaped, Rec, Commands
<1>6. RuntimeKept(d) BY <1>1, <1>3, <1>4 DEF RuntimeKept, Like, Field
<1>7. LockKept(d) BY <1>1, <1>3, <1>4 DEF LockKept, Like, Field
<1>8. CommandKept(d) BY <1>1, <1>3, <1>4 DEF CommandKept, Like, Field
<1>9. DriverKept(d) BY <1>1, <1>3, <1>4 DEF DriverKept, Like, Field
<1>10. RestKept(d, "up", f) BY <1>1, <1>3, <1>4 DEF RestKept, Like, Field
<1> QED BY <1>5, <1>6, <1>7, <1>8, <1>9, <1>10 DEF b, d, e, Kept, RunKept

LEMMA InterruptKept ==
  ASSUME NEW c, NEW s, NEW f \in BOOLEAN, Kept(c, s, f), s = "up", ~f, c.known, c.command = "none", c.calling
  PROVE  Kept(Ensure([Cancelled(c) EXCEPT !.command = "interrupt"], "command"), s, f)
<1> DEFINE b == Cancelled(c)
           e == [b EXCEPT !.command = "interrupt"]
           d == Ensure(e, "command")
<1> SUFFICES Kept(d, s, f) OBVIOUS
<1>1. Like(c, b, {"driver", "op", "lock"}) /\ b.driver = "none" /\ b.op = "none"
      /\ (c.lock # "driver" => b.lock = c.lock)
      /\ (c.lock = "driver" => b.lock = IF c.at = "ensure" THEN "command" ELSE "free")
  BY KeptIsRec, CancelledIs
<1> HIDE DEF b
<1>2. Like(b, e, {"command"}) /\ e.command = "interrupt" BY <1>1 DEF Like, Rec, Field
<1> HIDE DEF e
<1>3. Rec(e) /\ e.command \in Commands BY <1>2 DEF Like, Commands
<1>4. CASE ~c.orch
  <2>1. Like(e, d, {"at", "driver", "lock"}) /\ d.at = "ensure" /\ d.driver = e.driver
        /\ d.lock = IF e.lock = "free" THEN "command" ELSE e.lock
    BY <1>1, <1>2, <1>3, <1>4, EnsureIs DEF Like, Field
  <2> HIDE DEF d
  <2> QED BY <1>1, <1>2, <1>4, <2>1
      DEF Kept, RunKept, Shaped, RuntimeKept, LockKept, CommandKept, DriverKept, RestKept, Phase, Like, Rec, Field,
      Commands
<1>5. CASE c.orch
  <2>1. e.orch BY <1>1, <1>2, <1>5 DEF Like, Field
  <2>2. d = Onward(e, "command") BY <1>3, <2>1, EnsureIs
  <2>3. Like(e, d, {"at"}) /\ d.at = "abort" BY <1>2, <1>3, <2>2, OnwardInterruptIs
  <2> HIDE DEF d
  <2> QED BY <1>1, <1>2, <1>5, <2>3
      DEF Kept, RunKept, Shaped, RuntimeKept, LockKept, CommandKept, DriverKept, RestKept, Phase, Like, Rec, Field,
      Commands
<1> QED BY <1>4, <1>5

\* A command that is answered leaves its run as it is.
LEMMA AnsweredKept ==
  ASSUME NEW c, NEW s, NEW f \in BOOLEAN, Kept(c, s, f),
         c.at = "abort" \/ (c.at = "wait" /\ c.driver = "none") \/ (c.at = "undo" /\ f)
  PROVE  Kept([c EXCEPT !.command = "none", !.at = "none"], s, f)
<1> DEFINE d == [c EXCEPT !.command = "none", !.at = "none"]
<1>1. Like(c, d, {"command", "at"}) /\ d.command = "none" /\ d.at = "none" BY KeptIsRec DEF Like, Rec, Field
<1> HIDE DEF d
<1>2. Kept(d, s, f)
    BY <1>1 DEF Kept, RunKept, Shaped, RuntimeKept, LockKept, CommandKept, DriverKept, RestKept, Phase, Like, Rec,
        Field, Commands
<1> QED BY <1>2 DEF d

LEMMA InterruptedKept ==
  ASSUME NEW c, NEW s, NEW f \in BOOLEAN, Kept(c, s, f), c.at = "abort"
  PROVE  Kept([[c EXCEPT !.command = "none", !.at = "none"]
                 EXCEPT !.calling = FALSE, !.interrupted = TRUE, !.shown = "interrupted"], s, f)
<1> DEFINE e == [c EXCEPT !.command = "none", !.at = "none"]
           d == [e EXCEPT !.calling = FALSE, !.interrupted = TRUE, !.shown = "interrupted"]
<1>1. Like(c, e, {"command", "at"}) /\ e.command = "none" /\ e.at = "none" BY KeptIsRec DEF Like, Rec, Field
<1> HIDE DEF e
<1>2. Like(e, d, {"calling", "interrupted", "shown"}) /\ ~d.calling /\ d.interrupted /\ d.shown = "interrupted"
      /\ {d.calling, d.interrupted} \subseteq BOOLEAN
  BY <1>1 DEF Like, Rec, Field
<1> HIDE DEF d
<1>3. Kept(d, s, f)
    BY <1>1, <1>2
        DEF Kept, RunKept, Shaped, RuntimeKept, LockKept, CommandKept, DriverKept, RestKept, Phase, Like, Rec, Field,
        Commands
<1> QED BY <1>3 DEF d, e

\* What a create leaves that took its run back.
LEMMA ForgottenKept ==
  ASSUME NEW saved \in BOOLEAN, NEW s, NEW f
  PROVE  Kept([Absent EXCEPT !.saved = saved], s, f)
<1> DEFINE b == Absent
           d == [b EXCEPT !.saved = saved]
<1> HIDE DEF b
<1>1. Like(b, d, {"saved"}) /\ d.saved \in BOOLEAN BY AbsentIs DEF Like, Rec, Field, b
<1> HIDE DEF d
<1>2. Kept(d, s, f)
    BY <1>1, AbsentIs
        DEF b, Kept, RunKept, Shaped, RuntimeKept, LockKept, CommandKept, DriverKept, RestKept, Phase, Like, Rec,
        Field, Commands
<1> QED BY <1>2 DEF b, d

LEMMA ClosedKept ==
  ASSUME NEW c, NEW f \in BOOLEAN, Kept(c, "closing", f)
  PROVE  Kept([c EXCEPT !.runtime = FALSE, !.orch = FALSE, !.child = FALSE], "closing", f)
<1> DEFINE d == [c EXCEPT !.runtime = FALSE, !.orch = FALSE, !.child = FALSE]
<1>1. Like(c, d, {"runtime", "orch", "child"}) /\ ~d.runtime /\ ~d.orch /\ ~d.child
      /\ {d.runtime, d.orch, d.child} \subseteq BOOLEAN
  <2>1. Rec(c) BY KeptIsRec
  <2> QED BY <2>1 DEF Like, Rec, Field
<1> HIDE DEF d
<1>2. Kept(d, "closing", f)
    BY <1>1 DEF Kept, RunKept, Shaped, RuntimeKept, LockKept, CommandKept, DriverKept, RestKept, Phase, Like, Rec,
        Field, Commands
<1> QED BY <1>2 DEF d

(* A factory, and what follows it. *)

LEMMA OnwardKept ==
  ASSUME NEW c, NEW s, NEW f \in BOOLEAN, Kept(c, s, f), NEW who \in {"command", "driver"}, At(c, who), c.lock = who,
         NEW b, Like(c, b, {"runtime", "orch", "child"}), b.runtime, b.orch, b.child,
         {b.runtime, b.orch, b.child} \subseteq BOOLEAN
  PROVE  Kept(Unlocked(Onward(b, who)), s, f)
<1> DEFINE e == Onward(b, who)
           d == Unlocked(e)
<1> SUFFICES Kept(d, s, f) OBVIOUS
<1>1. Rec(b) /\ b.command = c.command /\ b.op = c.op /\ b.driver = c.driver BY DEF Like, Field
<1>2. ASSUME Rec(e)
      PROVE  Like(e, d, {"lock"})
             /\ d.lock = IF e.driver = "ensure" THEN "driver" ELSE IF e.at = "ensure" THEN "command" ELSE "free"
  BY <1>2, UnlockedIs
<1> HIDE DEF d
<1>3. CASE who = "driver"
  <2>1. Like(b, e, {"driver"}) /\ e.driver = IF c.op = "typeset" THEN "typeset" ELSE "operation"
    BY <1>1, <1>3, OnwardDriverIs
  <2> HIDE DEF e
  <2>2. Rec(e) BY <2>1 DEF Like
  <2> QED BY <1>2, <1>3, <2>1, <2>2
      DEF At, Kept, RunKept, Shaped, RuntimeKept, LockKept, CommandKept, DriverKept, RestKept, Phase, Like, Rec,
      Field, Commands
<1>4. CASE who = "command"
  <2>1. c.at = "ensure" /\ c.command \in Commands
      BY <1>4 DEF At, Kept, RunKept, Shaped, RuntimeKept, LockKept, CommandKept, DriverKept, RestKept, Phase, Like,
          Rec, Field, Commands
  <2>2. CASE c.command = "create"
    <3>1. /\ Like(b, e, {"driver", "op", "saved", "shown", "command", "at"}) /\ e.driver = "scheduled" /\ e.op = "drive"
          /\ e.saved \in BOOLEAN /\ e.shown = "exploring" /\ e.command = "none" /\ e.at = "none"
      BY <1>1, <1>4, <2>2, OnwardCreateIs
    <3> HIDE DEF e
    <3>2. Rec(e) BY <3>1 DEF Like
    <3> QED BY <1>2, <1>4, <2>1, <2>2, <3>1, <3>2
        DEF Kept, RunKept, Shaped, RuntimeKept, LockKept, CommandKept, DriverKept, RestKept, Phase, Like, Rec, Field,
        Commands
  <2>3. CASE c.command = "pause"
    <3>1. Like(b, e, {"pause", "command", "at"}) /\ e.pause \in BOOLEAN /\ e.command = "none" /\ e.at = "none"
      BY <1>1, <1>4, <2>3, OnwardPauseIs
    <3> HIDE DEF e
    <3>2. Rec(e) BY <3>1 DEF Like
    <3> QED BY <1>2, <1>4, <2>1, <2>3, <3>1, <3>2
        DEF Kept, RunKept, Shaped, RuntimeKept, LockKept, CommandKept, DriverKept, RestKept, Phase, Like, Rec, Field,
        Commands
  <2>4. CASE c.command = "resume"
    <3>1. c.driver = "none" BY <2>4 DEF Kept, RunKept, CommandKept
    <3>2. Like(b, e, {"driver", "op", "command", "at"}) /\ e.command = "none" /\ e.at = "none"
          /\ e.driver = "scheduled" /\ e.op = "resume"
      BY <1>1, <1>4, <2>4, <3>1, OnwardResumeIs
    <3> HIDE DEF e
    <3>3. Rec(e) BY <3>2 DEF Like
    <3> QED BY <1>2, <1>4, <2>1, <2>4, <3>2, <3>3
        DEF Kept, RunKept, Shaped, RuntimeKept, LockKept, CommandKept, DriverKept, RestKept, Phase, Like, Rec, Field,
        Commands
  <2>5. CASE c.command = "branch"
    <3>1. c.driver = "none" BY <2>1, <2>5 DEF Kept, RunKept, CommandKept
    <3>2. Like(b, e, {"driver", "op", "at"}) /\ e.driver = "scheduled" /\ e.op = "branch" /\ e.at = "wait"
      BY <1>1, <1>4, <2>5, <3>1, OnwardBranchIs
    <3> HIDE DEF e
    <3>3. Rec(e) BY <3>2 DEF Like
    <3> QED BY <1>2, <1>4, <2>1, <2>5, <3>1, <3>2, <3>3
        DEF Kept, RunKept, Shaped, RuntimeKept, LockKept, CommandKept, DriverKept, RestKept, Phase, Like, Rec, Field,
        Commands
  <2>6. CASE c.command = "interrupt"
    <3>1. Like(b, e, {"at"}) /\ e.at = "abort" BY <1>1, <1>4, <2>6, OnwardInterruptIs
    <3> HIDE DEF e
    <3>2. Rec(e) BY <3>1 DEF Like
    <3> QED BY <1>2, <1>4, <2>1, <2>6, <3>1, <3>2
        DEF Kept, RunKept, Shaped, RuntimeKept, LockKept, CommandKept, DriverKept, RestKept, Phase, Like, Rec, Field,
        Commands
  <2> QED BY <2>1, <2>2, <2>3, <2>4, <2>5, <2>6 DEF Commands
<1> QED BY <1>3, <1>4

\* The exception of a factory, or of what follows it: c is the run before and b what the factory made of it.
LEMMA RaisedKept ==
  ASSUME NEW c, NEW s, NEW f \in BOOLEAN, Kept(c, s, f), NEW who \in {"command", "driver"}, At(c, who), c.lock = who,
         ~c.orch,
         NEW b, Like(c, b, {"runtime", "child"}), {b.runtime, b.child} \subseteq BOOLEAN,
         NEW g \in BOOLEAN, f => g, b.child => b.runtime, c.runtime => b.runtime,
         g \/ (b.runtime = c.runtime /\ b.child = c.child)
  PROVE  Kept(Unlocked(Raised(b, who)), s, g)
<1> DEFINE e == Raised(b, who)
           d == Unlocked(e)
<1> SUFFICES Kept(d, s, g) OBVIOUS
<1>1. Rec(b) /\ b.command = c.command /\ b.op = c.op /\ b.driver = c.driver BY DEF Like, Field
<1>2. ASSUME Rec(e)
      PROVE  Like(e, d, {"lock"})
             /\ d.lock = IF e.driver = "ensure" THEN "driver" ELSE IF e.at = "ensure" THEN "command" ELSE "free"
  BY <1>2, UnlockedIs
<1> HIDE DEF d
<1>3. CASE who = "driver" /\ c.op = "typeset"
  <2>1. Like(b, e, {"driver"}) /\ e.driver = "release" BY <1>1, <1>3, RaisedIs
  <2> HIDE DEF e
  <2>2. Rec(e) BY <2>1 DEF Like
  <2> QED BY <1>2, <1>3, <2>1, <2>2
      DEF At, Kept, RunKept, Shaped, RuntimeKept, LockKept, CommandKept, DriverKept, RestKept, Phase, Like, Rec,
      Field, Commands
<1>4. CASE who = "driver" /\ c.op # "typeset"
  <2>1. Like(b, e, {"driver", "op", "error", "shown"})
        /\ e.driver = "none" /\ e.op = "none" /\ e.error = "manifest" /\ e.shown = "error"
    BY <1>1, <1>4, RaisedIs, FailedIs
  <2> HIDE DEF e
  <2>2. Rec(e) BY <2>1 DEF Like
  <2> QED BY <1>2, <1>4, <2>1, <2>2
      DEF At, Kept, RunKept, Shaped, RuntimeKept, LockKept, CommandKept, DriverKept, RestKept, Phase, Like, Rec,
      Field, Commands
<1>5. CASE who = "command" /\ c.command = "create" /\ b.runtime
  <2>1. Like(b, e, {"at"}) /\ e.at = "undo" BY <1>1, <1>5, RaisedIs
  <2> HIDE DEF e
  <2>2. Rec(e) BY <2>1 DEF Like
  <2> QED BY <1>2, <1>5, <2>1, <2>2
      DEF At, Kept, RunKept, Shaped, RuntimeKept, LockKept, CommandKept, DriverKept, RestKept, Phase, Like, Rec,
      Field, Commands
<1>6. CASE who = "command" /\ ~(c.command = "create" /\ b.runtime)
  <2>1. Like(b, e, {"command", "at", "known"}) /\ e.command = "none" /\ e.at = "none" /\ e.known = (c.command # "create")
    BY <1>1, <1>6, RaisedIs
  <2> HIDE DEF e
  <2>2. Rec(e) BY <2>1 DEF Like
  <2>3. e.known \in BOOLEAN /\ (e.known <=> c.command # "create") BY <2>1
  <2> QED BY <1>2, <1>6, <2>1, <2>2, <2>3
      DEF At, Kept, RunKept, Shaped, RuntimeKept, LockKept, CommandKept, DriverKept, RestKept, Phase, Like, Rec,
      Field, Commands
<1> QED BY <1>3, <1>4, <1>5, <1>6

LEMMA CreateRaisedKept ==
  ASSUME NEW c, NEW s, NEW f \in BOOLEAN, Kept(c, s, f), c.at = "ensure", c.lock = "command", c.command = "create",
         NEW b, Like(c, b, {"runtime", "orch", "child"}), b.runtime, b.orch, b.child,
         {b.runtime, b.orch, b.child} \subseteq BOOLEAN, NEW saved \in BOOLEAN
  PROVE  Kept(Unlocked([Raised(b, "command") EXCEPT !.saved = saved]), s, f)
<1> DEFINE a == Raised(b, "command")
           e == [a EXCEPT !.saved = saved]
           d == Unlocked(e)
<1> SUFFICES Kept(d, s, f) OBVIOUS
<1>1. Rec(b) /\ b.command = "create" BY DEF Like, Field
<1>2. Like(b, a, {"at"}) /\ a.at = "undo" BY <1>1, RaisedIs
<1> HIDE DEF a
<1>3. Like(a, e, {"saved"}) /\ e.saved \in BOOLEAN BY <1>2 DEF Like, Rec, Field
<1> HIDE DEF e
<1>4. Like(e, d, {"lock"})
      /\ d.lock = IF e.driver = "ensure" THEN "driver" ELSE IF e.at = "ensure" THEN "command" ELSE "free"
  BY <1>3, UnlockedIs DEF Like
<1> HIDE DEF d
<1> QED BY <1>1, <1>2, <1>3, <1>4
    DEF Kept, RunKept, Shaped, RuntimeKept, LockKept, CommandKept, DriverKept, RestKept, Phase, Like, Rec, Field,
    Commands

(* The start of a driver. *)

LEMMA StartsInFactoryKept ==
  ASSUME NEW c, NEW s, NEW f \in BOOLEAN, Kept(c, s, f), c.driver = "scheduled", c.op \in {"reconcile", "recover"},
         NEW shown \in {"recovering", "exploring"}
  PROVE  Kept(Ensure([c EXCEPT !.shown = shown], "driver"), s, f)
<1> DEFINE e == [c EXCEPT !.shown = shown]
           d == Ensure(e, "driver")
<1> SUFFICES Kept(d, s, f) OBVIOUS
<1>1. Like(c, e, {"shown"}) /\ e.shown = shown BY KeptIsRec DEF Like, Rec, Field
<1> HIDE DEF e
<1>2. Rec(e) /\ e.op = c.op BY <1>1 DEF Like, Field
<1>3. CASE ~c.orch
  <2>1. Like(e, d, {"at", "driver", "lock"}) /\ d.at = e.at /\ d.driver = "ensure"
        /\ d.lock = IF e.lock = "free" THEN "driver" ELSE e.lock
    BY <1>1, <1>2, <1>3, EnsureIs DEF Like, Field
  <2> HIDE DEF d
  <2> QED BY <1>1, <1>3, <2>1
      DEF Kept, RunKept, Shaped, RuntimeKept, LockKept, CommandKept, DriverKept, RestKept, Phase, Like, Rec, Field,
      Commands
<1>4. CASE c.orch
  <2>1. e.orch BY <1>1, <1>4 DEF Like, Field
  <2>2. d = Onward(e, "driver") BY <1>2, <2>1, EnsureIs
  <2>3. Like(e, d, {"driver"}) /\ d.driver = "operation" BY <1>2, <2>2, OnwardDriverIs
  <2> HIDE DEF d
  <2> QED BY <1>1, <1>4, <2>3
      DEF Kept, RunKept, Shaped, RuntimeKept, LockKept, CommandKept, DriverKept, RestKept, Phase, Like, Rec, Field,
      Commands
<1> QED BY <1>3, <1>4

LEMMA StartsTypesettingKept ==
  ASSUME NEW c, NEW s, NEW f \in BOOLEAN, Kept(c, s, f), c.driver = "scheduled", c.op = "typeset"
  PROVE  Kept([c EXCEPT !.shown = "recovering", !.driver = "typeset"], s, f)
<1> DEFINE d == [c EXCEPT !.shown = "recovering", !.driver = "typeset"]
<1>1. Like(c, d, {"shown", "driver"}) /\ d.shown = "recovering" /\ d.driver = "typeset"
  BY KeptIsRec DEF Like, Rec, Field
<1> HIDE DEF d
<1>2. Kept(d, s, f)
    BY <1>1 DEF Kept, RunKept, Shaped, RuntimeKept, LockKept, CommandKept, DriverKept, RestKept, Phase, Like, Rec,
        Field, Commands
<1> QED BY <1>2 DEF d

LEMMA StartsResumedKept ==
  ASSUME NEW c, NEW s, NEW f \in BOOLEAN, Kept(c, s, f), c.driver = "scheduled", c.op = "resume"
  PROVE  Kept([c EXCEPT !.shown = "exploring", !.driver = "operation", !.phase = "exploring", !.pause = FALSE], s, f)
<1> DEFINE d == [c EXCEPT !.shown = "exploring", !.driver = "operation", !.phase = "exploring", !.pause = FALSE]
<1>1. Like(c, d, {"shown", "driver", "phase", "pause"}) /\ d.shown = "exploring" /\ d.driver = "operation"
      /\ d.phase = "exploring" /\ d.pause \in BOOLEAN
  BY KeptIsRec DEF Like, Rec, Field
<1> HIDE DEF d
<1>2. Kept(d, s, f)
    BY <1>1 DEF Kept, RunKept, Shaped, RuntimeKept, LockKept, CommandKept, DriverKept, RestKept, Phase, Like, Rec,
        Field, Commands
<1> QED BY <1>2 DEF d

LEMMA StartsOperatingKept ==
  ASSUME NEW c, NEW s, NEW f \in BOOLEAN, Kept(c, s, f), c.driver = "scheduled", c.op \in {"drive", "branch"}
  PROVE  Kept([c EXCEPT !.shown = "exploring", !.driver = "operation"], s, f)
<1> DEFINE d == [c EXCEPT !.shown = "exploring", !.driver = "operation"]
<1>1. Like(c, d, {"shown", "driver"}) /\ d.shown = "exploring" /\ d.driver = "operation"
  BY KeptIsRec DEF Like, Rec, Field
<1> HIDE DEF d
<1>2. Kept(d, s, f)
    BY <1>1 DEF Kept, RunKept, Shaped, RuntimeKept, LockKept, CommandKept, DriverKept, RestKept, Phase, Like, Rec,
        Field, Commands
<1> QED BY <1>2 DEF d

(* The service's own steps. *)

LEMMA MoreFailedKept ==
  ASSUME NEW c, NEW s, NEW f \in BOOLEAN, Kept(c, s, f), NEW g \in BOOLEAN, f => g
  PROVE  Kept(c, s, g)
BY DEF Kept, RestKept

LEMMA SettlingKept ==
  ASSUME NEW c, NEW f \in BOOLEAN, Kept(c, "up", f), c.command = "none"
  PROVE  Kept(c, "settling", f) /\ Kept(Settling(c), "settling", f)
<1>1. Rec(c) BY KeptIsRec
<1>2. Kept(c, "settling", f)
    BY DEF Kept, RunKept, Shaped, RuntimeKept, LockKept, CommandKept, DriverKept, RestKept, Phase, Like, Rec, Field,
        Commands
<1>3. CASE c.driver = "none" BY <1>2, <1>3 DEF Settling
<1>4. CASE c.driver # "none" /\ c.orch
  <2> DEFINE d == [c EXCEPT !.pause = TRUE]
  <2>1. Like(c, d, {"pause"}) /\ d.pause \in BOOLEAN BY <1>1 DEF Like, Rec, Field
  <2> HIDE DEF d
  <2>2. Kept(d, "settling", f)
      BY <1>4, <2>1
          DEF Kept, RunKept, Shaped, RuntimeKept, LockKept, CommandKept, DriverKept, RestKept, Phase, Like, Rec,
          Field, Commands
  <2> QED BY <1>2, <1>4, <2>2 DEF d, Settling
<1>5. CASE c.driver # "none" /\ ~c.orch
  <2> DEFINE d == Cancelled(c)
  <2>1. Like(c, d, {"driver", "op", "lock"}) /\ d.driver = "none" /\ d.op = "none"
        /\ (c.lock # "driver" => d.lock = c.lock)
        /\ (c.lock = "driver" => d.lock = IF c.at = "ensure" THEN "command" ELSE "free")
    BY <1>1, CancelledIs
  <2> HIDE DEF d
  <2>2. Kept(d, "settling", f)
      BY <1>5, <2>1
          DEF Kept, RunKept, Shaped, RuntimeKept, LockKept, CommandKept, DriverKept, RestKept, Phase, Like, Rec,
          Field, Commands
  <2> QED BY <1>2, <1>5, <2>2 DEF d, Settling
<1> QED BY <1>3, <1>4, <1>5

LEMMA SettledKept ==
  ASSUME NEW c, NEW f \in BOOLEAN, Kept(c, "settling", f)
  PROVE  Kept(IF c.driver # "none" THEN Cancelled(c) ELSE c, "closing", f)
<1>1. Rec(c) BY KeptIsRec
<1>2. CASE c.driver = "none"
  <2>1. Kept(c, "closing", f)
      BY <1>2 DEF Kept, RunKept, Shaped, RuntimeKept, LockKept, CommandKept, DriverKept, RestKept, Phase, Like, Rec,
          Field, Commands
  <2> QED BY <1>2, <2>1
<1>3. CASE c.driver # "none"
  <2> DEFINE d == Cancelled(c)
  <2>1. Like(c, d, {"driver", "op", "lock"}) /\ d.driver = "none" /\ d.op = "none"
        /\ (c.lock # "driver" => d.lock = c.lock)
        /\ (c.lock = "driver" => d.lock = IF c.at = "ensure" THEN "command" ELSE "free")
    BY <1>1, CancelledIs
  <2> HIDE DEF d
  <2>2. Kept(d, "closing", f)
      BY <1>3, <2>1
          DEF Kept, RunKept, Shaped, RuntimeKept, LockKept, CommandKept, DriverKept, RestKept, Phase, Like, Rec,
          Field, Commands
  <2> QED BY <1>3, <2>2 DEF d
<1> QED BY <1>2, <1>3

LEMMA CloseEndsKept ==
  ASSUME NEW c, NEW f \in BOOLEAN, Kept(c, "closing", f)
  PROVE  /\ Kept(c, "up", TRUE)
         /\ ~(c.known /\ c.runtime) => Kept(c, "down", FALSE)
<1>1. Kept(c, "up", TRUE) BY DEF Kept, RestKept
<1>2. ASSUME ~(c.known /\ c.runtime) PROVE Kept(c, "down", FALSE) BY <1>2 DEF Kept, RestKept, RunKept, RuntimeKept
<1> QED BY <1>1, <1>2

LEMMA ReloadedIs ==
  ASSUME NEW c, Shaped(c)
  PROVE  LET d == Reloaded(c)
         IN  /\ Rec(d) /\ d.known /\ ~d.runtime /\ ~d.orch /\ ~d.child /\ d.phase = c.phase /\ d.calling = c.calling
             /\ d.known \in BOOLEAN /\ d.saved \in BOOLEAN /\ d.calling \in BOOLEAN /\ d.pause \in BOOLEAN
             /\ d.interrupted \in BOOLEAN /\ d.runtime \in BOOLEAN /\ d.orch \in BOOLEAN /\ d.child \in BOOLEAN
             /\ d.error \in {"manifest", "none"} /\ d.shown = "none" /\ d.lock = "free"
             /\ d.driver = "none" /\ d.op = "none" /\ d.command = "none" /\ d.at = "none"
<1> DEFINE b == Absent
<1>1. Rec(b) /\ ~b.runtime /\ ~b.orch /\ ~b.child /\ b.runtime \in BOOLEAN /\ b.orch \in BOOLEAN /\ b.child \in BOOLEAN
      /\ b.error = "none" /\ b.shown = "none" /\ b.lock = "free" /\ b.driver = "none" /\ b.op = "none"
      /\ b.command = "none" /\ b.at = "none"
  BY AbsentIs
<1> DEFINE d == Reloaded(c)
<1>2. d =
        [b EXCEPT !.known = TRUE, !.saved = TRUE, !.phase = c.phase, !.calling = c.calling, !.pause = c.pause,
                  !.interrupted = c.interrupted, !.error = IF c.error = "manifest" THEN "manifest" ELSE "none"]
  BY DEF Reloaded
<1> HIDE DEF b, d
<1>3. Rec(d) BY <1>1, <1>2 DEF Rec, Field
<1>4. d.phase = c.phase /\ d.calling = c.calling /\ d.pause = c.pause /\ d.interrupted = c.interrupted
      /\ d.known = TRUE /\ d.saved = TRUE
      /\ d.error \in {"manifest", "none"}
  BY <1>1, <1>2 DEF Rec, Field
<1>5. d.shown = b.shown /\ d.lock = b.lock /\ d.driver = b.driver /\ d.op = b.op /\ d.command = b.command /\ d.at = b.at
      /\ d.runtime = b.runtime /\ d.orch = b.orch /\ d.child = b.child
  BY <1>1, <1>2 DEF Rec, Field
<1>6. d.calling \in BOOLEAN /\ d.pause \in BOOLEAN /\ d.interrupted \in BOOLEAN BY <1>4 DEF Shaped
<1>7. QED BY <1>1, <1>3, <1>4, <1>5, <1>6 DEF d

LEMMA RecoveredKept ==
  ASSUME NEW c, Shaped(c), DriverKept(c), NEW f \in BOOLEAN
  PROVE  /\ Kept(Reloaded(c), "down", FALSE)
         /\ \A d \in Recovered(Reloaded(c)) : Kept(d, "up", f)
<1> DEFINE b == Reloaded(c)
<1>1. /\ Rec(b) /\ b.known /\ ~b.runtime /\ ~b.orch /\ ~b.child /\ b.phase = c.phase /\ b.calling = c.calling
      /\ b.known \in BOOLEAN /\ b.saved \in BOOLEAN /\ b.calling \in BOOLEAN /\ b.pause \in BOOLEAN
      /\ b.interrupted \in BOOLEAN /\ b.runtime \in BOOLEAN /\ b.orch \in BOOLEAN /\ b.child \in BOOLEAN
      /\ b.error \in {"manifest", "none"} /\ b.shown = "none" /\ b.lock = "free"
      /\ b.driver = "none" /\ b.op = "none" /\ b.command = "none" /\ b.at = "none"
  BY ReloadedIs
<1> SUFFICES Kept(b, "down", FALSE) /\ \A d \in Recovered(b) : Kept(d, "up", f) OBVIOUS
<1> HIDE DEF b
<1>2. b.phase \in {"exploring", "paused", "review"} /\ (b.calling => b.phase = "exploring")
  BY <1>1 DEF Shaped, DriverKept
<1>3. RunKept(b)
    BY <1>1, <1>2
        DEF Kept, RunKept, Shaped, RuntimeKept, LockKept, CommandKept, DriverKept, RestKept, Phase, Like, Rec, Field,
        Commands
<1>4. Kept(b, "down", FALSE) BY <1>1, <1>3 DEF Kept, RestKept
<1>5. ASSUME NEW d \in Recovered(b) PROVE Kept(d, "up", f)
  <2>1. CASE b.interrupted \/ b.error # "none"
    <3>1. d = b BY <1>5, <2>1 DEF Recovered
    <3>2. Kept(b, "up", f) BY <1>1, <1>3, <2>1 DEF Kept, RestKept, Phase
    <3> QED BY <3>1, <3>2
  <2>2. CASE ~b.interrupted /\ b.error = "none" /\ b.phase # "exploring" /\ d = b
    <3>1. Kept(b, "up", f) BY <1>1, <1>2, <1>3, <2>2 DEF Kept, RestKept, Phase
    <3> QED BY <2>2, <3>1
  <2>3. CASE b.phase = "exploring" /\ ~b.interrupted /\ b.error = "none"
    <3>1. PICK op \in {"reconcile", "recover"} : d = Scheduled(b, op) BY <1>2, <1>5, <2>3 DEF Recovered
    <3>2. Like(b, d, {"driver", "op"}) /\ d.driver = "scheduled" /\ d.op = op BY <1>1, <3>1, ScheduledIs
    <3>3. Shaped(d) BY <1>3, <3>2 DEF RunKept, Shaped, Like, Rec, Field
    <3>4. RuntimeKept(d) /\ LockKept(d) /\ CommandKept(d)
      BY <1>1, <3>2 DEF RuntimeKept, LockKept, CommandKept, Like, Field
    <3>5. DriverKept(d) /\ RestKept(d, "up", f) BY <1>1, <1>2, <2>3, <3>2 DEF DriverKept, RestKept, Like, Field
    <3> QED BY <3>3, <3>4, <3>5 DEF Kept, RunKept
  <2>4. CASE ~b.interrupted /\ b.error = "none" /\ b.phase # "exploring" /\ d # b
    <3> DEFINE a == Scheduled(b, "typeset")
    <3>1. Like(b, a, {"driver", "op"}) /\ a.driver = "scheduled" /\ a.op = "typeset" BY <1>1, ScheduledIs
    <3>2. d = [a EXCEPT !.shown = "recovering"] BY <1>2, <1>5, <2>4 DEF Recovered
    <3> HIDE DEF a
    <3>3. Like(a, d, {"shown"}) /\ d.shown = "recovering" BY <3>1, <3>2 DEF Like, Rec, Field
    <3>4. Shaped(d) BY <1>3, <3>1, <3>3 DEF RunKept, Shaped, Like, Rec, Field
    <3>5. RuntimeKept(d) /\ LockKept(d) /\ CommandKept(d)
      BY <1>1, <3>1, <3>3 DEF RuntimeKept, LockKept, CommandKept, Like, Field
    <3>6. DriverKept(d) /\ RestKept(d, "up", f)
      BY <1>1, <1>2, <2>4, <3>1, <3>3 DEF DriverKept, RestKept, Like, Field
    <3> QED BY <3>4, <3>5, <3>6 DEF Kept, RunKept
  <2> QED BY <2>1, <2>2, <2>3, <2>4 DEF Recovered
<1> QED BY <1>4, <1>5

LEMMA AbsentKept == ASSUME NEW s, NEW f PROVE Kept(Absent, s, f)
<1> DEFINE b == Absent
<1> SUFFICES Kept(b, s, f) OBVIOUS
<1>1. /\ Rec(b) /\ ~b.known /\ ~b.calling /\ ~b.interrupted /\ ~b.runtime /\ ~b.orch /\ ~b.child
      /\ {b.known, b.saved, b.calling, b.pause, b.interrupted, b.runtime, b.orch, b.child} \subseteq BOOLEAN
      /\ b.phase = "exploring" /\ b.error = "none" /\ b.shown = "none" /\ b.lock = "free"
      /\ b.driver = "none" /\ b.op = "none" /\ b.command = "none" /\ b.at = "none"
  BY AbsentIs
<1> HIDE DEF b
<1> QED BY <1>1
    DEF Kept, RunKept, Shaped, RuntimeKept, LockKept, CommandKept, DriverKept, RestKept, Phase, Like, Rec, Field,
    Commands

-----------------------------------------------------------------------------
(* Every step keeps the books of every run.                                *)

LEMMA OneRun ==
  ASSUME ServiceInv, NEW r \in Run, NEW d, Put(r, d), Kept(d, service, closeFailed'), UNCHANGED service,
         closeFailed' \in BOOLEAN, closeFailed => closeFailed', todo' \subseteq Run
  PROVE  ServiceInv'
<1>1. ctx' = [x \in Run |-> ctx'[x]] BY DEF ServiceInv, Put
<1>2. ASSUME NEW x \in Run PROVE Kept(ctx'[x], service, closeFailed')
  <2>1. CASE x = r BY <2>1 DEF ServiceInv, Put
  <2>2. CASE x # r BY <2>2, MoreFailedKept DEF ServiceInv, Put
  <2> QED BY <2>1, <2>2
<1> QED BY <1>1, <1>2 DEF ServiceInv

LEMMA RunStepKeeps ==
  ASSUME ServiceInv, NEW r \in Run, RunStep(r)
  PROVE  ServiceInv'
<1> DEFINE c == ctx[r]
<1>0. Kept(c, service, closeFailed) /\ closeFailed \in BOOLEAN /\ todo \subseteq Run BY DEF ServiceInv
<1>1. CASE DriverStarts(r)
  <2>1. c.op \in {"none", "drive", "resume", "branch", "reconcile", "recover", "typeset"} /\ c.driver = "scheduled"
    BY <1>0, <1>1 DEF DriverStarts, Kept, RunKept, Shaped
  <2>2. c.op # "none" BY <1>0, <2>1 DEF Kept, RunKept, DriverKept
  <2>3. CASE c.op = "reconcile"
    <3>1. Kept(Ensure([c EXCEPT !.shown = "recovering"], "driver"), service, closeFailed)
      BY <1>0, <2>1, <2>3, StartsInFactoryKept
    <3>2. Put(r, Ensure([c EXCEPT !.shown = "recovering"], "driver")) /\ UNCHANGED <<service, closeFailed, todo>>
      BY <1>1, <2>3 DEF DriverStarts
    <3> QED BY <1>0, <3>1, <3>2, OneRun
  <2>4. CASE c.op = "recover"
    <3>1. Kept(Ensure([c EXCEPT !.shown = "exploring"], "driver"), service, closeFailed)
      BY <1>0, <2>1, <2>4, StartsInFactoryKept
    <3>2. Put(r, Ensure([c EXCEPT !.shown = "exploring"], "driver")) /\ UNCHANGED <<service, closeFailed, todo>>
      BY <1>1, <2>4 DEF DriverStarts
    <3> QED BY <1>0, <3>1, <3>2, OneRun
  <2>5. CASE c.op = "typeset"
    <3>1. Kept([c EXCEPT !.shown = "recovering", !.driver = "typeset"], service, closeFailed)
      BY <1>0, <2>1, <2>5, StartsTypesettingKept
    <3>2. Put(r, [c EXCEPT !.shown = "recovering", !.driver = "typeset"]) /\ UNCHANGED <<service, closeFailed, todo>>
      BY <1>1, <2>5 DEF DriverStarts
    <3> QED BY <1>0, <3>1, <3>2, OneRun
  <2>6. CASE c.op = "resume"
    <3> DEFINE d == [c EXCEPT !.shown = "exploring", !.driver = "operation", !.phase = "exploring", !.pause = FALSE]
    <3>1. Kept(d, service, closeFailed) BY <1>0, <2>1, <2>6, StartsResumedKept
    <3>2. Put(r, d) /\ UNCHANGED <<service, closeFailed, todo>> BY <1>1, <2>6 DEF DriverStarts
    <3> QED BY <1>0, <3>1, <3>2, OneRun
  <2>7. CASE c.op \in {"drive", "branch"}
    <3>1. Kept([c EXCEPT !.shown = "exploring", !.driver = "operation"], service, closeFailed)
      BY <1>0, <2>1, <2>7, StartsOperatingKept
    <3>2. Put(r, [c EXCEPT !.shown = "exploring", !.driver = "operation"]) /\ UNCHANGED <<service, closeFailed, todo>>
      BY <1>1, <2>7 DEF DriverStarts
    <3> QED BY <1>0, <3>1, <3>2, OneRun
  <2> QED BY <2>1, <2>2, <2>3, <2>4, <2>5, <2>6, <2>7
<1>2. CASE CallStarts(r)
  <2>1. Kept([c EXCEPT !.calling = TRUE], service, closeFailed) BY <1>0, <1>2, CallStartsKept DEF CallStarts
  <2>2. Put(r, [c EXCEPT !.calling = TRUE]) /\ UNCHANGED <<service, closeFailed, todo>> BY <1>2 DEF CallStarts
  <2> QED BY <1>0, <2>1, <2>2, OneRun
<1>3. CASE CallEnds(r)
  <2>1. Kept([c EXCEPT !.calling = FALSE], service, closeFailed) BY <1>0, <1>3, CallEndsKept DEF CallEnds
  <2>2. Put(r, [c EXCEPT !.calling = FALSE]) /\ UNCHANGED <<service, closeFailed, todo>> BY <1>3 DEF CallEnds
  <2> QED BY <1>0, <2>1, <2>2, OneRun
<1>4. CASE BranchOpens(r)
  <2> DEFINE d == [c EXCEPT !.phase = "exploring", !.command = IF @ = "branch" THEN "none" ELSE @,
                            !.at = IF @ = "wait" THEN "none" ELSE @]
  <2>1. Kept(d, service, closeFailed) BY <1>0, <1>4, BranchOpensKept DEF BranchOpens
  <2>2. Put(r, d) /\ UNCHANGED <<service, closeFailed, todo>> BY <1>4 DEF BranchOpens
  <2> QED BY <1>0, <2>1, <2>2, OneRun
<1>5. CASE OperationEnds(r)
  <2>1. PICK phase \in {"paused", "review"} : Put(r, [c EXCEPT !.driver = "typeset", !.phase = phase])
    BY <1>5 DEF OperationEnds
  <2>2. Kept([c EXCEPT !.driver = "typeset", !.phase = phase], service, closeFailed)
    BY <1>0, <1>5, OperationEndsKept DEF OperationEnds
  <2>3. UNCHANGED <<service, closeFailed, todo>> BY <1>5 DEF OperationEnds
  <2> QED BY <1>0, <2>1, <2>2, <2>3, OneRun
<1>6. CASE OperationFails(r)
  <2>1. Kept(Failed(c), service, closeFailed) BY <1>0, <1>6, FailedKept DEF OperationFails
  <2>2. Put(r, Failed(c)) /\ UNCHANGED <<service, closeFailed, todo>> BY <1>6 DEF OperationFails
  <2> QED BY <1>0, <2>1, <2>2, OneRun
<1>7. CASE Typesets(r)
  <2>1. UNCHANGED <<service, closeFailed, todo>> /\ c.driver = "typeset" BY <1>7 DEF Typesets
  <2>2. CASE Put(r, [c EXCEPT !.driver = "release"])
    <3>1. Kept([c EXCEPT !.driver = "release"], service, closeFailed) BY <1>0, <2>1, TypesetKept
    <3> QED BY <1>0, <2>1, <2>2, <3>1, OneRun
  <2>3. CASE c.op = "typeset" /\ ~c.runtime /\ service = "up" /\ Put(r, Ensure(c, "driver"))
    <3>1. Kept(Ensure(c, "driver"), service, closeFailed) BY <1>0, <2>1, <2>3, EnsureTypesetKept
    <3> QED BY <1>0, <2>1, <2>3, <3>1, OneRun
  <2> QED BY <1>7, <2>2, <2>3 DEF Typesets
<1>8. CASE ReleaseBegins(r)
  <2>1. UNCHANGED <<service, closeFailed, todo>> /\ c.driver = "release" BY <1>8 DEF ReleaseBegins
  <2>2. CASE Put(r, Finished(c)) /\ (c.phase = "review" => ~c.runtime)
    <3>1. Kept(Finished(c), service, closeFailed) BY <1>0, <2>1, <2>2, FinishedKept
    <3> QED BY <1>0, <2>1, <2>2, <3>1, OneRun
  <2>3. CASE c.phase = "review" /\ c.lock = "free" /\ c.runtime /\ Put(r, [c EXCEPT !.driver = "releasing", !.lock = "driver"])
    <3>1. Kept([c EXCEPT !.driver = "releasing", !.lock = "driver"], service, closeFailed)
      BY <1>0, <2>1, <2>3, ReleasingKept
    <3> QED BY <1>0, <2>1, <2>3, <3>1, OneRun
  <2> QED BY <1>8, <2>2, <2>3 DEF ReleaseBegins
<1>9. CASE ReleaseEnds(r)
  <2>1. UNCHANGED <<service, todo>> /\ c.driver = "releasing" BY <1>9 DEF ReleaseEnds
  <2>2. CASE /\ Put(r, Unlocked([Finished(c) EXCEPT !.runtime = FALSE, !.orch = FALSE, !.child = FALSE]))
             /\ UNCHANGED closeFailed
    <3>1. Kept(Unlocked([Finished(c) EXCEPT !.runtime = FALSE, !.orch = FALSE, !.child = FALSE]), service, closeFailed)
      BY <1>0, <2>1, ReleasedKept
    <3> QED BY <1>0, <2>1, <2>2, <3>1, OneRun
  <2>3. CASE /\ \E child \in BOOLEAN :
                   Put(r, Unlocked([Stopped(c) EXCEPT !.error = "memory", !.shown = "error", !.child = child]))
             /\ closeFailed' = TRUE
    <3>1. PICK child \in BOOLEAN :
            Put(r, Unlocked([Stopped(c) EXCEPT !.error = "memory", !.shown = "error", !.child = child]))
      BY <2>3
    <3>2. Kept(Unlocked([Stopped(c) EXCEPT !.error = "memory", !.shown = "error", !.child = child]), service, TRUE)
      BY <1>0, <2>1, NotReleasedKept
    <3> QED BY <1>0, <2>1, <2>3, <3>1, <3>2, OneRun
  <2> QED BY <1>9, <2>2, <2>3 DEF ReleaseEnds
<1>10. ASSUME NEW who \in {"command", "driver"}, HasOrchestrator(r, who) PROVE ServiceInv'
  <2>1. At(c, who) /\ c.lock = who /\ c.orch /\ Put(r, Unlocked(Onward(c, who))) /\ UNCHANGED <<service, closeFailed, todo>>
    BY <1>10 DEF HasOrchestrator
  <2>2. Like(c, c, {"runtime", "orch", "child"}) BY <1>0, KeptIsRec DEF Like
  <2>3. c.runtime /\ c.child /\ {c.runtime, c.orch, c.child} \subseteq BOOLEAN
    BY <1>0, <2>1 DEF At, Kept, RunKept, Shaped, RuntimeKept
  <2>4. Kept(Unlocked(Onward(c, who)), service, closeFailed) BY <1>0, <2>1, <2>2, <2>3, OnwardKept
  <2> QED BY <1>0, <2>1, <2>4, OneRun
<1>11. ASSUME NEW who \in {"command", "driver"}, FactoryMakes(r, who) PROVE ServiceInv'
  <2> DEFINE b == [c EXCEPT !.runtime = TRUE, !.orch = TRUE, !.child = TRUE]
  <2>1. At(c, who) /\ c.lock = who /\ ~c.orch /\ UNCHANGED <<service, closeFailed, todo>>
    BY <1>11 DEF FactoryMakes, InFactory
  <2>2. \/ Put(r, Unlocked(Onward(b, who)))
        \/ /\ who = "command" /\ c.command = "create"
           /\ \E saved \in BOOLEAN : Put(r, Unlocked([Raised(b, who) EXCEPT !.saved = saved]))
    BY <1>11 DEF FactoryMakes
  <2>3. Rec(c) BY <1>0, KeptIsRec
  <2>4. Like(c, b, {"runtime", "orch", "child"}) /\ b.runtime /\ b.orch /\ b.child
        /\ {b.runtime, b.orch, b.child} \subseteq BOOLEAN
    BY <2>3 DEF Like, Rec, Field
  <2> HIDE DEF b
  <2>5. CASE Put(r, Unlocked(Onward(b, who)))
    <3>1. Kept(Unlocked(Onward(b, who)), service, closeFailed) BY <1>0, <2>1, <2>4, OnwardKept
    <3> QED BY <1>0, <2>1, <2>5, <3>1, OneRun
  <2>6. ASSUME who = "command", c.command = "create", NEW saved \in BOOLEAN,
               Put(r, Unlocked([Raised(b, who) EXCEPT !.saved = saved]))
        PROVE  ServiceInv'
    <3>1. c.at = "ensure" /\ c.lock = "command" BY <2>1, <2>6 DEF At
    <3>2. Kept(Unlocked([Raised(b, "command") EXCEPT !.saved = saved]), service, closeFailed)
      BY <1>0, <2>4, <2>6, <3>1, CreateRaisedKept
    <3> QED BY <1>0, <2>1, <2>6, <3>2, OneRun
  <2> QED BY <2>2, <2>5, <2>6
<1>12. ASSUME NEW who \in {"command", "driver"}, FactoryFails(r, who) PROVE ServiceInv'
  <2>1. At(c, who) /\ c.lock = who /\ ~c.orch /\ Put(r, Unlocked(Raised(c, who))) /\ UNCHANGED <<service, closeFailed, todo>>
    BY <1>12 DEF FactoryFails, InFactory
  <2>2. Like(c, c, {"runtime", "child"}) BY <1>0, KeptIsRec DEF Like
  <2>3. (c.child => c.runtime) /\ {c.runtime, c.child} \subseteq BOOLEAN
      BY <1>0 DEF Kept, RunKept, Shaped, RuntimeKept
  <2>4. Kept(Unlocked(Raised(c, who)), service, closeFailed) BY <1>0, <2>1, <2>2, <2>3, RaisedKept
  <2> QED BY <1>0, <2>1, <2>4, OneRun
<1>13. ASSUME NEW who \in {"command", "driver"}, BindFails(r, who) PROVE ServiceInv'
  <2> DEFINE b == [c EXCEPT !.runtime = TRUE, !.child = TRUE]
  <2>1. At(c, who) /\ c.lock = who /\ ~c.orch /\ UNCHANGED <<service, todo>> /\ closeFailed' = TRUE
        /\ Put(r, Unlocked(Raised(b, who)))
    BY <1>13 DEF BindFails, InFactory
  <2>2. Rec(c) BY <1>0, KeptIsRec
  <2>3. Like(c, b, {"runtime", "child"}) /\ b.runtime /\ {b.runtime, b.child} \subseteq BOOLEAN
    BY <2>2 DEF Like, Rec, Field
  <2> HIDE DEF b
  <2>4. Kept(Unlocked(Raised(b, who)), service, TRUE) BY <1>0, <2>1, <2>3, RaisedKept
  <2> QED BY <1>0, <2>1, <2>4, OneRun
<1>14. CASE CreateRun(r)
  <2> DEFINE d == Ensure([Absent EXCEPT !.known = TRUE, !.command = "create"], "command")
  <2>1. service = "up" /\ ~closeFailed /\ Put(r, d) /\ UNCHANGED <<service, closeFailed, todo>>
    BY <1>14 DEF CreateRun, Idle
  <2>2. Kept(d, service, closeFailed) BY <1>0, <2>1, CreateKept
  <2> QED BY <1>0, <2>1, <2>2, OneRun
<1>15. ASSUME NEW command \in {"pause", "resume", "branch"}, Begin(r, command),
              Phase(c) = CASE command = "pause" -> "exploring" [] command = "resume" -> "paused" [] OTHER -> "review"
       PROVE  ServiceInv'
  <2> DEFINE d == Ensure([c EXCEPT !.command = command], "command")
  <2>1. service = "up" /\ ~closeFailed /\ c.known /\ c.command = "none" /\ Put(r, d)
        /\ UNCHANGED <<service, closeFailed, todo>>
    BY <1>15 DEF Begin, Idle
  <2>2. Kept(d, service, closeFailed) BY <1>0, <1>15, <2>1, BeginKept
  <2> QED BY <1>0, <2>1, <2>2, OneRun
<1>16. CASE InterruptRun(r)
  <2> DEFINE d == Ensure([Cancelled(c) EXCEPT !.command = "interrupt"], "command")
  <2>1. service = "up" /\ ~closeFailed /\ c.known /\ c.command = "none" /\ c.calling /\ Put(r, d)
        /\ UNCHANGED <<service, closeFailed, todo>>
    BY <1>16 DEF InterruptRun, Idle
  <2>2. Kept(d, service, closeFailed) BY <1>0, <2>1, InterruptKept
  <2> QED BY <1>0, <2>1, <2>2, OneRun
<1> DEFINE a == [c EXCEPT !.command = "none", !.at = "none"]
<1>17. CASE InterruptEnds(r)
  <2>1. c.at = "abort" /\ UNCHANGED <<service, closeFailed, todo>> BY <1>17 DEF InterruptEnds
  <2>2. Kept(a, service, closeFailed) BY <1>0, <2>1, AnsweredKept
  <2>3. Kept([a EXCEPT !.calling = FALSE, !.interrupted = TRUE, !.shown = "interrupted"], service, closeFailed)
    BY <1>0, <2>1, InterruptedKept
  <2>4. Put(r, a) \/ Put(r, [a EXCEPT !.calling = FALSE, !.interrupted = TRUE, !.shown = "interrupted"])
    BY <1>17 DEF InterruptEnds
  <2> HIDE DEF a
  <2> QED BY <1>0, <2>1, <2>2, <2>3, <2>4, OneRun
<1>18. CASE BranchFails(r)
  <2>1. c.at = "wait" /\ c.driver = "none" /\ Put(r, a) /\ UNCHANGED <<service, closeFailed, todo>>
    BY <1>18 DEF BranchFails
  <2>2. Kept(a, service, closeFailed) BY <1>0, <2>1, AnsweredKept
  <2> QED BY <1>0, <2>1, <2>2, OneRun
<1>19. CASE CreateUndone(r)
  <2>1. c.at = "undo" /\ UNCHANGED <<service, todo>> BY <1>19 DEF CreateUndone
  <2>2. CASE Put(r, [Absent EXCEPT !.saved = a.saved]) /\ UNCHANGED closeFailed
    <3>1. a.saved \in BOOLEAN BY <1>0 DEF Kept, RunKept, Shaped, Field
    <3>2. Kept([Absent EXCEPT !.saved = a.saved], service, closeFailed) BY <3>1, ForgottenKept
    <3> QED BY <1>0, <2>1, <2>2, <3>2, OneRun
  <2>3. CASE Put(r, a) /\ closeFailed' = TRUE
    <3>1. Kept(c, service, TRUE) BY <1>0, MoreFailedKept
    <3>2. Kept(a, service, TRUE) BY <2>1, <3>1, AnsweredKept
    <3> QED BY <1>0, <2>1, <2>3, <3>2, OneRun
  <2> QED BY <1>19, <2>2, <2>3 DEF CreateUndone
<1>20. CASE ClosesRuntime(r)
  <2> DEFINE d == [c EXCEPT !.runtime = FALSE, !.orch = FALSE, !.child = FALSE]
  <2>1. service = "closing" /\ UNCHANGED <<service, closeFailed>> /\ todo' \subseteq Run
      BY <1>0, <1>20 DEF ClosesRuntime
  <2>2. CASE Put(r, d)
    <3>1. Kept(d, service, closeFailed) BY <1>0, <2>1, ClosedKept
    <3> QED BY <1>0, <2>1, <2>2, <3>1, OneRun
  <2>3. CASE UNCHANGED ctx BY <2>1, <2>3 DEF ServiceInv
  <2> QED BY <1>20, <2>2, <2>3 DEF ClosesRuntime
<1>21. CASE PauseRun(r) BY <1>15, <1>21 DEF PauseRun
<1>22. CASE ResumeRun(r) BY <1>15, <1>22 DEF ResumeRun
<1>23. CASE CreateBranch(r) BY <1>15, <1>23 DEF CreateBranch
<1> QED
  BY <1>1, <1>2, <1>3, <1>4, <1>5, <1>6, <1>7, <1>8, <1>9, <1>10, <1>11, <1>12, <1>13, <1>14, <1>16, <1>17, <1>18,
     <1>19, <1>20, <1>21, <1>22, <1>23 DEF RunStep

LEMMA EachRun ==
  ASSUME service' \in {"down", "up", "settling", "closing"}, closeFailed' \in BOOLEAN, todo' \subseteq Run,
         ctx' = [r \in Run |-> ctx'[r]], \A r \in Run : Kept(ctx'[r], service', closeFailed')
  PROVE  ServiceInv'
BY DEF ServiceInv

LEMMA CloseBeginsKeeps == ASSUME ServiceInv, CloseBegins PROVE ServiceInv'
<1>1. ASSUME NEW r \in Run PROVE Kept(ctx'[r], "settling", closeFailed)
  <2>1. Kept(ctx[r], "up", closeFailed) /\ closeFailed \in BOOLEAN /\ ctx[r].command = "none"
    BY DEF ServiceInv, CloseBegins
  <2>2. Kept(ctx[r], "settling", closeFailed) /\ Kept(Settling(ctx[r]), "settling", closeFailed)
    BY <2>1, SettlingKept
  <2> QED BY <2>2 DEF CloseBegins
<1> QED BY <1>1, EachRun DEF ServiceInv, CloseBegins

LEMMA SettledKeeps == ASSUME ServiceInv, Settled PROVE ServiceInv'
<1>1. ASSUME NEW r \in Run PROVE Kept(ctx'[r], "closing", closeFailed)
  <2>1. Kept(ctx[r], "settling", closeFailed) /\ closeFailed \in BOOLEAN BY DEF ServiceInv, Settled
  <2>2. Kept(IF ctx[r].driver # "none" THEN Cancelled(ctx[r]) ELSE ctx[r], "closing", closeFailed)
      BY <2>1, SettledKept
  <2> QED BY <2>2 DEF Settled
<1> QED BY <1>1, EachRun DEF ServiceInv, Settled

LEMMA CloseEndsKeeps == ASSUME ServiceInv, CloseEnds PROVE ServiceInv'
<1> DEFINE left == \E r \in Run : ctx[r].known /\ ctx[r].runtime
<1>1. \A r \in Run : Kept(ctx[r], "closing", closeFailed) /\ closeFailed \in BOOLEAN BY DEF ServiceInv, CloseEnds
<1>2. CASE left
  <2>1. service' = "up" /\ closeFailed' = TRUE /\ UNCHANGED <<ctx, todo>> BY <1>2 DEF CloseEnds
  <2>2. \A r \in Run : Kept(ctx[r], "up", TRUE) BY <1>1, CloseEndsKept
  <2> QED BY <2>1, <2>2, EachRun DEF ServiceInv
<1>3. CASE ~left
  <2>1. service' = "down" /\ closeFailed' = FALSE /\ UNCHANGED <<ctx, todo>> BY <1>3 DEF CloseEnds
  <2>2. \A r \in Run : Kept(ctx[r], "down", FALSE) BY <1>1, <1>3, CloseEndsKept
  <2> QED BY <2>1, <2>2, EachRun DEF ServiceInv
<1> QED BY <1>2, <1>3

LEMMA ServiceStartsKeeps == ASSUME ServiceInv, ServiceStarts PROVE ServiceInv'
<1>1. PICK f \in [Run -> UNION {Recovered(Reloaded(ctx[r])) : r \in Run} \cup {Absent}] :
        /\ \A r \in Run : IF ctx[r].saved THEN f[r] \in Recovered(Reloaded(ctx[r])) ELSE f[r] = Absent
        /\ ctx' = f
  BY DEF ServiceStarts
<1>2. ASSUME NEW r \in Run PROVE Kept(f[r], "up", closeFailed)
  <2>1. Shaped(ctx[r]) /\ DriverKept(ctx[r]) /\ closeFailed \in BOOLEAN BY DEF ServiceInv, Kept, RunKept
  <2>2. \A d \in Recovered(Reloaded(ctx[r])) : Kept(d, "up", closeFailed) BY <2>1, RecoveredKept
  <2>3. Kept(Absent, "up", closeFailed) BY AbsentKept
  <2> QED BY <1>1, <2>2, <2>3
<1>3. service' = "up" /\ UNCHANGED <<closeFailed, todo>> BY DEF ServiceStarts
<1>4. ctx' = [r \in Run |-> ctx'[r]] /\ \A r \in Run : Kept(ctx'[r], "up", closeFailed) BY <1>1, <1>2
<1> QED BY <1>3, <1>4, EachRun DEF ServiceInv

LEMMA ServiceCrashesKeeps == ASSUME ServiceInv, ServiceCrashes PROVE ServiceInv'
<1>1. ASSUME NEW r \in Run PROVE Kept(ctx'[r], "down", FALSE)
  <2>1. Shaped(ctx[r]) /\ DriverKept(ctx[r]) BY DEF ServiceInv, Kept, RunKept
  <2>2. Kept(Reloaded(ctx[r]), "down", FALSE) BY <2>1, RecoveredKept
  <2>3. Kept(Absent, "down", FALSE) BY AbsentKept
  <2> QED BY <2>2, <2>3 DEF ServiceCrashes
<1>2. service' = "down" /\ closeFailed' = FALSE /\ todo' = {} /\ ctx' = [r \in Run |-> ctx'[r]] BY DEF ServiceCrashes
<1> QED BY <1>1, <1>2, EachRun

LEMMA ServiceStep == ASSUME ServiceInv, [ServiceNext]_serviceVars PROVE ServiceInv'
<1>1. CASE UNCHANGED serviceVars BY <1>1 DEF ServiceInv, serviceVars
<1>2. CASE ServiceNext
  BY <1>2, CloseBeginsKeeps, SettledKeeps, CloseEndsKeeps, ServiceStartsKeeps, ServiceCrashesKeeps, RunStepKeeps
     DEF ServiceNext
<1> QED BY <1>1, <1>2

LEMMA ServiceStarted == ServiceInit => ServiceInv
<1> SUFFICES ASSUME ServiceInit PROVE ServiceInv OBVIOUS
<1>1. Kept(Absent, "up", FALSE) BY AbsentKept
<1> QED BY <1>1 DEF ServiceInit, ServiceInv

-----------------------------------------------------------------------------

LEMMA ShapedIsContext == ASSUME NEW c, Shaped(c) PROVE c \in Context
BY DEF Shaped, Context, Field

LEMMA BooksMakeSound == ServiceInv => RunsSound
<1> SUFFICES ASSUME ServiceInv PROVE RunsSound OBVIOUS
<1>1. \A r \in Run : RunKept(ctx[r]) /\ RestKept(ctx[r], service, closeFailed) BY DEF ServiceInv, Kept
<1>2. ServiceTypeOK
  <2>1. ctx = [r \in Run |-> ctx[r]] BY DEF ServiceInv
  <2>2. ctx \in [Run -> Context] BY <1>1, <2>1, ShapedIsContext DEF RunKept
  <2>3. \A r \in Run : LET c == ctx[r] IN
          /\ c.orch => c.runtime /\ c.known
          /\ c.lock = "command" => c.at = "ensure"
          /\ c.lock = "driver" => c.driver \in {"ensure", "releasing"}
          /\ c.at = "none" <=> c.command = "none"
    BY <1>1 DEF RunKept, RuntimeKept, LockKept, CommandKept
  <2> QED BY <2>2, <2>3 DEF ServiceTypeOK, ServiceInv
<1>3. RuntimeReachable BY <1>1 DEF RuntimeReachable, Held, RunKept, RuntimeKept
<1>4. ClosedIsClean BY <1>1 DEF ClosedIsClean, RunKept, RuntimeKept, RestKept
<1>5. OperationHasRuntime BY <1>1 DEF OperationHasRuntime, RunKept, RuntimeKept
<1>6. WayOut BY <1>1 DEF WayOut, AtRest, RestKept
<1>7. ReviewReleases BY <1>1 DEF ReviewReleases, AtRest, RestKept
<1>8. RestIsRest
  <2> SUFFICES ASSUME NEW r \in Run, Phase(ctx[r]) \in {"paused", "review"}
               PROVE  ctx[r].driver \in {"none", "scheduled", "ensure"}
    BY DEF RestIsRest
  <2>1. ctx[r].shown = "none" BY <1>1 DEF Phase, RunKept, Shaped
  <2> QED BY <1>1, <2>1 DEF RunKept, DriverKept
<1> QED BY <1>2, <1>3, <1>4, <1>5, <1>6, <1>7, <1>8 DEF RunsSound

(* Whatever is made, used, released, closed or lost, and in whatever order *)
(* it fails, a runtime is held for as long as anything uses it and no      *)
(* longer, and the phase a user sees is true and leaves something to do.   *)
THEOREM RunsThm == ServiceSpec => []RunsSound
<1>1. ServiceInit => ServiceInv BY ServiceStarted
<1>2. ServiceInv /\ [ServiceNext]_serviceVars => ServiceInv' BY ServiceStep
<1>3. ServiceInv => RunsSound BY BooksMakeSound
<1> QED BY <1>1, <1>2, <1>3, PTL DEF ServiceSpec

=============================================================================
