-------------------------------- MODULE Launch --------------------------------
(***************************************************************************)
(* Who holds the profile lock and the host run lease while App Server      *)
(* children are started and stopped: a dedicated run and an intake turn    *)
(* (derivation_app/factory.py), the holder that lends one child to several *)
(* runs (shared_client.py), and the owners cleanup passes to               *)
(* (product_profile.py).  Starting, closing and failing are steps with     *)
(* every outcome the client gives them; a close may time out and leave its *)
(* child alive.                                                           *)
(***************************************************************************)
EXTENDS Processes, Naturals, FiniteSets

CONSTANTS
    Solo,       \* runs with a child of their own
    Intake,     \* intake turns and model catalog reads
    Holder,     \* the holder of a shared child
    Borrower    \* runs that borrow the child of the holder

ASSUME LaunchAssumption ==
    /\ Solo \cap Intake = {} /\ Holder \notin Solo \cup Intake \cup Borrower
    /\ Nobody \notin Solo \cup Intake \cup Borrower \cup {Holder} /\ IsFiniteSet(Borrower)

Launcher == Solo \cup Intake \cup {Holder}

VARIABLES
    stage,      \* of each launcher: idle, locked, started, leased, open, unclosed, stuck, done or refused
    client,     \* its client: none, running, failed, closing or closed
    child,      \* its child
    profileOwner,  \* who holds the profile lock
    runtimeOwned,  \* the lock belongs to a runtime or to a pending cleanup
    hostOwner,  \* who holds the host run lease
    lent,       \* sessions lent: idle, open or done
    leases,     \* _leases of the holder
    leaky       \* children whose client was given up before it could be closed

launchVars == <<stage, client, child, profileOwner, runtimeOwned, hostOwner, lent, leases, leaky>>

LaunchTypeOK ==
    /\ stage \in [Launcher -> {"idle", "locked", "started", "leased", "open", "unclosed", "stuck", "done", "refused"}]
    /\ client \in [Launcher -> {"none", "running", "failed", "closing", "closed"}]
    /\ child \subseteq Launcher /\ leaky \subseteq Launcher /\ runtimeOwned \in BOOLEAN
    /\ profileOwner \in Launcher \cup {Nobody} /\ hostOwner \in Solo \cup {Nobody}
    /\ lent \in [Borrower -> {"idle", "open", "done"}] /\ leases \in 0 .. Cardinality(Borrower)

LaunchInit ==
    /\ stage = [u \in Launcher |-> "idle"] /\ client = [u \in Launcher |-> "none"]
    /\ child = {} /\ leaky = {} /\ profileOwner = Nobody /\ runtimeOwned = FALSE /\ hostOwner = Nobody
    /\ lent = [b \in Borrower |-> "idle"] /\ leases = 0

Goes(u, from, to) == stage[u] = from /\ stage' = [stage EXCEPT ![u] = to]
Becomes(u, state) == client' = [client EXCEPT ![u] = state]
IsRunning(u) == client[u] = "running"
Exited(u)    == u \notin child

LockBack(u) == profileOwner' = (IF profileOwner = u THEN Nobody ELSE profileOwner) /\ runtimeOwned' = FALSE
LeaseBack(u) == hostOwner' = IF hostOwner = u THEN Nobody ELSE hostOwner

\* close(): the child is gone, or the call times out and raises.
CloseReturns(u)   == Becomes(u, "closed") /\ child' = child \ {u}
CloseTimesOut(u) == u \in child /\ Becomes(u, "closing") /\ UNCHANGED child

-----------------------------------------------------------------------------

Lock(u) ==
    /\ IF profileOwner = Nobody THEN Goes(u, "idle", "locked") /\ profileOwner' = u
       ELSE Goes(u, "idle", "refused") /\ UNCHANGED profileOwner
    /\ UNCHANGED <<client, child, runtimeOwned, hostOwner, lent, leases, leaky>>

PrepareFails(u) ==
    /\ Goes(u, "locked", "done") /\ LockBack(u)
    /\ UNCHANGED <<client, child, hostOwner, lent, leases, leaky>>

StartClientOk(u) ==
    /\ Goes(u, "locked", "started") /\ Becomes(u, "running") /\ child' = child \cup {u}
    /\ UNCHANGED <<profileOwner, runtimeOwned, hostOwner, lent, leases, leaky>>

\* start() closes its child, or fails to; the client is not running, so the lock goes back.
StartClientFails(u) ==
    /\ Goes(u, "locked", "done") /\ LockBack(u)
    /\ \/ Becomes(u, "closed") /\ UNCHANGED <<child, leaky>>
       \/ Becomes(u, "closing") /\ child' = child \cup {u} /\ leaky' = leaky \cup {u}
    /\ UNCHANGED <<hostOwner, lent, leases>>

\* The client fails as a whole and terminates its child, which dies a little later.
ClientBreaks(u) ==
    /\ client[u] = "running" /\ Becomes(u, "failed")
    /\ UNCHANGED <<stage, child, profileOwner, runtimeOwned, hostOwner, lent, leases, leaky>>

ChildDies(u) ==
    /\ u \in child /\ client[u] # "running" /\ child' = child \ {u}
    /\ UNCHANGED <<stage, client, profileOwner, runtimeOwned, hostOwner, lent, leases, leaky>>

-----------------------------------------------------------------------------
(* A dedicated run: ProductRuntimeFactory.__call__ *)

LeaseRun(r) ==
    /\ hostOwner = Nobody /\ Goes(r, "started", "leased") /\ hostOwner' = r
    /\ UNCHANGED <<client, child, profileOwner, runtimeOwned, lent, leases, leaky>>

\* Mutant: the lock goes back although the close timed out.
GiveUpLaunchAnyway(r, from) ==
    /\ Goes(r, from, "done") /\ (CloseReturns(r) \/ CloseTimesOut(r)) /\ LockBack(r) /\ LeaseBack(r) /\ UNCHANGED leaky

\* Any other exception before the runtime owns the lock; one from close leaves all as it is.
GiveUpLaunch(r, from) ==
    \/ IsRunning(r) /\ Goes(r, from, "done") /\ CloseReturns(r) /\ LockBack(r) /\ LeaseBack(r) /\ UNCHANGED leaky
    \/ IsRunning(r) /\ Goes(r, from, "stuck") /\ CloseTimesOut(r) /\ UNCHANGED <<profileOwner, runtimeOwned, hostOwner, leaky>>
    \/ /\ ~IsRunning(r) /\ Goes(r, from, "done") /\ LockBack(r) /\ LeaseBack(r)
       /\ leaky' = leaky \cup ({r} \cap child) /\ UNCHANGED <<client, child>>

LeaseBusy(r) == hostOwner # Nobody /\ GiveUpLaunch(r, "started") /\ UNCHANGED <<lent, leases>>

Authorized(r) ==
    /\ Goes(r, "leased", "open") /\ runtimeOwned' = TRUE
    /\ UNCHANGED <<client, child, profileOwner, hostOwner, lent, leases, leaky>>

\* RejectedClientCleanup takes the lock and closes; the lease waits for it.
Rejected(r) ==
    /\ \/ Goes(r, "leased", "done") /\ CloseReturns(r) /\ LockBack(r) /\ LeaseBack(r)
       \/ Goes(r, "leased", "stuck") /\ CloseTimesOut(r) /\ runtimeOwned' = TRUE /\ UNCHANGED <<profileOwner, hostOwner>>
    /\ UNCHANGED <<lent, leases, leaky>>

\* What a close that failed leaves behind.
Retained(r) == UNCHANGED hostOwner

\* close() of the runtime lease; after a failure it may be called again.
CloseRun(r) ==
    /\ \/ /\ Goes(r, "open", "done") \/ Goes(r, "unclosed", "done")
          /\ CloseReturns(r) /\ LockBack(r) /\ LeaseBack(r)
       \/ /\ Goes(r, "open", "unclosed") \/ Goes(r, "unclosed", "unclosed")
          /\ CloseTimesOut(r) /\ Retained(r) /\ UNCHANGED <<profileOwner, runtimeOwned>>
       \* The last frames were bad: the child is gone, and close raises all the same.
       \/ Goes(r, "open", "unclosed") /\ IsRunning(r) /\ CloseReturns(r) /\ Retained(r) /\ UNCHANGED <<profileOwner, runtimeOwned>>
    /\ UNCHANGED <<lent, leases, leaky>>

-----------------------------------------------------------------------------
(* An intake turn: ProductIntakeTurnRunner._run and list_models *)

Confirmed(t) == ~IsRunning(t) /\ Exited(t)

EndTurnLock(t) ==
    /\ \/ IsRunning(t) /\ Goes(t, "started", "done") /\ CloseReturns(t) /\ LockBack(t)
       \/ IsRunning(t) /\ Goes(t, "started", "stuck") /\ CloseTimesOut(t) /\ UNCHANGED <<profileOwner, runtimeOwned>>
       \/ ~IsRunning(t) /\ Confirmed(t) /\ Goes(t, "started", "done") /\ LockBack(t) /\ UNCHANGED <<client, child>>
       \/ ~IsRunning(t) /\ ~Confirmed(t) /\ Goes(t, "started", "stuck")
          /\ UNCHANGED <<client, child, profileOwner, runtimeOwned>>
    /\ UNCHANGED <<hostOwner, lent, leases, leaky>>

-----------------------------------------------------------------------------
(* The holder: SharedProfileClientHolder *)

HolderOpens ==
    /\ Goes(Holder, "started", "open")
    /\ UNCHANGED <<client, child, profileOwner, runtimeOwned, hostOwner, lent, leases, leaky>>

HolderStartFails == GiveUpLaunch(Holder, "started") /\ UNCHANGED <<lent, leases>>

AcquireRun(b) ==
    /\ stage[Holder] = "open" /\ IsRunning(Holder) /\ lent[b] = "idle"
    /\ lent' = [lent EXCEPT ![b] = "open"] /\ leases' = leases + 1
    /\ UNCHANGED <<stage, client, child, profileOwner, runtimeOwned, hostOwner, leaky>>

\* The broker closes the child with its last session, here only after the keepalive.
ReleaseRun(b) ==
    /\ lent[b] = "open" /\ lent' = [lent EXCEPT ![b] = "done"] /\ leases' = leases - 1
    /\ \/ stage[Holder] = "open" /\ UNCHANGED <<client, child>>
       \/ stage[Holder] # "open" /\ leases = 1 /\ (CloseReturns(Holder) \/ CloseTimesOut(Holder))
       \/ stage[Holder] # "open" /\ leases > 1 /\ UNCHANGED <<client, child>>
    /\ UNCHANGED <<stage, profileOwner, runtimeOwned, hostOwner, leaky>>

\* Runs that still borrow lose their child; the lock goes back once it is gone.
CloseHolder ==
    /\ \/ IsRunning(Holder) /\ Goes(Holder, "open", "done") /\ CloseReturns(Holder) /\ LockBack(Holder)
       \/ IsRunning(Holder) /\ Goes(Holder, "open", "stuck") /\ CloseTimesOut(Holder) /\ UNCHANGED <<profileOwner, runtimeOwned>>
       \/ ~IsRunning(Holder) /\ Confirmed(Holder) /\ Goes(Holder, "open", "done") /\ LockBack(Holder) /\ UNCHANGED <<client, child>>
       \/ ~IsRunning(Holder) /\ ~Confirmed(Holder) /\ Goes(Holder, "open", "stuck")
          /\ UNCHANGED <<client, child, profileOwner, runtimeOwned>>
    /\ UNCHANGED <<hostOwner, lent, leases, leaky>>

LaunchNext ==
    \/ \E u \in Launcher :
          Lock(u) \/ PrepareFails(u) \/ StartClientOk(u) \/ StartClientFails(u) \/ ClientBreaks(u) \/ ChildDies(u)
    \/ \E r \in Solo : LeaseRun(r) \/ LeaseBusy(r) \/ Authorized(r) \/ Rejected(r) \/ CloseRun(r)
    \/ \E t \in Intake : EndTurnLock(t)
    \/ HolderOpens \/ HolderStartFails \/ CloseHolder
    \/ \E b \in Borrower : AcquireRun(b) \/ ReleaseRun(b)

LaunchSpec == LaunchInit /\ [][LaunchNext]_launchVars

-----------------------------------------------------------------------------

(* Two children never run under one profile: a child that is alive has the *)
(* profile lock, unless its client was given up during its own start or    *)
(* had already failed when the launch was given up.                        *)
LockCoversChild == \A u \in child \ leaky : profileOwner = u

(* The host lease is returned only after the child of the run is gone, and *)
(* a run that is open, or could not be closed, still has it.               *)
LeaseCoversRun == \A r \in Solo : stage[r] \in {"leased", "open", "unclosed"} => hostOwner = r /\ profileOwner = r

(* Who is done holds neither lock nor lease, and kept no child.            *)
DoneIsClean ==
    \A u \in Launcher : stage[u] = "done" => profileOwner # u /\ hostOwner # u /\ u \notin child \ leaky

(* The holder counts the sessions it has lent, and closes its child under  *)
(* none of them but by its own close.                                      *)
LeasesCounted ==
    /\ leases = Cardinality({b \in Borrower : lent[b] = "open"})
    /\ stage[Holder] = "open" => client[Holder] \in {"running", "failed"}

(* A child never runs without the lock and the lease taken for it, except  *)
(* where the code says that it gave up on it, and what is shared is given  *)
(* back once.                                                              *)
ChildrenCovered == LaunchTypeOK /\ LockCoversChild /\ LeaseCoversRun /\ DoneIsClean /\ LeasesCounted

=============================================================================
