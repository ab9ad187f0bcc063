------------------------------ MODULE HostLease ------------------------------
(***************************************************************************)
(* The host-wide lease of scientific runs, derivation_app/                 *)
(* host_run_lease.py: an flock of one file that is never unlinked, a set   *)
(* of leased paths in each process (active), and the holder's name in the  *)
(* file.  The critical section under _PROCESS_GUARD is one action;         *)
(* everything outside it is one action per system call.  Opening the file  *)
(* and closing a descriptor that holds no lock change nothing others see.  *)
(***************************************************************************)
EXTENDS Processes

\* A thread, with the process it runs in.
Thread == Pid \X Slot

VARIABLES
    leaseLock,  \* the thread whose descriptor holds the flock
    active,     \* the processes whose _ACTIVE_PATHS holds the path
    payload,    \* the thread the file names; Nobody when it is empty
    at,         \* where a thread stands
    retained    \* the threads whose lease went to _FAILED_LEASES

leaseVars == <<leaseLock, active, payload, at, retained>>

Phases == {"out", "opened", "locked", "truncated", "held", "failed", "emptied", "unlocked"}

LeaseTypeOK ==
    /\ leaseLock \in Thread \cup {Nobody}
    /\ active \subseteq Pid
    /\ payload \in Thread \cup {Nobody}
    /\ at \in [Thread -> Phases]
    /\ retained \subseteq Thread

LeaseInit ==
    /\ leaseLock = Nobody /\ active = {} /\ payload = Nobody
    /\ at = [c \in Thread |-> "out"]
    /\ retained = {}

Move(c, from, to) == at[c] = from /\ at' = [at EXCEPT ![c] = to]

-----------------------------------------------------------------------------
(* acquire *)

Open(c) == Move(c, "out", "opened") /\ UNCHANGED <<leaseLock, active, payload, retained>>

\* Mutant: only the paths of this process are looked at.
FreeHere(c) == c[1] \notin active

Free(c) == c[1] \notin active /\ leaseLock = Nobody

Guarded(c) ==
    /\ Free(c) /\ Move(c, "opened", "locked")
    /\ leaseLock' = c
    /\ active' = active \cup {c[1]}
    /\ UNCHANGED <<payload, retained>>

\* HostRunLeaseBusy: this process or another one holds the lease.
Busy(c) == ~Free(c) /\ Move(c, "opened", "out") /\ UNCHANGED <<leaseLock, active, payload, retained>>

Truncate(c) == Move(c, "locked", "truncated") /\ payload' = Nobody /\ UNCHANGED <<leaseLock, active, retained>>

WriteOwner(c) == Move(c, "truncated", "held") /\ payload' = c /\ UNCHANGED <<leaseLock, active, retained>>

\* Mutant: the path is still there after a failed acquire.
ForgetNothing(c) ==
    /\ Move(c, "locked", "failed") \/ Move(c, "truncated", "failed")
    /\ UNCHANGED <<leaseLock, active, payload, retained>>

\* Writing the payload failed: the path is forgotten, then the descriptor closed.
Forget(c) ==
    /\ Move(c, "locked", "failed") \/ Move(c, "truncated", "failed")
    /\ active' = active \ {c[1]}
    /\ UNCHANGED <<leaseLock, payload, retained>>

CloseFailed(c) == Move(c, "failed", "out") /\ leaseLock' = Nobody /\ UNCHANGED <<active, payload, retained>>

-----------------------------------------------------------------------------
(* release; a lease kept after a failed cleanup is released by nobody *)

Empty(c) ==
    /\ c \notin retained
    /\ Move(c, "held", "emptied") /\ payload' = Nobody
    /\ UNCHANGED <<leaseLock, active, retained>>

Unlock(c) == Move(c, "emptied", "unlocked") /\ leaseLock' = Nobody /\ UNCHANGED <<active, payload, retained>>

ForgetReleased(c) ==
    /\ Move(c, "unlocked", "out")
    /\ active' = active \ {c[1]}
    /\ UNCHANGED <<leaseLock, payload, retained>>

Retain(c) ==
    /\ at[c] = "held" /\ retained' = retained \cup {c}
    /\ UNCHANGED <<leaseLock, active, payload, at>>

\* A process that ends gives up its flock and its memory, and leaves the payload.
LeaseDie(p) ==
    /\ at' = [c \in Thread |-> IF c[1] = p THEN "out" ELSE at[c]]
    /\ leaseLock' = IF leaseLock # Nobody /\ leaseLock[1] = p THEN Nobody ELSE leaseLock
    /\ active' = active \ {p}
    /\ retained' = {c \in retained : c[1] # p}
    /\ UNCHANGED payload

LeaseAcquire(c) == Open(c) \/ Guarded(c) \/ Busy(c) \/ Truncate(c) \/ WriteOwner(c) \/ Forget(c) \/ CloseFailed(c)
LeaseRelease(c) == Empty(c) \/ Unlock(c) \/ ForgetReleased(c) \/ Retain(c)

LeaseNext ==
    \/ \E c \in Thread : LeaseAcquire(c) \/ LeaseRelease(c)
    \/ \E p \in Pid : LeaseDie(p)

LeaseSpec == LeaseInit /\ [][LeaseNext]_leaseVars

-----------------------------------------------------------------------------

Holding(c) == at[c] \in {"locked", "truncated", "held", "failed", "emptied"}

\* The thread between taking the flock and giving it up.
LeaseOwner == IF \E c \in Thread : Holding(c) THEN CHOOSE c \in Thread : Holding(c) ELSE Nobody

Lease == INSTANCE OneOwner WITH Client <- Thread, owner <- LeaseOwner

(* Two registers, one of the process and one of the system, taken together *)
(* and given up one after the other in the opposite order on the error     *)
(* path and the release path, still make one lock.                         *)
LeaseImplementsOwner == Lease!OwnerSpec

(* Whoever reads the file finds nobody, its holder, or a name left by a    *)
(* process that died; the name it left never stands for the next holder.   *)
PayloadHonest ==
    \A c, d \in Thread : payload = c /\ at[d] \in {"truncated", "held", "emptied"} => c = d

(* A lease is refused only while some thread is using it, taking it or     *)
(* giving it up: no failed acquire and no release leaves the path behind.  *)
BusyIsUsed == \A c \in Thread : Busy(c) => \E d \in Thread : at[d] \notin {"out", "opened"}
BusyMeansUsed == [][BusyIsUsed]_leaseVars

=============================================================================
