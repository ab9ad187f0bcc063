----------------------------- MODULE HostOwners ------------------------------
(***************************************************************************)
(* What the two locks of a host say of their owners: the lock file of a    *)
(* profile and the lease of a run.                                         *)
(***************************************************************************)
EXTENDS ProfileLock, HostLease

(* What a process is told of an owner is so: of the path it holds, of the  *)
(* process named in the file, of a run that is busy.                       *)
OwnersHonest ==
    /\ [](LockTypeOK /\ OwnPathStays /\ LeaseTypeOK /\ PayloadHonest)
    /\ BusyMeansUsed

=============================================================================
