----------------------------- MODULE ProfileLock -----------------------------
(***************************************************************************)
(* The profile instance lock, derivation_app/product_profile.py: a file    *)
(* made with O_EXCL that names the process of its owner.  Each lock object *)
(* (a Client) belongs to one process.  A file whose process is dead may be *)
(* reclaimed, under an flock of that file, by whoever finds it.  One       *)
(* action is one system call; other clients run between any two of them.   *)
(* A file is known by its inode, and the file system may give the inode of *)
(* a file that is neither linked nor open to the next file.                *)
(***************************************************************************)
EXTENDS Processes

CONSTANT Inode     \* inodes of the file system

ASSUME LockAssumption == Nobody \notin Inode

\* A lock object, with the process it lives in.
Client == Pid \X Slot
PidOf(c) == c[1]

VARIABLES
    path,    \* the inode the lock's path leads to, or Nobody
    text,    \* the process a file names; Nobody while nothing was written
    flock,   \* the client whose descriptor holds the flock of an inode
    alive,   \* the processes that exist
    pc,      \* where a client stands in acquire or release
    fd       \* the inode a client holds open

lockVars == <<path, text, flock, alive, pc, fd>>

Owning     == {"created", "held", "checked"}
Reclaiming == {"opened", "locked", "dead", "same", "unlinked"}
Places     == {"idle", "found", "gone"} \cup Owning \cup Reclaiming

LockTypeOK ==
    /\ path \in Inode \cup {Nobody}
    /\ text \in [Inode -> Pid \cup {Nobody}]
    /\ flock \in [Inode -> Client \cup {Nobody}]
    /\ alive \subseteq Pid
    /\ pc \in [Client -> Places]
    /\ fd \in [Client -> Inode \cup {Nobody}]

LockInit ==
    /\ path = Nobody
    /\ text = [i \in Inode |-> Nobody]
    /\ flock = [i \in Inode |-> Nobody]
    /\ alive = Pid
    /\ pc = [c \in Client |-> "idle"]
    /\ fd = [c \in Client |-> Nobody]

Proceeds(c, from, to) == pc[c] = from /\ PidOf(c) \in alive /\ pc' = [pc EXCEPT ![c] = to]

\* Closing a descriptor gives up the flock taken through it.
Close(c) ==
    /\ fd' = [fd EXCEPT ![c] = Nobody]
    /\ flock' = [i \in Inode |-> IF flock[i] = c THEN Nobody ELSE flock[i]]

-----------------------------------------------------------------------------
(* acquire *)

Create(c) ==
    /\ Proceeds(c, "idle", "created")
    /\ path = Nobody
    /\ \E i \in Inode :
          /\ \A d \in Client : fd[d] # i
          /\ path' = i
          /\ text' = [text EXCEPT ![i] = Nobody]
          /\ fd' = [fd EXCEPT ![c] = i]
    /\ UNCHANGED <<flock, alive>>

FindTaken(c) == Proceeds(c, "idle", "found") /\ path # Nobody /\ UNCHANGED <<path, text, flock, alive, fd>>

WritePid(c) ==
    /\ Proceeds(c, "created", "held")
    /\ text' = [text EXCEPT ![fd[c]] = PidOf(c)]
    /\ UNCHANGED <<path, flock, alive, fd>>

\* The write failed: the descriptor is closed and the path unlinked.
WriteFails(c) ==
    /\ Proceeds(c, "created", "idle")
    /\ path' = Nobody
    /\ Close(c)
    /\ UNCHANGED <<text, alive>>

-----------------------------------------------------------------------------
(* _reclaim_dead_owner *)

OpenTaken(c) ==
    /\ UNCHANGED <<path, text, flock, alive>>
    /\ \/ path # Nobody /\ Proceeds(c, "found", "opened") /\ fd' = [fd EXCEPT ![c] = path]
       \/ path = Nobody /\ Proceeds(c, "found", "idle") /\ UNCHANGED fd

TryFlock(c) ==
    /\ UNCHANGED <<path, text, alive>>
    /\ \/ /\ Proceeds(c, "opened", "locked") /\ flock[fd[c]] = Nobody
          /\ flock' = [flock EXCEPT ![fd[c]] = c] /\ UNCHANGED fd
       \/ Proceeds(c, "opened", "idle") /\ flock[fd[c]] # Nobody /\ Close(c)

\* Mutant: a file that names nobody yet is taken for one whose owner died.
ProbeLoosely(c) ==
    LET dead == text[fd[c]] \notin alive IN
    /\ UNCHANGED <<path, text, alive>>
    /\ \/ Proceeds(c, "locked", "dead") /\ dead /\ UNCHANGED <<flock, fd>>
       \/ Proceeds(c, "locked", "idle") /\ ~dead /\ Close(c)

ProbeOwner(c) ==
    LET dead == text[fd[c]] # Nobody /\ text[fd[c]] \notin alive IN
    /\ UNCHANGED <<path, text, alive>>
    /\ \/ Proceeds(c, "locked", "dead") /\ dead /\ UNCHANGED <<flock, fd>>
       \/ Proceeds(c, "locked", "idle") /\ ~dead /\ Close(c)

ComparePath(c) ==
    /\ UNCHANGED <<path, text, alive>>
    /\ \/ Proceeds(c, "dead", "same") /\ path = fd[c] /\ UNCHANGED <<flock, fd>>
       \/ Proceeds(c, "dead", "idle") /\ path # fd[c] /\ Close(c)

Unlink(c) == Proceeds(c, "same", "unlinked") /\ path' = Nobody /\ UNCHANGED <<text, flock, alive, fd>>

\* Leaving the try block closes the descriptor; the caller acquires again.
CloseStale(c) == Proceeds(c, "unlinked", "idle") /\ Close(c) /\ UNCHANGED <<path, text, alive>>

-----------------------------------------------------------------------------
(* release, and the death of a process *)

CheckOwn(c)  == Proceeds(c, "held", "checked") /\ path = fd[c] /\ UNCHANGED <<path, text, flock, alive, fd>>
UnlinkOwn(c) == Proceeds(c, "checked", "gone") /\ path' = Nobody /\ UNCHANGED <<text, flock, alive, fd>>
CloseOwn(c)  == Proceeds(c, "gone", "idle") /\ Close(c) /\ UNCHANGED <<path, text, alive>>

Die(p) ==
    LET mine == {c \in Client : PidOf(c) = p} IN
    /\ p \in alive
    /\ alive' = alive \ {p}
    /\ pc' = [c \in Client |-> IF c \in mine THEN "idle" ELSE pc[c]]
    /\ fd' = [c \in Client |-> IF c \in mine THEN Nobody ELSE fd[c]]
    /\ flock' = [i \in Inode |-> IF flock[i] \in mine THEN Nobody ELSE flock[i]]
    /\ UNCHANGED <<path, text>>

\* A process number may be given to a new process at once.
Start(p) == p \notin alive /\ alive' = alive \cup {p} /\ UNCHANGED <<path, text, flock, pc, fd>>

Acquire(c) == Create(c) \/ FindTaken(c) \/ WritePid(c) \/ WriteFails(c)
Reclaim(c) == OpenTaken(c) \/ TryFlock(c) \/ ProbeOwner(c) \/ ComparePath(c) \/ Unlink(c) \/ CloseStale(c)
Release(c) == CheckOwn(c) \/ UnlinkOwn(c) \/ CloseOwn(c)

LockNext ==
    \/ \E c \in Client : Acquire(c) \/ Reclaim(c) \/ Release(c)
    \/ \E p \in Pid : Die(p) \/ Start(p)

LockSpec == LockInit /\ [][LockNext]_lockVars

-----------------------------------------------------------------------------

Owners == {c \in Client : pc[c] \in Owning}

\* The one client between the creation of the file and its unlinking.
ProfileOwner == IF Owners = {} THEN Nobody ELSE CHOOSE c \in Owners : TRUE

Profile == INSTANCE OneOwner WITH owner <- ProfileOwner

(* The lock file, its reclaimers and the process numbers that are given    *)
(* out again implement a lock: nobody takes a profile that is owned, and   *)
(* no reclaimer removes the file of a living owner.                        *)
LockImplementsOwner == Profile!OwnerSpec

(* A release never finds its own path changed, so that it cannot leave the *)
(* lock behind ("profile lock path changed while held").                   *)
OwnPathStays == \A c \in Client : pc[c] \in Owning => path = fd[c]

=============================================================================
