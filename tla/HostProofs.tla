----------------------------- MODULE HostProofs -----------------------------
(***************************************************************************)
(* What holds of the lock file, the host lease, the event log and the      *)
(* launches for any number of processes, threads, inodes, events and runs. *)
(***************************************************************************)
EXTENDS HostOwners, EventLog, Launch, FiniteSetTheorems, TLAPS

-----------------------------------------------------------------------------
(* The profile lock.  A client that owns the path has the path's inode     *)
(* open; a reclaimer that saw a dead owner holds the flock of an inode     *)
(* that no living owner has open, and an open inode is not given out       *)
(* again; so whatever path it unlinks is nobody's.                         *)

Lives == \A c \in Client :
    /\ pc[c] # "idle" => PidOf(c) \in alive
    /\ pc[c] \in {"idle", "found"} => fd[c] = Nobody
    /\ pc[c] \notin {"idle", "found"} => fd[c] \in Inode

OneOwns == \A c, d \in Client : pc[c] \in Owning /\ pc[d] \in Owning => c = d

NamesOwner == \A c \in Client :
    /\ pc[c] = "created" => text[fd[c]] = Nobody
    /\ pc[c] \in {"held", "checked"} => text[fd[c]] = PidOf(c)

FlockTaken == \A c \in Client :
    pc[c] \in {"locked", "dead", "same", "unlinked"} => flock[fd[c]] = c

DeadUnowned == \A c, d \in Client :
    pc[c] \in {"dead", "same"} /\ pc[d] \in Owning => fd[d] # fd[c]

SameLinked == \A c \in Client : pc[c] = "same" => path = fd[c]

LockInv == LockTypeOK /\ Lives /\ OneOwns /\ OwnPathStays /\ NamesOwner
           /\ FlockTaken /\ DeadUnowned /\ SameLinked

(* The lock starts free and no client holds anything. *)
LEMMA LockInvInit == LockInit => LockInv
BY LockAssumption, NobodyAssumption DEF LockInit, LockInv, LockTypeOK, Lives, OneOwns, OwnPathStays, NamesOwner,
   FlockTaken, DeadUnowned, SameLinked, Owning, Places, Reclaiming, Client

(* Every system call keeps the invariant. *)
LEMMA LockInvStep == LockInv /\ [LockNext]_lockVars => LockInv'
<1> SUFFICES ASSUME LockInv, [LockNext]_lockVars PROVE LockInv' OBVIOUS
<1> USE LockAssumption, NobodyAssumption DEF LockInv, LockTypeOK, Lives, OneOwns, OwnPathStays, NamesOwner,
   FlockTaken, DeadUnowned, SameLinked, Owning, Places, Reclaiming, Proceeds
<1>0. \A c \in Client : PidOf(c) \in Pid /\ c # Nobody BY DEF Client, PidOf
<1>1. ASSUME NEW c \in Client, Create(c) PROVE LockInv'
  BY <1>0, <1>1 DEF Create
<1>2. ASSUME NEW c \in Client, FindTaken(c) PROVE LockInv'
  BY <1>0, <1>2 DEF FindTaken
<1>3. ASSUME NEW c \in Client, WritePid(c) PROVE LockInv'
  BY <1>0, <1>3 DEF WritePid
<1>4. ASSUME NEW c \in Client, WriteFails(c) PROVE LockInv'
  BY <1>0, <1>4 DEF WriteFails, Close
<1>5. ASSUME NEW c \in Client, OpenTaken(c) PROVE LockInv'
  BY <1>0, <1>5 DEF OpenTaken
<1>6. ASSUME NEW c \in Client, TryFlock(c) PROVE LockInv'
  BY <1>0, <1>6 DEF TryFlock, Close
<1>7. ASSUME NEW c \in Client, ProbeOwner(c) PROVE LockInv'
  BY <1>0, <1>7 DEF ProbeOwner, Close
<1>8. ASSUME NEW c \in Client, ComparePath(c) PROVE LockInv'
  BY <1>0, <1>8 DEF ComparePath, Close
<1>9. ASSUME NEW c \in Client, Unlink(c) PROVE LockInv'
  BY <1>0, <1>9 DEF Unlink
<1>10. ASSUME NEW c \in Client, CloseStale(c) PROVE LockInv'
  BY <1>0, <1>10 DEF CloseStale, Close
<1>11. ASSUME NEW c \in Client, CheckOwn(c) PROVE LockInv'
  BY <1>0, <1>11 DEF CheckOwn
<1>12. ASSUME NEW c \in Client, UnlinkOwn(c) PROVE LockInv'
  BY <1>0, <1>12 DEF UnlinkOwn
<1>13. ASSUME NEW c \in Client, CloseOwn(c) PROVE LockInv'
  BY <1>0, <1>13 DEF CloseOwn, Close
<1>14. ASSUME NEW p \in Pid, Die(p) PROVE LockInv'
  BY <1>0, <1>14 DEF Die
<1>15. ASSUME NEW p \in Pid, Start(p) PROVE LockInv'
  BY <1>0, <1>15 DEF Start
<1>16. CASE UNCHANGED lockVars BY <1>16 DEF lockVars
<1> QED BY <1>1, <1>2, <1>3, <1>4, <1>5, <1>6, <1>7, <1>8, <1>9, <1>10, <1>11, <1>12, <1>13,
           <1>14, <1>15, <1>16 DEF LockNext, Acquire, Reclaim, Release

LEMMA OwnerIsOwning ==
  ASSUME LockInv
  PROVE  /\ \A c \in Client : pc[c] \in Owning => ProfileOwner = c
         /\ (\A c \in Client : pc[c] \notin Owning) => ProfileOwner = Nobody
<1>1. \A c, d \in Client : c \in Owners /\ d \in Owners => c = d BY DEF LockInv, OneOwns, Owners
<1> QED BY <1>1 DEF ProfileOwner, Owners


(* The lock file implements a lock, for any number of processes, of lock   *)
(* objects in them, and of inodes that are used again.                     *)
THEOREM LockRefinement == LockSpec => LockImplementsOwner
<1>1. LockInit => Profile!OwnerInit
  BY DEF LockInit, Profile!OwnerInit, ProfileOwner, Owners, Owning
<1>2. LockInv /\ LockInv' /\ [LockNext]_lockVars => [Profile!OwnerNext]_ProfileOwner
  <2> SUFFICES ASSUME LockInv, LockInv', [LockNext]_lockVars
               PROVE  [Profile!OwnerNext]_ProfileOwner
    OBVIOUS
  <2>o. /\ \A c \in Client : pc[c] \in Owning => ProfileOwner = c
        /\ (\A c \in Client : pc[c] \notin Owning) => ProfileOwner = Nobody
    BY OwnerIsOwning
  <2>p. /\ \A c \in Client : pc'[c] \in Owning => ProfileOwner' = c
        /\ (\A c \in Client : pc'[c] \notin Owning) => ProfileOwner' = Nobody
    <3>1. \A c, d \in Client : c \in Owners' /\ d \in Owners' => c = d
      BY DEF LockInv, OneOwns, Owners
    <3> QED BY <3>1 DEF ProfileOwner, Owners
  <2>n. Nobody \notin Client BY LockAssumption, NobodyAssumption DEF Client
  <2>t. pc \in [Client -> Places] BY DEF LockInv, LockTypeOK
  <2>s. CASE \A c \in Client : pc'[c] \in Owning <=> pc[c] \in Owning
    BY <2>o, <2>p, <2>s
  <2>d. CASE \E c \in Client : pc[c] \in Owning /\ \A d \in Client : pc'[d] \notin Owning
    BY <2>o, <2>p, <2>n, <2>d DEF Profile!OwnerNext, Profile!Drop
  <2>k. CASE \E c \in Client : pc'[c] \in Owning /\ \A d \in Client : pc[d] \notin Owning
    BY <2>o, <2>p, <2>n, <2>k DEF Profile!OwnerNext, Profile!Take
  <2>u. \A c, d \in Client : pc[c] \in Owning /\ pc[d] \in Owning => c = d BY DEF LockInv, OneOwns
  <2>1. ASSUME NEW c \in Client, Create(c) PROVE [Profile!OwnerNext]_ProfileOwner
    <3>1. \A d \in Client : pc[d] \notin Owning
      BY <2>1, LockAssumption DEF Create, LockInv, OwnPathStays, Lives, LockTypeOK, Owning
    <3>2. pc'[c] \in Owning BY <2>1, <2>t DEF Create, Proceeds, Owning
    <3> QED BY <3>1, <3>2, <2>k
  <2>2. ASSUME NEW c \in Client, WriteFails(c) \/ UnlinkOwn(c) PROVE [Profile!OwnerNext]_ProfileOwner
    <3>1. pc[c] \in Owning BY <2>2 DEF WriteFails, UnlinkOwn, Proceeds, Owning
    <3>2. \A d \in Client : pc'[d] \notin Owning
      BY <2>2, <2>t, <2>u, <3>1 DEF WriteFails, UnlinkOwn, Proceeds, Owning
    <3> QED BY <3>1, <3>2, <2>d
  <2>3. ASSUME NEW p \in Pid, Die(p) PROVE [Profile!OwnerNext]_ProfileOwner
    <3>1. \A d \in Client : pc'[d] \in Owning => pc[d] \in Owning BY <2>3, <2>t DEF Die, Owning
    <3> QED BY <3>1, <2>u, <2>s, <2>d
  <2>4. ASSUME NEW c \in Client, \/ FindTaken(c) \/ WritePid(c) \/ Reclaim(c)
                                  \/ CheckOwn(c) \/ CloseOwn(c)
        PROVE [Profile!OwnerNext]_ProfileOwner
    <3>1. \A d \in Client : pc'[d] \in Owning <=> pc[d] \in Owning
      BY <2>4, <2>t DEF FindTaken, WritePid, Reclaim, OpenTaken, TryFlock, ProbeOwner, ComparePath,
         Unlink, CloseStale, CheckOwn, CloseOwn, Proceeds, Owning
    <3> QED BY <3>1, <2>s
  <2>5. CASE (\E p \in Pid : Start(p)) \/ UNCHANGED lockVars
    BY <2>5, <2>s DEF Start, lockVars
  <2> QED BY <2>1, <2>2, <2>3, <2>4, <2>5 DEF LockNext, Acquire, Release
<1>3. LockSpec => []LockInv BY LockInvInit, LockInvStep, PTL DEF LockSpec
<1> QED BY <1>1, <1>2, <1>3, PTL DEF LockSpec, LockImplementsOwner, Profile!OwnerSpec

-----------------------------------------------------------------------------
(* The host lease.  The thread that holds the flock is the one between the *)
(* flock and the unlocking; a process that lists the path has exactly one  *)
(* thread that took it and did not yet forget it.                          *)

Listing == {"locked", "truncated", "held", "emptied", "unlocked"}

LeaseInv ==
    /\ LeaseTypeOK
    /\ \A c \in Thread : Holding(c) <=> leaseLock = c
    /\ \A c \in Thread : at[c] \in Listing => c[1] \in active
    /\ \A p \in active : \E c \in Thread : c[1] = p /\ at[c] \in Listing
    /\ \A c, d \in Thread : at[c] \in Listing /\ at[d] \in Listing /\ c[1] = d[1] => c = d
    /\ \A c, d \in Thread : at[c] = "failed" /\ at[d] \in Listing => c[1] # d[1]
    /\ PayloadHonest

LEMMA LeaseInvInit == LeaseInit => LeaseInv
BY NobodyAssumption DEF LeaseInit, LeaseInv, LeaseTypeOK, Holding, Listing, Phases, PayloadHonest, Thread

LEMMA LeaseInvStep == LeaseInv /\ [LeaseNext]_leaseVars => LeaseInv'
<1> SUFFICES ASSUME LeaseInv, [LeaseNext]_leaseVars PROVE LeaseInv' OBVIOUS
<1> USE DEF LeaseInv, LeaseTypeOK, Holding, Listing, Phases, PayloadHonest, Move
<1>0. \A c \in Thread : c[1] \in Pid /\ c # Nobody BY NobodyAssumption DEF Thread
<1>1. ASSUME NEW c \in Thread, Open(c) \/ Busy(c) PROVE LeaseInv' BY <1>0, <1>1 DEF Open, Busy
<1>2. ASSUME NEW c \in Thread, Guarded(c) PROVE LeaseInv' BY <1>0, <1>2 DEF Guarded, Free
<1>3. ASSUME NEW c \in Thread, Truncate(c) PROVE LeaseInv' BY <1>0, <1>3 DEF Truncate
<1>4. ASSUME NEW c \in Thread, WriteOwner(c) PROVE LeaseInv' BY <1>0, <1>4 DEF WriteOwner
<1>5. ASSUME NEW c \in Thread, Forget(c) PROVE LeaseInv' BY <1>0, <1>5 DEF Forget
<1>6. ASSUME NEW c \in Thread, CloseFailed(c) PROVE LeaseInv' BY <1>0, <1>6 DEF CloseFailed
<1>7. ASSUME NEW c \in Thread, Empty(c) PROVE LeaseInv' BY <1>0, <1>7 DEF Empty
<1>8. ASSUME NEW c \in Thread, Unlock(c) PROVE LeaseInv' BY <1>0, <1>8 DEF Unlock
<1>9. ASSUME NEW c \in Thread, ForgetReleased(c) PROVE LeaseInv' BY <1>0, <1>9 DEF ForgetReleased
<1>10. ASSUME NEW c \in Thread, Retain(c) PROVE LeaseInv' BY <1>0, <1>10 DEF Retain
<1>11. ASSUME NEW p \in Pid, LeaseDie(p) PROVE LeaseInv' BY <1>0, <1>11 DEF LeaseDie
<1>12. CASE UNCHANGED leaseVars BY <1>12 DEF leaseVars
<1> QED BY <1>1, <1>2, <1>3, <1>4, <1>5, <1>6, <1>7, <1>8, <1>9, <1>10, <1>11, <1>12
        DEF LeaseNext, LeaseAcquire, LeaseRelease

(* A held profile lock keeps its path, the name in the lease file is its   *)
(* holder's, or nobody's, or one left by a thread that is gone, and a run  *)
(* is refused the host only while some thread is at work on the lease: for *)
(* any processes, lock objects, inodes and threads.                        *)
THEOREM OwnersThm == LockSpec /\ LeaseSpec => OwnersHonest
<1>1. LockSpec => []LockInv BY LockInvInit, LockInvStep, PTL DEF LockSpec
<1>2. LeaseSpec => []LeaseInv BY LeaseInvInit, LeaseInvStep, PTL DEF LeaseSpec
<1>3. LockInv => LockTypeOK /\ OwnPathStays BY DEF LockInv
<1>4. LeaseInv => LeaseTypeOK /\ PayloadHonest BY DEF LeaseInv
<1>5. LeaseInv /\ [LeaseNext]_leaseVars =>
        [\A c \in Thread : Busy(c) => \E d \in Thread : at[d] \notin {"out", "opened"}]_leaseVars
  BY DEF LeaseInv, LeaseTypeOK, Busy, Free, Holding, Listing
<1> QED BY <1>1, <1>2, <1>3, <1>4, <1>5, PTL DEF LeaseSpec, OwnersHonest, BusyMeansUsed, BusyIsUsed

(* The lease implements a lock across threads and processes.               *)
THEOREM LeaseRefinement == LeaseSpec => LeaseImplementsOwner
<1>1. LeaseSpec => []LeaseInv BY LeaseInvInit, LeaseInvStep, PTL DEF LeaseSpec
<1>2. ASSUME LeaseInv PROVE LeaseOwner = leaseLock
  BY <1>2, NobodyAssumption DEF LeaseInv, LeaseTypeOK, LeaseOwner, Thread
<1>3. ASSUME LeaseInv' PROVE LeaseOwner' = leaseLock'
  BY <1>3, NobodyAssumption DEF LeaseInv, LeaseTypeOK, LeaseOwner, Thread
<1>4. LeaseInit => Lease!OwnerInit
  BY LeaseInvInit, <1>2 DEF LeaseInit, Lease!OwnerInit
<1>5. LeaseInv /\ LeaseInv' /\ [LeaseNext]_leaseVars => [Lease!OwnerNext]_LeaseOwner
  <2> SUFFICES ASSUME LeaseInv, LeaseInv', [LeaseNext]_leaseVars PROVE [Lease!OwnerNext]_LeaseOwner
    OBVIOUS
  <2>0. LeaseOwner = leaseLock /\ LeaseOwner' = leaseLock' BY <1>2, <1>3
  <2>1. \A c \in Thread : c # Nobody BY NobodyAssumption DEF Thread
  <2>2. ASSUME NEW c \in Thread, Guarded(c) PROVE [Lease!OwnerNext]_LeaseOwner
    BY <2>0, <2>1, <2>2 DEF Guarded, Free, Lease!OwnerNext, Lease!Take
  <2>3. ASSUME NEW c \in Thread, CloseFailed(c) \/ Unlock(c) PROVE [Lease!OwnerNext]_LeaseOwner
    BY <2>0, <2>1, <2>3 DEF CloseFailed, Unlock, Move, LeaseInv, Holding, Lease!OwnerNext, Lease!Drop
  <2>4. ASSUME NEW p \in Pid, LeaseDie(p) PROVE [Lease!OwnerNext]_LeaseOwner
    BY <2>0, <2>4 DEF LeaseDie, Lease!OwnerNext, Lease!Drop
  <2>5. ASSUME NEW c \in Thread, \/ Open(c) \/ Busy(c) \/ Truncate(c) \/ WriteOwner(c) \/ Forget(c)
                                  \/ Empty(c) \/ ForgetReleased(c) \/ Retain(c)
        PROVE [Lease!OwnerNext]_LeaseOwner
    BY <2>0, <2>5 DEF Open, Busy, Truncate, WriteOwner, Forget, Empty, ForgetReleased, Retain
  <2>6. CASE UNCHANGED leaseVars BY <2>0, <2>6 DEF leaseVars
  <2> QED BY <2>2, <2>3, <2>4, <2>5, <2>6 DEF LeaseNext, LeaseAcquire, LeaseRelease
<1> QED BY <1>1, <1>4, <1>5, PTL DEF LeaseSpec, LeaseImplementsOwner, Lease!OwnerSpec

-----------------------------------------------------------------------------
(* The event log.  Every way to cut the file that a loss of power may take *)
(* leaves either a file that does not load, or one that ends in a history  *)
(* of at least the acknowledged events.                                    *)

Covers(h, g) == Len(g) <= Len(h) /\ \A i \in 1 .. Len(g) : h[i] = g[i]

LoadsTo(f, k) ==
    \A i \in 1 .. k :
       /\ f[i].says # Garbage /\ Len(f[i].says) = i
       /\ i > 1 => SubSeq(f[i].says, 1, i - 1) = f[i - 1].says

Durable ==
    \A k \in synced .. Len(file) :
       LoadsTo(file, k) => IF k = 0 THEN acked = <<>> ELSE Covers(file[k].says, acked)

Writing ==
    pending # Closed =>
       /\ events # Closed /\ \E e \in Event : pending = Append(events, e)
       /\ Len(file) > 0 /\ file[Len(file)].says \in {pending, Garbage}

FileInv == FileTypeOK /\ Durable /\ Writing /\ (events # Closed => Covers(events, acked))

LEMMA CoversPrefix ==
  ASSUME NEW h \in History, NEW g \in History, Covers(h, g)
  PROVE  SubSeq(h, 1, Len(g)) = g
BY DEF Covers, History

LEMMA JoinedLine ==
  ASSUME NEW f \in Seq(LogLine), NEW line \in LogLine
  PROVE  /\ Joined(f, line) \in Seq(LogLine)
         /\ Len(Joined(f, line)) \in {Len(f), Len(f) + 1} /\ Len(Joined(f, line)) > 0
         /\ Joined(f, line)[Len(Joined(f, line))].says \in {line.says, Garbage}
         /\ Len(Joined(f, line)) = Len(f) => Joined(f, line)[Len(f)].says = Garbage
         /\ \A i \in 1 .. Len(f) : i < Len(Joined(f, line)) => Joined(f, line)[i] = f[i]
<1>1. CASE f # <<>> /\ ~f[Len(f)].ended
  <2>1. Joined(f, line) = [f EXCEPT ![Len(f)] = [says |-> Garbage, ended |-> line.ended]]
    BY <1>1 DEF Joined
  <2>2. [says |-> Garbage, ended |-> line.ended] \in LogLine BY DEF LogLine
  <2>3. Len(f) \in 1 .. Len(f) BY <1>1
  <2> QED BY <2>1, <2>2, <2>3
<1>2. CASE ~(f # <<>> /\ ~f[Len(f)].ended)
  <2>1. Joined(f, line) = Append(f, line) BY <1>2 DEF Joined
  <2> QED BY <2>1
<1> QED BY <1>1, <1>2

(* Writing more after a file, whatever becomes of it, keeps every cut safe. *)
LEMMA WritingIsSafe ==
  ASSUME FileTypeOK, Durable, events # Closed, Covers(events, acked),
         NEW e \in Event, NEW line \in LogLine, line.says \in {Append(events, e), Garbage},
         NEW f, f = Joined(file, line)
  PROVE  /\ f \in Seq(LogLine) /\ synced \in 0 .. Len(f)
         /\ \A k \in synced .. Len(f) :
               LoadsTo(f, k) => IF k = 0 THEN acked = <<>> ELSE Covers(f[k].says, acked)
<1>0. /\ file \in Seq(LogLine) /\ events \in History /\ acked \in History /\ synced \in 0 .. Len(file)
  BY DEF FileTypeOK
<1>1. /\ f \in Seq(LogLine) /\ Len(f) \in {Len(file), Len(file) + 1} /\ Len(f) > 0
      /\ f[Len(f)].says \in {line.says, Garbage}
      /\ Len(f) = Len(file) => f[Len(file)].says = Garbage
      /\ \A i \in 1 .. Len(file) : i < Len(f) => f[i] = file[i]
  BY <1>0, JoinedLine
<1>2. Covers(Append(events, e), acked) BY <1>0 DEF Covers, History
<1>3. ASSUME NEW k \in synced .. Len(f), LoadsTo(f, k)
      PROVE  IF k = 0 THEN acked = <<>> ELSE Covers(f[k].says, acked)
  <2>1. CASE k = Len(f)
    <3>1. f[k].says # Garbage BY <1>0, <1>1, <1>3, <2>1 DEF LoadsTo
    <3>2. f[k].says = Append(events, e) BY <1>1, <2>1, <3>1
    <3> QED BY <1>1, <1>2, <2>1, <3>2
  <2>2. CASE k # Len(f)
    <3>1. k \in 0 .. Len(file) /\ k < Len(f) BY <1>0, <1>1, <2>2
    <3>2. \A i \in 1 .. k : f[i] = file[i] BY <1>0, <1>1, <3>1
    <3>3. \A i \in 1 .. k : i > 1 => f[i - 1] = file[i - 1] BY <1>0, <1>1, <3>1
    <3>4. LoadsTo(file, k) BY <1>3, <3>1, <3>2, <3>3 DEF LoadsTo
    <3>5. k \in synced .. Len(file) BY <1>0, <3>1, <1>3
    <3>6. k # 0 => f[k] = file[k] BY <3>1, <3>2
    <3> QED BY <3>4, <3>5, <3>6 DEF Durable
  <2> QED BY <2>1, <2>2
<1> QED BY <1>0, <1>1, <1>3

LEMMA FileInvInit == FileInit => FileInv
BY LogAssumption DEF FileInit, FileInv, FileTypeOK, Durable, Writing, Covers, History, LogLine

LEMMA FileInvStep == FileInv /\ [FileNext]_fileVars => FileInv'
<1> SUFFICES ASSUME FileInv, [FileNext]_fileVars PROVE FileInv' OBVIOUS
<1>0. /\ file \in Seq(LogLine) /\ events \in History \cup {Closed} /\ acked \in History
      /\ synced \in 0 .. Len(file) /\ pending \in History \cup {Closed} /\ Closed \notin History
      /\ Garbage \notin History
  BY LogAssumption DEF FileInv, FileTypeOK, History
<1>t. \A h \in History, tear \in Tears : Torn(h, tear) \in LogLine /\ Torn(h, tear).says \in {h, Garbage}
  BY DEF Torn, LogLine
<1>a. \A h \in History, e \in Event : Append(h, e) \in History BY DEF History
<1>1. CASE OpenWriter
  <2>1. LoadsTo(file, Len(file)) BY <1>1 DEF OpenWriter, Loads, LoadsTo
  <2>2. IF Len(file) = 0 THEN acked = <<>> ELSE Covers(file[Len(file)].says, acked)
    BY <1>0, <2>1 DEF FileInv, Durable
  <2>3. events' \in History /\ Covers(events', acked)
    <3>1. CASE file = <<>>
      BY <1>0, <1>1, <2>2, <3>1 DEF OpenWriter, LastSaid, Covers, History
    <3>2. CASE file # <<>>
      <4>1. Len(file) \in 1 .. Len(file) /\ Len(file) # 0 BY <1>0, <3>2
      <4>2. file[Len(file)] \in LogLine /\ file[Len(file)].says # Garbage
        BY <1>0, <2>1, <4>1 DEF LoadsTo
      <4> QED BY <1>1, <2>2, <3>2, <4>1, <4>2 DEF OpenWriter, LastSaid, LogLine
    <3> QED BY <3>1, <3>2
  <2>4. pending = Closed BY <1>1 DEF OpenWriter, FileInv, Writing
  <2> QED BY <1>0, <1>1, <2>3, <2>4 DEF OpenWriter, FileInv, FileTypeOK, Durable, Writing
<1>2. ASSUME NEW e \in Event, WriteLine(e) PROVE FileInv'
  <2>1. WriterIdle /\ file' = Joined(file, Whole(Append(events, e))) /\ pending' = Append(events, e)
        /\ UNCHANGED <<synced, events, acked>>
    BY <1>2 DEF WriteLine
  <2>2. events \in History /\ events # Closed BY <1>0, <2>1 DEF WriterIdle
  <2>3. Whole(Append(events, e)) \in LogLine /\ Whole(Append(events, e)).says = Append(events, e)
    BY <1>a, <2>2 DEF Whole, LogLine
  <2>4. /\ file' \in Seq(LogLine) /\ synced \in 0 .. Len(file')
        /\ \A k \in synced .. Len(file') :
              LoadsTo(file', k) => IF k = 0 THEN acked = <<>> ELSE Covers(file'[k].says, acked)
    BY <2>1, <2>2, <2>3, WritingIsSafe DEF FileInv
  <2>5. Len(file') > 0 /\ file'[Len(file')].says \in {Append(events, e), Garbage}
    BY <1>0, <2>1, <2>3, JoinedLine
  <2>6. Durable' BY <2>1, <2>4 DEF Durable
  <2>7. Writing' BY <2>1, <2>2, <2>5 DEF Writing
  <2>8. FileTypeOK' BY <1>0, <1>a, <2>1, <2>2, <2>4 DEF FileTypeOK
  <2> QED BY <2>1, <2>6, <2>7, <2>8 DEF FileInv
<1>3. CASE Fsync
  <2>1. /\ synced' = Len(file) /\ events' = pending /\ acked' = pending /\ pending' = Closed
        /\ file' = file /\ pending # Closed
    BY <1>3 DEF Fsync
  <2>2. pending \in History /\ Len(file) > 0 /\ file[Len(file)].says \in {pending, Garbage}
    BY <1>0, <2>1 DEF FileInv, Writing
  <2>3. Covers(pending, pending) BY <2>2 DEF Covers, History
  <2>4. ASSUME LoadsTo(file, Len(file)) PROVE Covers(file[Len(file)].says, pending)
    <3>1. file[Len(file)].says # Garbage BY <1>0, <2>2, <2>4 DEF LoadsTo
    <3> QED BY <2>2, <2>3, <3>1
  <2>5. Durable' BY <1>0, <2>1, <2>2, <2>4 DEF Durable
  <2> QED BY <1>0, <2>1, <2>2, <2>3, <2>5 DEF FileInv, FileTypeOK, Writing
<1>4. ASSUME NEW e \in Event, NEW tear \in Tears, events # Closed, pending = Closed,
             file' = Joined(file, Torn(Append(events, e), tear)), UNCHANGED <<synced, acked>>,
             pending' = Closed, events' \in {events, Closed}
      PROVE  FileInv'
  <2>1. events \in History BY <1>0, <1>4
  <2>2. /\ file' \in Seq(LogLine) /\ synced \in 0 .. Len(file')
        /\ \A k \in synced .. Len(file') :
              LoadsTo(file', k) => IF k = 0 THEN acked = <<>> ELSE Covers(file'[k].says, acked)
    BY <1>a, <1>t, <1>4, <2>1, WritingIsSafe DEF FileInv
  <2>3. Durable' BY <1>4, <2>2 DEF Durable
  <2> QED BY <1>0, <1>4, <2>2, <2>3 DEF FileInv, FileTypeOK, Writing
<1>5. ASSUME NEW e \in Event, AppendFails(e) PROVE FileInv'
  BY <1>4, <1>5 DEF AppendFails, WriterIdle
<1>6. CASE FsyncFails
  BY <1>0, <1>6 DEF FsyncFails, FileInv, FileTypeOK, Durable, Writing
<1>7. CASE KillWriter
  <2>1. CASE UNCHANGED file
    BY <1>0, <1>7, <2>1 DEF KillWriter, FileInv, FileTypeOK, Durable, Writing
  <2>2. CASE WriterIdle /\ \E e \in Event, tear \in Tears : file' = Joined(file, Torn(Append(events, e), tear))
    BY <1>4, <1>7, <2>2 DEF KillWriter, WriterIdle
  <2> QED BY <1>7, <2>1, <2>2 DEF KillWriter
<1>8. CASE LosePower
  <2>0. events' = Closed /\ pending' = Closed /\ acked' = acked /\ synced' = Len(file')
    BY <1>8 DEF LosePower
  <2>1. ASSUME NEW k \in synced .. Len(file), file' \in Seq(LogLine), Len(file') = k,
               \A i \in 1 .. k : file'[i].says \in {file[i].says, Garbage}
        PROVE  FileInv'
    <3>1. ASSUME LoadsTo(file', k) PROVE IF k = 0 THEN acked = <<>> ELSE Covers(file'[k].says, acked)
      <4>1. \A i \in 1 .. k : file'[i].says = file[i].says BY <2>1, <3>1 DEF LoadsTo
      <4>2. \A i \in 1 .. k : i > 1 => i - 1 \in 1 .. k BY <1>0
      <4>3. LoadsTo(file, k) BY <3>1, <4>1, <4>2 DEF LoadsTo
      <4>4. k \in Nat BY <1>0
      <4> QED BY <4>1, <4>3, <4>4 DEF FileInv, Durable
    <3>2. Durable' BY <1>0, <2>0, <2>1, <3>1 DEF Durable
    <3> QED BY <1>0, <2>0, <2>1, <3>2 DEF FileInv, FileTypeOK, Writing
  <2>2. ASSUME NEW k \in synced .. Len(file), file' = SubSeq(file, 1, k) PROVE FileInv'
    BY <1>0, <2>1, <2>2
  <2>3. ASSUME NEW k \in synced .. Len(file), k > synced, NEW tear \in Tears,
               file' = Append(SubSeq(file, 1, k - 1), Torn(file[k].says, tear))
        PROVE  FileInv'
    <3>1. k \in 1 .. Len(file) BY <1>0, <2>3
    <3>2. file[k] \in LogLine BY <1>0, <3>1
    <3>3. Torn(file[k].says, tear) \in LogLine /\ Torn(file[k].says, tear).says \in {file[k].says, Garbage}
      BY <3>2 DEF Torn, LogLine
    <3>4. SubSeq(file, 1, k - 1) \in Seq(LogLine) /\ Len(SubSeq(file, 1, k - 1)) = k - 1
          /\ \A i \in 1 .. k - 1 : SubSeq(file, 1, k - 1)[i] = file[i]
      BY <1>0, <3>1
    <3>5. file' \in Seq(LogLine) /\ Len(file') = k /\ file'[k] = Torn(file[k].says, tear)
          /\ \A i \in 1 .. k - 1 : file'[i] = file[i]
      BY <2>3, <3>1, <3>3, <3>4
    <3> QED BY <1>0, <2>1, <3>1, <3>3, <3>5
  <2> QED BY <1>8, <2>2, <2>3 DEF LosePower
<1>9. CASE UNCHANGED fileVars
  BY <1>9 DEF fileVars, FileInv, FileTypeOK, Durable, Writing
<1> QED BY <1>1, <1>2, <1>3, <1>5, <1>6, <1>7, <1>8, <1>9 DEF FileNext

(* An event whose append returned is shown by every later opening of the   *)
(* log, for any events, any length of the log and any way to cut a write.  *)
THEOREM LogRefinement == FileSpec => LogIsDurable
<1>1. FileSpec => []FileInv BY FileInvInit, FileInvStep, PTL DEF FileSpec
<1>2. FileInit => Log!LogInit BY DEF FileInit, Log!LogInit
<1>3. FileInv /\ FileInv' /\ [FileNext]_fileVars => [Log!LogNext]_(Log!logInterface)
  <2> SUFFICES ASSUME FileInv, FileInv', [FileNext]_fileVars PROVE [Log!LogNext]_(Log!logInterface)
    OBVIOUS
  <2>1. CASE OpenWriter
    <3>1. events = Closed /\ acked' = acked BY <2>1 DEF OpenWriter
    <3>2. CASE events' = Closed BY <3>1, <3>2 DEF Log!logInterface
    <3>3. CASE events' # Closed
      <4>1. events' \in History /\ acked \in History /\ Covers(events', acked)
        BY <3>1, <3>3 DEF FileInv, FileTypeOK
      <4>2. SubSeq(events', 1, Len(acked)) = acked /\ Len(acked) <= Len(events')
        BY <4>1, CoversPrefix DEF Covers
      <4> QED BY <3>1, <4>1, <4>2 DEF Log!LogNext, Log!OpenLog, History
    <3> QED BY <3>2, <3>3
  <2>2. CASE Fsync
    BY <2>2 DEF Fsync, FileInv, Writing, Log!LogNext, Log!Extend
  <2>3. CASE KillWriter \/ LosePower
    BY <2>3 DEF KillWriter, LosePower, Log!LogNext, Log!CloseLog, Log!logInterface
  <2>4. CASE FsyncFails \/ (\E e \in Event : WriteLine(e) \/ AppendFails(e)) \/ UNCHANGED fileVars
    BY <2>4 DEF FsyncFails, WriteLine, AppendFails, fileVars, Log!logInterface
  <2> QED BY <2>1, <2>2, <2>3, <2>4 DEF FileNext
<1>4. FileInv => FileTypeOK BY DEF FileInv
<1> QED BY <1>1, <1>2, <1>3, <1>4, PTL DEF FileSpec, LogIsDurable, Log!LogSpec

-----------------------------------------------------------------------------
(* App Server children.  From the moment a launcher has the profile lock   *)
(* until it is done, the lock is its own.                                  *)

Keeping == {"locked", "started", "leased", "open", "unclosed", "stuck"}
Lent == {b \in Borrower : lent[b] = "open"}

LaunchInv ==
    /\ LaunchTypeOK
    /\ \A u \in Launcher :
          /\ profileOwner = u <=> stage[u] \in Keeping
          /\ hostOwner = u => stage[u] \in {"leased", "open", "unclosed", "stuck"}
          /\ u \in child => u \in leaky \/ stage[u] \in Keeping
          /\ stage[u] \in {"idle", "locked", "refused"} => u \notin child
          /\ stage[u] \in {"started", "leased"} => client[u] \in {"running", "failed"}
    /\ \A r \in Solo : stage[r] \in {"leased", "open", "unclosed"} => hostOwner = r
    /\ LeasesCounted
    /\ \A b \in Borrower : lent[b] = "open" => stage[Holder] \in {"open", "stuck", "done"}

LEMMA LaunchInvInit == LaunchInit => LaunchInv
<1> SUFFICES ASSUME LaunchInit PROVE LaunchInv OBVIOUS
<1>1. Lent = {} /\ Cardinality({}) = 0
  BY FS_EmptySet DEF LaunchInit, Lent
<1>2. Cardinality(Borrower) \in Nat
  BY FS_CardinalityType, LaunchAssumption
<1> QED
  <2>1. LaunchTypeOK
    <3>1. 0 \in 0 .. Cardinality(Borrower)
      BY <1>2
    <3> QED
      BY <3>1 DEF LaunchInit, LaunchTypeOK, Launcher
  <2>2. LeasesCounted
    BY <1>1, LaunchAssumption DEF LaunchInit, LeasesCounted, Lent, Launcher
  <2> QED
    BY <2>1, <2>2, LaunchAssumption DEF LaunchInit, LaunchInv, Keeping, Launcher

(* A launcher is done when its child is gone or given up on; it gives back *)
(* what it holds, and only that.                                           *)
LEMMA LaunchEnds ==
  ASSUME LaunchInv, NEW u \in Launcher, stage[u] \in Keeping,
         stage' = [stage EXCEPT ![u] = "done"], client' = client \/ Becomes(u, "closed") \/ Becomes(u, "closing"),
         LockBack(u), LeaseBack(u), child' \subseteq child \cup {u}, child \ {u} \subseteq child',
         leaky \subseteq leaky', leaky' \subseteq leaky \cup {u}, u \in child' => u \in leaky', UNCHANGED <<lent, leases>>
  PROVE  LaunchInv'
<1> USE LaunchAssumption DEF LaunchInv, LaunchTypeOK, LeasesCounted, Keeping, Launcher, Becomes, LockBack, LeaseBack
<1>1. LaunchTypeOK'
  <2>1. client' \in [Launcher -> {"none", "running", "failed", "closing", "closed"}]
    OBVIOUS
  <2>2. stage' \in [Launcher -> {"idle", "locked", "started", "leased", "open", "unclosed", "stuck", "done", "refused"}]
    OBVIOUS
  <2>3. child' \subseteq Launcher /\ leaky' \subseteq Launcher /\ runtimeOwned' \in BOOLEAN
        /\ profileOwner' \in Launcher \cup {Nobody} /\ hostOwner' \in Solo \cup {Nobody}
    OBVIOUS
  <2> QED
    BY <2>1, <2>2, <2>3
<1>2. \A v \in Launcher : v # u => stage'[v] = stage[v] /\ client'[v] = client[v]
  OBVIOUS
<1>3. stage'[u] = "done"
  OBVIOUS
<1>4. profileOwner = u /\ profileOwner' = Nobody /\ hostOwner' = IF hostOwner = u THEN Nobody ELSE hostOwner
  OBVIOUS
<1>5. LeasesCounted'
  BY <1>2, <1>3
<1> QED
  BY <1>1, <1>2, <1>3, <1>4, <1>5

(* A launcher whose close did not succeed keeps what it holds.             *)
LEMMA LaunchSticks ==
  ASSUME LaunchInv, NEW u \in Launcher, stage[u] \in Keeping \ {"locked"}, NEW to \in {"unclosed", "stuck"},
         to = "unclosed" => u \in Solo /\ stage[u] \in {"open", "unclosed"},
         stage' = [stage EXCEPT ![u] = to], client' = client \/ Becomes(u, "closed") \/ Becomes(u, "closing"),
         child' = child \/ child' = child \ {u}, runtimeOwned' \in BOOLEAN,
         UNCHANGED <<profileOwner, hostOwner, leaky, lent, leases>>,
         u \in Solo /\ hostOwner = u => stage[u] # "started"
  PROVE  LaunchInv'
<1> USE LaunchAssumption DEF LaunchInv, LaunchTypeOK, LeasesCounted, Keeping, Launcher, Becomes
<1>1. LaunchTypeOK'
  OBVIOUS
<1>2. \A v \in Launcher : v # u => stage'[v] = stage[v] /\ client'[v] = client[v]
  OBVIOUS
<1>3. stage'[u] = to
  OBVIOUS
<1>5. LeasesCounted'
  BY <1>2, <1>3
<1> QED
  BY <1>1, <1>2, <1>3, <1>5

LEMMA LaunchStep == LaunchInv /\ [LaunchNext]_launchVars => LaunchInv'
<1> SUFFICES ASSUME LaunchInv, [LaunchNext]_launchVars PROVE LaunchInv' OBVIOUS
<1> USE LaunchAssumption DEF LaunchInv, LaunchTypeOK, LeasesCounted, Keeping, Launcher, Goes, Becomes, IsRunning,
        Exited, LockBack, LeaseBack, CloseReturns, CloseTimesOut, Confirmed, GiveUpLaunch, Retained
<1>1. ASSUME NEW u \in Launcher, Lock(u) PROVE LaunchInv'
  BY <1>1 DEF Lock
<1>2. ASSUME NEW u \in Launcher, PrepareFails(u) PROVE LaunchInv'
  BY <1>2 DEF PrepareFails
<1>3. ASSUME NEW u \in Launcher, StartClientOk(u) PROVE LaunchInv'
  BY <1>3 DEF StartClientOk
<1>4. ASSUME NEW u \in Launcher, StartClientFails(u) PROVE LaunchInv'
  <2>1. stage' = [stage EXCEPT ![u] = "done"] /\ stage[u] \in Keeping /\ LockBack(u) /\ LeaseBack(u)
    BY <1>4 DEF StartClientFails
  <2>2. CASE Becomes(u, "closed") /\ UNCHANGED <<child, leaky>>
    BY <1>4, <2>1, <2>2, LaunchEnds DEF StartClientFails
  <2>3. CASE Becomes(u, "closing") /\ child' = child \cup {u} /\ leaky' = leaky \cup {u}
    BY <1>4, <2>1, <2>3, LaunchEnds DEF StartClientFails
  <2> QED
    BY <1>4, <2>2, <2>3 DEF StartClientFails
<1>5. ASSUME NEW u \in Launcher, ClientBreaks(u) PROVE LaunchInv'
  BY <1>5 DEF ClientBreaks
<1>6. ASSUME NEW u \in Launcher, ChildDies(u) PROVE LaunchInv'
  BY <1>6 DEF ChildDies
<1>7. ASSUME NEW r \in Solo, LeaseRun(r) PROVE LaunchInv'
  BY <1>7 DEF LeaseRun
<1>b. ASSUME NEW u \in Launcher, GiveUpLaunch(u, "started"), UNCHANGED <<lent, leases>> PROVE LaunchInv'
  <2>1. CASE Goes(u, "started", "done")
    <3>1. LockBack(u) /\ LeaseBack(u)
          /\ \/ CloseReturns(u) /\ UNCHANGED leaky
             \/ UNCHANGED <<client, child>> /\ leaky' = leaky \cup ({u} \cap child)
      BY <1>b, <2>1
    <3> QED
      BY <1>b, <2>1, <3>1, LaunchEnds
  <2>2. CASE Goes(u, "started", "stuck")
    BY <1>b, <2>2, LaunchSticks
  <2> QED
    BY <1>b, <2>1, <2>2
<1>8. ASSUME NEW r \in Solo, LeaseBusy(r) PROVE LaunchInv'
  BY <1>8, <1>b DEF LeaseBusy
<1>9. ASSUME NEW r \in Solo, Authorized(r) PROVE LaunchInv'
  BY <1>9 DEF Authorized
<1>10. ASSUME NEW r \in Solo, Rejected(r) PROVE LaunchInv'
  <2>1. CASE stage' = [stage EXCEPT ![r] = "done"] /\ CloseReturns(r) /\ LockBack(r) /\ LeaseBack(r)
    BY <1>10, <2>1, LaunchEnds DEF Rejected
  <2>2. CASE stage' = [stage EXCEPT ![r] = "stuck"] /\ CloseTimesOut(r)
    BY <1>10, <2>2, LaunchSticks DEF Rejected
  <2> QED
    BY <1>10, <2>1, <2>2 DEF Rejected
<1>11. ASSUME NEW r \in Solo, CloseRun(r) PROVE LaunchInv'
  <2>1. CASE Goes(r, "open", "done") \/ Goes(r, "unclosed", "done")
    <3>1. CloseReturns(r) /\ LockBack(r) /\ LeaseBack(r) /\ UNCHANGED <<lent, leases, leaky>>
      BY <1>11, <2>1 DEF CloseRun
    <3> QED
      BY <2>1, <3>1, LaunchEnds
  <2>2. CASE Goes(r, "open", "unclosed") \/ Goes(r, "unclosed", "unclosed")
    <3>1. (CloseTimesOut(r) \/ CloseReturns(r)) /\ UNCHANGED <<profileOwner, runtimeOwned, hostOwner, lent, leases, leaky>>
      BY <1>11, <2>2 DEF CloseRun
    <3> QED
      BY <2>2, <3>1, LaunchSticks
  <2> QED
    BY <1>11, <2>1, <2>2 DEF CloseRun
<1>12. ASSUME NEW t \in Intake, EndTurnLock(t) PROVE LaunchInv'
  <2>1. UNCHANGED <<hostOwner, lent, leases, leaky>> /\ hostOwner # t
    BY <1>12 DEF EndTurnLock
  <2>2. CASE Goes(t, "started", "done")
    <3>1. LockBack(t) /\ (CloseReturns(t) \/ (t \notin child /\ UNCHANGED <<client, child>>))
      BY <1>12, <2>2 DEF EndTurnLock
    <3> QED
      BY <2>1, <2>2, <3>1, LaunchEnds
  <2>3. CASE Goes(t, "started", "stuck")
    <3>1. (CloseTimesOut(t) \/ UNCHANGED <<client, child>>) /\ UNCHANGED <<profileOwner, runtimeOwned>>
      BY <1>12, <2>3 DEF EndTurnLock
    <3> QED
      BY <2>1, <2>3, <3>1, LaunchSticks
  <2> QED
    BY <1>12, <2>2, <2>3 DEF EndTurnLock
<1>13. CASE HolderOpens
  BY <1>13 DEF HolderOpens
<1>14. CASE HolderStartFails
  BY <1>14, <1>b DEF HolderStartFails
<1>15. CASE CloseHolder
  <2>1. UNCHANGED <<hostOwner, lent, leases, leaky>> /\ hostOwner # Holder
    BY <1>15 DEF CloseHolder
  <2>2. CASE Goes(Holder, "open", "done")
    <3>1. LockBack(Holder) /\ (CloseReturns(Holder) \/ (Holder \notin child /\ UNCHANGED <<client, child>>))
      BY <1>15, <2>2 DEF CloseHolder
    <3> QED
      BY <2>1, <2>2, <3>1, LaunchEnds
  <2>3. CASE Goes(Holder, "open", "stuck")
    <3>1. (CloseTimesOut(Holder) \/ UNCHANGED <<client, child>>) /\ UNCHANGED <<profileOwner, runtimeOwned>>
      BY <1>15, <2>3 DEF CloseHolder
    <3> QED
      BY <2>1, <2>3, <3>1, LaunchSticks
  <2> QED
    BY <1>15, <2>2, <2>3 DEF CloseHolder
<1>c. leases = Cardinality(Lent) /\ IsFiniteSet(Lent) /\ Cardinality(Borrower) \in Nat
  BY FS_Subset, FS_CardinalityType DEF Lent
<1>16. ASSUME NEW b \in Borrower, AcquireRun(b) PROVE LaunchInv'
  <2>1. Lent' = Lent \cup {b} /\ b \notin Lent
    BY <1>16 DEF AcquireRun, Lent
  <2>2. Cardinality(Lent') = Cardinality(Lent) + 1
    BY <1>c, <2>1, FS_AddElement
  <2>5. Cardinality(Lent') <= Cardinality(Borrower)
    <3>1. Lent' \subseteq Borrower
      BY DEF Lent
    <3> QED
      BY <3>1, FS_Subset
  <2>3. leases' = Cardinality(Lent') /\ leases' \in 0..Cardinality(Borrower)
    BY <1>16, <1>c, <2>2, <2>5, FS_CardinalityType DEF AcquireRun
  <2>4. lent' \in [Borrower -> {"idle", "open", "done"}]
    BY <1>16 DEF AcquireRun
  <2> QED
    <3>1. LeasesCounted' /\ LaunchTypeOK'
      BY <1>16, <2>3, <2>4 DEF AcquireRun, Lent
    <3>2. UNCHANGED <<stage, client, child, profileOwner, hostOwner, leaky>> /\ stage[Holder] = "open"
      BY <1>16 DEF AcquireRun
    <3> HIDE DEF LeasesCounted, LaunchTypeOK
    <3> QED
      BY <3>1, <3>2
<1>17. ASSUME NEW b \in Borrower, ReleaseRun(b) PROVE LaunchInv'
  <2>1. Lent' = Lent \ {b} /\ b \in Lent
    BY <1>17 DEF ReleaseRun, Lent
  <2>2. Cardinality(Lent') = Cardinality(Lent) - 1
    BY <1>c, <2>1, FS_RemoveElement
  <2>3. leases' = Cardinality(Lent') /\ leases' \in 0..Cardinality(Borrower)
    BY <1>17, <1>c, <2>1, <2>2, FS_Subset, FS_CardinalityType DEF ReleaseRun
  <2>4. lent' \in [Borrower -> {"idle", "open", "done"}]
    BY <1>17 DEF ReleaseRun
  <2>5. UNCHANGED <<stage, profileOwner, runtimeOwned, hostOwner, leaky>> /\ (child' = child \/ child' = child \ {Holder})
        /\ (client' = client \/ (stage[Holder] # "open" /\ (Becomes(Holder, "closed") \/ Becomes(Holder, "closing"))))
    BY <1>17 DEF ReleaseRun
  <2>6. stage[Holder] \notin {"started", "leased"}
    <3>1. lent[b] = "open"
      BY <1>17 DEF ReleaseRun
    <3> QED
      BY <3>1
  <2> QED
    <3>1. LeasesCounted'
      BY <2>3, <2>5 DEF Lent
    <3>2. LaunchTypeOK'
      BY <2>3, <2>4, <2>5
    <3>3. \A v \in Launcher : stage[v] \in {"started", "leased"} => client'[v] \in {"running", "failed"}
      BY <2>5, <2>6
    <3>4. \A c \in Borrower : lent'[c] = "open" => lent[c] = "open"
      BY <1>17 DEF ReleaseRun
    <3> HIDE DEF LeasesCounted, LaunchTypeOK
    <3> QED
      BY <2>5, <3>1, <3>2, <3>3, <3>4
<1>18. CASE UNCHANGED launchVars
  BY <1>18 DEF launchVars
<1> QED
  BY <1>1, <1>2, <1>3, <1>4, <1>5, <1>6, <1>7, <1>8, <1>9, <1>10, <1>11, <1>12, <1>13, <1>14, <1>15,
     <1>16, <1>17, <1>18 DEF LaunchNext

(* Whatever starts, closes, fails or times out, and in any order, a child  *)
(* that is alive has the profile lock, a run that is open or could not be  *)
(* closed has the lease, and the holder counts what it lent: for any runs. *)
THEOREM ChildrenCoveredThm == LaunchSpec => []ChildrenCovered
<1>1. LaunchInv => ChildrenCovered
  BY LaunchAssumption DEF LaunchInv, ChildrenCovered, LockCoversChild, LeaseCoversRun, DoneIsClean, LaunchTypeOK,
     Keeping, Launcher
<1> QED
  BY <1>1, LaunchInvInit, LaunchStep, PTL DEF LaunchSpec

=============================================================================
