------------------------------ MODULE OneOwner ------------------------------
(***************************************************************************)
(* What a lock promises whoever takes it: at most one client owns the      *)
(* resource, a free one can be taken, and an owner lets go of it by        *)
(* itself or by dying.  The profile instance lock and the host run lease   *)
(* are shown to implement it.                                              *)
(***************************************************************************)
CONSTANTS Client,   \* whoever may own the resource
          Nobody    \* the owner of a free resource

VARIABLE owner

OwnerInit == owner = Nobody

Take(c) == owner = Nobody /\ owner' = c
Drop    == owner # Nobody /\ owner' = Nobody

OwnerNext == Drop \/ \E c \in Client : Take(c)

OwnerSpec == OwnerInit /\ [][OwnerNext]_owner

=============================================================================
