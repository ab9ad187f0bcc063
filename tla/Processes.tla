------------------------------ MODULE Processes ------------------------------
(***************************************************************************)
(* The processes of a host, and the lock objects or threads inside each.   *)
(***************************************************************************)
CONSTANTS Pid,    \* process numbers
          Slot,   \* lock objects, or threads, of one process
          Nobody  \* the owner of what is free

ASSUME NobodyAssumption == Nobody \notin Pid /\ Nobody \notin Pid \X Slot

=============================================================================
