---------------------------- MODULE ProviderTurns ----------------------------
(* What the modules about the App Server share: threads, turns and how a turn ends. *)
EXTENDS Naturals, Sequences, FiniteSets

CONSTANTS
    MaxThreads, MaxTurns,   \* bounds on threads and turns
    Nil                     \* nobody, nothing

ASSUME TurnsAssumption == {MaxThreads, MaxTurns} \subseteq Nat /\ Nil \notin Nat

Thread == 1 .. MaxThreads
Turn   == 1 .. MaxTurns

TurnStatus == {"none", "inProgress", "completed", "interrupted", "failed"}
Ended      == {"completed", "interrupted", "failed"}

Items(s) == {s[i] : i \in 1 .. Len(s)}

=============================================================================
