------------------------------- MODULE OnceOnly -------------------------------
(***************************************************************************)
(* What a caller is promised of a keyed command: it takes effect at most   *)
(* once, and is answered, when it is, with one answer to that effect.      *)
(***************************************************************************)
EXTENDS Sequences

CONSTANTS Key, Payload

VARIABLES applied, told

OnceInit == applied = [k \in Key |-> <<>>] /\ told = [k \in Key |-> {}]

Do(k, p) ==
    /\ applied[k] = <<>> /\ applied' = [applied EXCEPT ![k] = <<p>>]
    /\ UNCHANGED told

Tell(k, a) ==
    /\ applied[k] # <<>> /\ told[k] \subseteq {a} /\ told' = [told EXCEPT ![k] = {a}]
    /\ UNCHANGED applied

OnceNext == \E k \in Key : (\E p \in Payload : Do(k, p)) \/ (\E a \in told'[k] : Tell(k, a))

OnceSpec == OnceInit /\ [][OnceNext]_<<applied, told>>

=============================================================================
