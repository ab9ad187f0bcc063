------------------------------ MODULE MCProvider ------------------------------
(***************************************************************************)
(* The provider's side of a run, checked in one run: the client of an App  *)
(* Server process, the broker that shares it, the runtime that uses it,    *)
(* the gate on what it writes, the threads its Writers are given, the      *)
(* reviews of what they write, and the credential it signs in with.  A     *)
(* behaviour chooses one of the seven and lets it step; the others keep    *)
(* their initial states.                                                   *)
(***************************************************************************)
EXTENDS AppServerClient, SharedBroker, TurnRuntime, FormulaGate, WriterSessions, AccountLogin,
        Reviews, TLC

VARIABLE part

providerVars == <<part, clientVars, brokerVars, runtimeVars, gateVars, sessionVars, accountVars,
                  reviewVars>>

\* Bound: what the sources of a review say.
ReviewedTexts == {<<" ", "x">>, <<"x", "\n", "x">>}

ProviderInit ==
    /\ part \in {"client", "broker", "runtime", "gate", "sessions", "account", "reviews"}
    /\ ClientInit /\ BrokerInit /\ RuntimeInit /\ GateInit /\ SessionsInit /\ AccountInit
    /\ ReviewsInit
    /\ part # "gate" => policy = "v1"
    /\ part # "account" => auth = None
    /\ text \in ReviewedTexts
    /\ part # "reviews" => text = <<" ", "x">> /\ review.version = "1.1"

ProviderNext ==
    /\ UNCHANGED part
    /\ \/ part = "client" /\ ClientNext
          /\ UNCHANGED <<brokerVars, runtimeVars, gateVars, sessionVars, accountVars, reviewVars>>
       \/ part = "broker" /\ BrokerNext
          /\ UNCHANGED <<clientVars, runtimeVars, gateVars, sessionVars, accountVars, reviewVars>>
       \/ part = "runtime" /\ RuntimeNext
          /\ UNCHANGED <<clientVars, brokerVars, gateVars, sessionVars, accountVars, reviewVars>>
       \/ part = "gate" /\ GateNext
          /\ UNCHANGED <<clientVars, brokerVars, runtimeVars, sessionVars, accountVars, reviewVars>>
       \/ part = "sessions" /\ SessionsNext
          /\ UNCHANGED <<clientVars, brokerVars, runtimeVars, gateVars, accountVars, reviewVars>>
       \/ part = "account" /\ AccountNext
          /\ UNCHANGED <<clientVars, brokerVars, runtimeVars, gateVars, sessionVars, reviewVars>>
       \/ part = "reviews" /\ ReviewsNext
          /\ UNCHANGED <<clientVars, brokerVars, runtimeVars, gateVars, sessionVars, accountVars>>

ProviderSpec == ProviderInit /\ [][ProviderNext]_providerVars

Symmetry == Permutations(Session)

=============================================================================
