------------------------------- MODULE MCHost --------------------------------
(***************************************************************************)
(* What keeps the processes of one host apart, and what surrounds its      *)
(* runs, checked in one run: the profile lock, the host lease, the event   *)
(* log, the launches that use the first two; the intake session before a   *)
(* run and the page that answers it, the typesetting after it, and the     *)
(* accounts of a hosted site.  A behaviour chooses one of the eight and    *)
(* lets it step; the others keep their initial states.                     *)
(***************************************************************************)
EXTENDS HostOwners, EventLog, Launch, IntakeSession,
        PageIntake, RouteTypeset, SiteAccess, TLC

VARIABLE part

hostVars == <<part, lockVars, leaseVars, fileVars, launchVars, intakeVars, typesetVars, pageVars, siteVars>>

\* Bound: with the create sent again after a command landed, one key of the commands is not used.
IntakeBound == answered[CreatesIt] \ {1} # {} => \E k \in IntakeKey : landed[k] = <<>>

HostInit ==
    /\ part \in {"lock", "lease", "log", "launch", "intake", "typeset", "page", "site"}
    /\ LockInit /\ LeaseInit /\ FileInit /\ LaunchInit /\ IntakeInit
    /\ TypesetInit /\ PageInit /\ SiteInit
    /\ part # "page" => Asked(srv) = Decisions

HostNext ==
    /\ UNCHANGED part
    /\ \/ part = "lock" /\ LockNext
          /\ UNCHANGED <<leaseVars, fileVars, launchVars, intakeVars, typesetVars, pageVars, siteVars>>
       \/ part = "lease" /\ LeaseNext
          /\ UNCHANGED <<lockVars, fileVars, launchVars, intakeVars, typesetVars, pageVars, siteVars>>
       \/ part = "log" /\ FileNext
          /\ UNCHANGED <<lockVars, leaseVars, launchVars, intakeVars, typesetVars, pageVars, siteVars>>
       \/ part = "launch" /\ LaunchNext
          /\ UNCHANGED <<lockVars, leaseVars, fileVars, intakeVars, typesetVars, pageVars, siteVars>>
       \/ part = "intake" /\ IntakeNext /\ IntakeBound'
          /\ UNCHANGED <<lockVars, leaseVars, fileVars, launchVars, typesetVars, pageVars, siteVars>>
       \/ part = "typeset" /\ TypesetNext
          /\ UNCHANGED <<lockVars, leaseVars, fileVars, launchVars, intakeVars, pageVars, siteVars>>
       \/ part = "page" /\ PageNext
          /\ UNCHANGED <<lockVars, leaseVars, fileVars, launchVars, intakeVars, typesetVars, siteVars>>
       \/ part = "site" /\ SiteNext
          /\ UNCHANGED <<lockVars, leaseVars, fileVars, launchVars, intakeVars, typesetVars, pageVars>>

HostSpec == HostInit /\ [][HostNext]_hostVars

\* Which decision, and which key, is which tells a session nothing.
Interchangeable == Permutations(Decision) \cup Permutations(IntakeKey)

==============================================================================
