----------------------------- MODULE AccountLogin -----------------------------
(***************************************************************************)
(* The credential of a product profile (account.py): it is imported from a *)
(* file of the user, or comes from a device login that ran in a profile of *)
(* its own.  Every operation holds one lock of the manager while it awaits *)
(* the provider and while it publishes: copies the validated credential,   *)
(* moves the old one to a backup and puts the new one in its place, any    *)
(* step of which may fail or be the last before a crash.  A device login   *)
(* lives from one request to the next, and several may be open.            *)
(*                                                                         *)
(* A device login yields a credential named after it.  Temporary           *)
(* directories, file modes, links and rate limits are left out.            *)
(***************************************************************************)
EXTENDS Naturals, FiniteSets

CONSTANTS Login, Source, Old,   \* Source: the user's own credential; Old: what may be in place at first
          MaxFaults             \* bound: failures and crashes within an operation

Credential == Login \cup {Source, Old}
None == "none"

ASSUME AccountAssumption == None \notin Credential /\ Source \notin Login /\ MaxFaults \in Nat

VARIABLES
    auth,       \* the credential in place
    backups,    \* the credentials in the backup directory
    imported,   \* is the import's idempotency key answered?
    login,      \* per device login
    change,     \* the operation that holds the lock
    inPlace,    \* those that were ever in place while the lock was free
    published,  \* those whose publication succeeded
    spoiled,    \* those in place that a failed backup cost
    halfway,    \* was the last publication cut off where nothing was in place?
    unclosed,   \* the logins whose client failed to close once published
    faults

storeVars == <<auth, backups, inPlace, spoiled, halfway>>
tellVars == <<imported, login, unclosed>>
accountVars == <<storeVars, tellVars, change, published, faults>>

NoChange == [kind |-> "none"]
NoLogin == [state |-> "none", provider |-> "waiting", works |-> TRUE, told |-> None]

AccountInit ==
    /\ auth \in {None, Old}
    /\ backups = {} /\ imported = FALSE /\ login = [l \in Login |-> NoLogin] /\ change = NoChange
    /\ inPlace = {auth} \ {None} /\ published = {}
    /\ spoiled = {} /\ halfway = FALSE /\ unclosed = {} /\ faults = 0

\* account(): the provider accepts the credential or no longer does, and the
\* profile may be in use by a run.
Status ==
    IF auth = None THEN {"signed_out"}
    ELSE {"unavailable", "signed_in", "reauth_required"}

Fault == faults < MaxFaults /\ faults' = faults + 1

-----------------------------------------------------------------------------
(* The provider. *)

ProviderDecides(l) ==
    /\ login[l].state = "open" /\ login[l].provider = "waiting" /\ login[l].works
    /\ \E result \in {"succeeded", "failed"} : login' = [login EXCEPT ![l].provider = result]
    /\ UNCHANGED <<storeVars, imported, unclosed, change, published, faults>>

-----------------------------------------------------------------------------
(* The requests. *)

\* A key that was answered is answered again.
ImportBegins ==
    /\ change = NoChange /\ ~imported /\ \E status \in Status : status \in {"signed_out", "reauth_required"}
    /\ change' = [kind |-> "import", cred |-> Source, at |-> "validate", backup |-> None]
    /\ UNCHANGED <<storeVars, tellVars, published, faults>>

LoginBegins(l) ==
    /\ change = NoChange /\ login[l].state = "none" /\ \E status \in Status : status # "signed_in"
    /\ login' = [login EXCEPT ![l].state = "open"]
    /\ UNCHANGED <<storeVars, imported, unclosed, change, published, faults>>

\* The login ends for its user, with what a later request is told.
ToldAs(l, status) == login' = [login EXCEPT ![l] = [NoLogin EXCEPT !.state = "over", !.told = status]]

\* get_device_login, after the expiry or before.
PollsLate(l) ==
    /\ change = NoChange /\ login[l].state = "open" /\ ToldAs(l, "expired")
    /\ UNCHANGED <<storeVars, imported, unclosed, change, published, faults>>

\* A poll of a client that is gone fails, or finds the result it had.
Polls(l) ==
    /\ change = NoChange /\ login[l].state = "open" /\ login[l].provider # "waiting"
    /\ change' = [kind |-> "poll", cred |-> l, backup |-> None,
              at |-> IF login[l].provider = "succeeded" THEN "validate" ELSE "failing"]
    /\ UNCHANGED <<storeVars, tellVars, published, faults>>

\* cancel_device_login, up to the close of the client.
Cancels(l) ==
    /\ change = NoChange /\ login[l].state = "open" /\ login[l].works
    /\ change' = [kind |-> "cancel", cred |-> l, backup |-> None, at |-> "canceling"]
    /\ login' = [login EXCEPT ![l].provider = IF @ = "waiting" THEN "failed" ELSE @]
    /\ UNCHANGED <<storeVars, imported, unclosed, published, faults>>

-----------------------------------------------------------------------------
(* An operation under the lock. *)

Reaches(step) == change' = [change EXCEPT !.at = step]

\* account_is_chatgpt, in the operation's own profile.
Validates ==
    /\ change.kind # "none" /\ change.at = "validate"
    /\ change.kind = "poll" => login[change.cred].works
    /\ Reaches("copy")
    /\ UNCHANGED <<storeVars, tellVars, published, faults>>

Rejects ==
    /\ change.kind # "none" /\ change.at = "validate"
    /\ IF change.kind = "import" THEN change' = NoChange ELSE Reaches("failing")
    /\ UNCHANGED <<storeVars, tellVars, published, faults>>

\* The request was cancelled while it awaited the provider.
Abandoned ==
    /\ change.kind # "none" /\ change.at \in {"validate", "failing", "canceling", "telling"} /\ Fault
    /\ change' = NoChange
    /\ \/ UNCHANGED login
       \/ change.at # "validate" /\ login' = [login EXCEPT ![change.cred].works = FALSE]
    /\ unclosed' = IF change.at = "telling" THEN unclosed \cup {change.cred} ELSE unclosed
    /\ UNCHANGED <<storeVars, imported, published>>

\* _publish_validated_auth
Copies ==
    /\ change.kind # "none" /\ change.at = "copy"
    /\ change' = [change EXCEPT !.at = IF auth = None THEN "replace" ELSE "backup"]
    /\ UNCHANGED <<storeVars, tellVars, published, faults>>

\* _backup_existing_auth moves the file, then syncs, and then tells where it is.
BacksUp ==
    /\ change.kind # "none" /\ change.at = "backup"
    /\ backups' = backups \cup {auth} /\ auth' = None
    /\ change' = [change EXCEPT !.at = "moved", !.backup = auth]
    /\ UNCHANGED <<tellVars, published, inPlace, spoiled, halfway, faults>>

BackedUp ==
    /\ change.kind # "none" /\ change.at = "moved" /\ Reaches("replace")
    /\ UNCHANGED <<storeVars, tellVars, published, faults>>

Replaces ==
    /\ change.kind # "none" /\ change.at = "replace" /\ auth' = change.cred /\ Reaches("sync")
    /\ UNCHANGED <<backups, inPlace, spoiled, halfway, tellVars, published, faults>>

Publishes ==
    /\ change.kind # "none" /\ change.at = "sync"
    /\ published' = published \cup {change.cred} /\ inPlace' = inPlace \cup {auth} /\ halfway' = FALSE
    /\ IF change.kind = "import" THEN change' = NoChange /\ imported' = TRUE
       ELSE Reaches("telling") /\ UNCHANGED imported
    /\ UNCHANGED <<auth, backups, spoiled, login, unclosed, faults>>

\* Mutant: the backup stays where it is.
LeftNothing == None

\* The handler of a failure removes what is in place, and puts back the backup
\* that it was told of.
LeftInPlace == IF change.at \in {"replace", "sync"} THEN change.backup ELSE None

PublicationFails ==
    /\ change.kind # "none" /\ change.at \in {"copy", "backup", "moved", "replace", "sync"} /\ Fault
    /\ IF change.at = "copy" THEN UNCHANGED storeVars
       ELSE /\ auth' = LeftInPlace /\ backups' = backups \ {LeftInPlace}
            /\ spoiled' = IF change.at = "backup" THEN spoiled \cup {auth} ELSE spoiled
            /\ halfway' = (halfway \/ change.at \in {"backup", "moved"})
            /\ UNCHANGED inPlace
    /\ IF change.kind = "import" THEN change' = NoChange ELSE Reaches("failing")
    /\ UNCHANGED <<tellVars, published>>

\* The client of the login is closed, and then the login is over.
Closes(step, status) ==
    /\ change.kind # "none" /\ change.at = step /\ ToldAs(change.cred, status) /\ change' = NoChange
    /\ UNCHANGED <<storeVars, imported, unclosed, published, faults>>

CloseFails ==
    /\ change.kind # "none" /\ change.at \in {"failing", "canceling", "telling"} /\ Fault /\ change' = NoChange
    /\ login' = [login EXCEPT ![change.cred].works = FALSE]
    /\ unclosed' = IF change.at = "telling" THEN unclosed \cup {change.cred} ELSE unclosed
    /\ UNCHANGED <<storeVars, imported, published>>

\* A shutdown waits for the lock; a crash does not.
AccountRestarts ==
    /\ IF change = NoChange THEN UNCHANGED faults ELSE Fault
    /\ change' = NoChange /\ imported' = FALSE
    /\ login' = [l \in Login |-> IF login[l].state = "none" THEN NoLogin
                                 ELSE [NoLogin EXCEPT !.state = "over"]]
    /\ inPlace' = inPlace \cup ({auth} \ {None})
    /\ halfway' = (auth = None /\ (halfway \/ (change # NoChange /\ change.backup # None)))
    /\ UNCHANGED <<auth, backups, spoiled, unclosed, published>>

AccountNext ==
    \/ \E l \in Login : \/ ProviderDecides(l) \/ LoginBegins(l)
                        \/ PollsLate(l) \/ Polls(l) \/ Cancels(l)
    \/ ImportBegins \/ Validates \/ Rejects \/ Abandoned
    \/ Copies \/ BacksUp \/ BackedUp \/ Replaces \/ Publishes \/ PublicationFails
    \/ Closes("failing", "failed") \/ Closes("canceling", "canceled") \/ Closes("telling", "signed_in")
    \/ CloseFails \/ AccountRestarts

AccountSpec == AccountInit /\ [][AccountNext]_accountVars

-----------------------------------------------------------------------------
Steps == {"validate", "copy", "backup", "moved", "replace", "sync", "telling", "failing", "canceling"}

\* The values the variables take.
AccountTypeOK ==
    /\ auth \in Credential \cup {None} /\ faults \in 0..MaxFaults
    /\ backups \cup inPlace \cup published \cup spoiled \subseteq Credential
    /\ login \in [Login -> [state : {"none", "open", "over"}, provider : {"waiting", "succeeded", "failed"},
                            works : BOOLEAN,
                            told : {None, "signed_in", "failed", "expired", "canceled"}]]
    /\ change = NoChange \/ change \in [kind : {"import", "poll", "cancel"}, cred : Login \cup {Source}, at : Steps,
                           backup : Credential \cup {None}]

(* However publications fail, are cut off and repeated, a credential that  *)
(* was in place is in place or in a backup, but for those that were in the *)
(* way of a backup that could not be made; and nothing is in place only    *)
(* where nothing was, or where a publication was cut off with the old one  *)
(* in the backup.                                                          *)
NothingLost ==
    change = NoChange =>
        /\ inPlace \subseteq {auth} \cup backups \cup spoiled
        /\ auth = None => inPlace = {} \/ halfway

(* A user who is told that a login signed in has its credential published, *)
(* and no other answer is given for one that was, unless its client failed *)
(* to close.                                                               *)
ToldTruly ==
    \A l \in Login : /\ login[l].told = "signed_in" => l \in published
                     /\ login[l].told \in {"failed", "expired", "canceled"} => l \notin published \/ l \in unclosed

AccountSound == AccountTypeOK /\ NothingLost /\ ToldTruly

=============================================================================
