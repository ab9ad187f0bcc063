----------------------------- MODULE SiteAccess ------------------------------
(***************************************************************************)
(* Accounts and sessions of a hosted site (site_identity.py) and the       *)
(* requests that use them (middleware.py, application.py).  Every          *)
(* operation of the store is one immediate SQLite transaction; a request   *)
(* is authenticated in one and acts in another, and other requests may     *)
(* come between.                                                           *)
(*                                                                         *)
(* Passwords are right or wrong; e-mail, names, audit events and the       *)
(* creation of accounts are left out.  No caller creates a temporary       *)
(* password.  The limits on wrong passwords, of an account and of a source *)
(* of logins, only refuse more and are left out.                           *)
(***************************************************************************)
EXTENDS Naturals, FiniteSets, FiniteSetsExt

CONSTANTS User, Admin,           \* Admin: the users with that role
          Attempt, Request,        \* Attempt: numbers the logins of a user, a bound
          IdleFor, AbsoluteFor,    \* _SESSION_IDLE_SECONDS and _SESSION_ABSOLUTE_SECONDS
          MaxTime, MaxChanges      \* bounds: time; version of an account's sessions

\* A site is set up with an administrator.
ASSUME SiteAssumption ==
    /\ Admin \subseteq User /\ IsFiniteSet(Admin) /\ Admin # {}
    /\ {IdleFor, AbsoluteFor, MaxTime, MaxChanges} \subseteq Nat \ {0} /\ IdleFor < AbsoluteFor

Token == User \X Attempt

VARIABLES
    now,
    account,  \* per user: active, and the version of its sessions
    session,  \* per token, once granted
    request   \* per request, from its authentication to the end of its handler

siteVars == <<now, account, session, request>>

NoSession == [version |-> 0]
NoRequest == [kind |-> "none", on |-> "nothing"]

SiteInit ==
    /\ now = 0
    /\ account = [u \in User |-> [active |-> TRUE, version |-> 1]]
    /\ session = [s \in Token |-> NoSession]
    /\ request = [q \in Request |-> NoRequest]

Granted(s) == session[s] # NoSession

\* _session_row_is_valid
Valid(s) ==
    /\ Granted(s) /\ ~session[s].revoked
    /\ account[s[1]].active
    /\ session[s].version = account[s[1]].version
    /\ session[s].idle > now /\ session[s].absolute > now

Tick ==
    /\ now < MaxTime /\ now' = now + 1
    /\ UNCHANGED <<account, session, request>>

-----------------------------------------------------------------------------
(* Logging in, with the right password. *)

SiteLogin(u, n) ==
    LET s == <<u, n>> IN
    /\ account[u].active /\ ~Granted(s)
    /\ session' = [session EXCEPT ![s] =
          [version |-> account[u].version, revoked |-> FALSE,
           idle |-> now + Min({IdleFor, AbsoluteFor}), absolute |-> now + AbsoluteFor]]
    /\ UNCHANGED <<now, account, request>>

-----------------------------------------------------------------------------
(* Requests: the middleware authenticates and touches the session, then    *)
(* the handler acts for the account it saw.                                *)

AdminKinds == {"reset", "disable", "enable"}

Touched(s) == [session EXCEPT ![s].idle = Min({now + IdleFor, session[s].absolute})]

\* What a request of the session ``s`` may be and what it acts on.
Permitted(s, kind, on) ==
    \/ kind = "logout" /\ on = s
    \/ kind = "password" /\ on = s[1]
    \/ kind \in AdminKinds /\ s[1] \in Admin /\ on \in User

RequestBegins(q, s, kind, on) ==
    /\ request[q] = NoRequest /\ Valid(s) /\ Permitted(s, kind, on)
    /\ session' = Touched(s) /\ request' = [request EXCEPT ![q] = [kind |-> kind, on |-> on]]
    /\ UNCHANGED <<now, account>>

Ends(q) == request' = [request EXCEPT ![q] = NoRequest]

\* A change of password or status ends the sessions of the account.
Revoked(u) == [s \in Token |-> IF Granted(s) /\ s[1] = u
                               THEN [session[s] EXCEPT !.revoked = TRUE] ELSE session[s]]

Logout(q) ==
    /\ request[q].kind = "logout" /\ Ends(q)
    /\ session' = [session EXCEPT ![request[q].on].revoked = TRUE]
    /\ UNCHANGED <<now, account>>

\* _replace_password, for change_password and reset_password.
ReplacesPassword(q) ==
    LET u == request[q].on IN
    /\ \/ request[q].kind = "password" /\ account[u].active
       \/ request[q].kind = "reset"
    /\ account[u].version < MaxChanges /\ Ends(q)
    /\ account' = [account EXCEPT ![u].version = @ + 1]
    /\ session' = Revoked(u)
    /\ UNCHANGED <<now>>

ActiveAdmins == {u \in Admin : account[u].active}

\* Mutant: the administrators that are disabled count as well.
MayDisableCountingAll(u) == u \notin ActiveAdmins \/ Cardinality(Admin) > 1

\* The last active administrator cannot be disabled.
MayDisable(u) == u \notin ActiveAdmins \/ Cardinality(ActiveAdmins) > 1

SetsStatus(q) ==
    LET u == request[q].on IN
    /\ request[q].kind \in {"disable", "enable"}
    /\ request[q].kind = "disable" => MayDisable(u)
    /\ account[u].version < MaxChanges /\ Ends(q)
    /\ account' = [account EXCEPT ![u].active = (request[q].kind = "enable"), ![u].version = @ + 1]
    /\ session' = Revoked(u)
    /\ UNCHANGED <<now>>

\* Every other end of a handler: a wrong current password, or a refusal.
RequestEnds(q) ==
    /\ request[q].kind \in AdminKinds \cup {"password"} /\ Ends(q)
    /\ UNCHANGED <<now, account, session>>

SiteNext ==
    \/ Tick
    \/ \E u \in User, n \in Attempt : SiteLogin(u, n)
    \/ \E q \in Request, s \in Token, kind \in AdminKinds \cup {"logout", "password"} :
          \E on \in User \cup Token : RequestBegins(q, s, kind, on)
    \/ \E q \in Request : Logout(q) \/ ReplacesPassword(q) \/ SetsStatus(q) \/ RequestEnds(q)

SiteSpec == SiteInit /\ [][SiteNext]_siteVars

-----------------------------------------------------------------------------
\* The values the variables take.
SiteTypeOK ==
    /\ now \in 0..MaxTime
    /\ account \in [User -> [active : BOOLEAN, version : 1..MaxChanges]]
    /\ \A s \in Token : Granted(s) =>
          session[s] \in [version : 1..MaxChanges, revoked : BOOLEAN,
                          idle : 1..session[s].absolute, absolute : 1..(MaxTime + AbsoluteFor)]
    /\ \A q \in Request : request[q].kind \in AdminKinds \cup {"logout", "password", "none"}

(* A session that has ended, by time, by leaving or by a change of its     *)
(* account, never counts again, whatever becomes of the account.           *)
EndedStaysEnded == \A s \in Token : Granted(s) /\ ~Valid(s) => ~Valid(s)'

(* However the requests of administrators overlap, one of them can still   *)
(* act.                                                                    *)
AdminRemains == ActiveAdmins # {}

SiteSound == []SiteTypeOK /\ [][EndedStaysEnded /\ AdminRemains']_siteVars

=============================================================================
