---------------------------- MODULE AroundProofs ----------------------------
(***************************************************************************)
(* What surrounds the runs of a site: its accounts and sessions, the       *)
(* credential of its profile, and the typeset layers of its completed      *)
(* routes, for any number of users, requests, logins and formulas.         *)
(***************************************************************************)
EXTENDS SiteAccess, AccountLogin, RouteTypeset, FiniteSetTheorems, TLAPS

-----------------------------------------------------------------------------
(* The site.  A session never carries a later version than its account, so *)
(* a version it has lost it never gets back.                               *)

SiteInv ==
    /\ now \in Nat
    /\ account \in [User -> [active : BOOLEAN, version : Nat]]
    /\ DOMAIN session = Token
    /\ \A s \in Token : Granted(s) =>
          /\ session[s] \in [version : Nat, revoked : BOOLEAN, idle : Nat, absolute : Nat]
          /\ session[s].version <= account[s[1]].version
    /\ AdminRemains

(* The smaller of two numbers.                                             *)
LEMMA MinOfTwo ==
  ASSUME NEW a \in Nat, NEW b \in Nat
  PROVE  Min({a, b}) \in Nat /\ Min({a, b}) <= a /\ Min({a, b}) <= b
<1>1. \E x \in {a, b} : \A y \in {a, b} : x <= y
  OBVIOUS
<1>2. Min({a, b}) \in {a, b} /\ \A y \in {a, b} : Min({a, b}) <= y
  BY <1>1 DEF Min
<1> QED
  BY <1>2

LEMMA TokenIsPair == \A s \in Token : s[1] \in User
BY DEF Token

LEMMA SiteInvInit == SiteInit => SiteInv
BY SiteAssumption DEF SiteInit, SiteInv, Granted, NoSession, AdminRemains, ActiveAdmins

(* What is the last active administrator is not disabled.                  *)
LEMMA OthersRemain ==
  ASSUME NEW u, MayDisable(u), AdminRemains
  PROVE  ActiveAdmins \ {u} # {}
<1>1. CASE u \notin ActiveAdmins
  BY <1>1 DEF AdminRemains
<1>2. CASE Cardinality(ActiveAdmins) > 1
  <2>1. Cardinality({u}) = 1
    BY FS_Singleton
  <2>2. ActiveAdmins # {} /\ ActiveAdmins # {u}
    BY <1>2, <2>1 DEF AdminRemains
  <2> QED
    BY <2>2
<1> QED
  BY <1>1, <1>2 DEF MayDisable

(* A session that is touched, or not, is the same one; one that is ended   *)
(* by its account is revoked.                                              *)
LEMMA SiteStep == SiteInv /\ [SiteNext]_siteVars => SiteInv' /\ EndedStaysEnded
<1> SUFFICES ASSUME SiteInv, [SiteNext]_siteVars PROVE SiteInv' /\ EndedStaysEnded OBVIOUS
<1> USE SiteAssumption, TokenIsPair
<1>1. CASE Tick
  BY <1>1 DEF Tick, SiteInv, Granted, NoSession, AdminRemains, ActiveAdmins, EndedStaysEnded, Valid
<1>2. ASSUME NEW u \in User, NEW n \in Attempt, SiteLogin(u, n) PROVE SiteInv' /\ EndedStaysEnded
  <2> DEFINE t == <<u, n>>
             ended == now + Min({IdleFor, AbsoluteFor})
             new == [version |-> account[u].version, revoked |-> FALSE, idle |-> ended, absolute |-> now + AbsoluteFor]
  <2>1. ended \in Nat /\ t \in Token /\ t[1] = u
    BY MinOfTwo DEF Token, SiteInv
  <2>2. session'[t] = new /\ (\A s \in Token : s # t => session'[s] = session[s]) /\ DOMAIN session' = Token
    BY <1>2, <2>1 DEF SiteLogin, SiteInv
  <2>3. new \in [version : Nat, revoked : BOOLEAN, idle : Nat, absolute : Nat] /\ new.version <= account[u].version
    BY <2>1 DEF SiteInv
  <2> HIDE DEF new
  <2>4. UNCHANGED <<now, account>> /\ ~Granted(t)
    BY <1>2 DEF SiteLogin
  <2>5. SiteInv'
    BY <2>1, <2>2, <2>3, <2>4 DEF SiteInv, Granted, AdminRemains, ActiveAdmins
  <2>6. EndedStaysEnded
    BY <2>2, <2>4 DEF EndedStaysEnded, Granted, Valid
  <2> QED
    BY <2>5, <2>6
<1>3. ASSUME NEW q \in Request, NEW s \in Token, NEW kind, NEW on, RequestBegins(q, s, kind, on)
      PROVE  SiteInv' /\ EndedStaysEnded
  <2>1. Valid(s) /\ Granted(s) /\ UNCHANGED <<now, account>> /\ session' = Touched(s)
    BY <1>3 DEF RequestBegins, Valid
  <2>2. PICK m \in Nat : m = Min({now + IdleFor, session[s].absolute})
    BY <2>1, MinOfTwo DEF SiteInv
  <2>3. /\ session'[s] = [version |-> session[s].version, revoked |-> session[s].revoked,
                         idle |-> m, absolute |-> session[s].absolute]
        /\ (\A t \in Token : t # s => session'[t] = session[t]) /\ DOMAIN session' = Token
    BY <2>1, <2>2 DEF Touched, SiteInv
  <2>4. SiteInv'
    BY <2>1, <2>2, <2>3 DEF SiteInv, Granted, AdminRemains, ActiveAdmins
  <2>5. EndedStaysEnded
    BY <2>1, <2>3 DEF EndedStaysEnded, Granted, Valid
  <2> QED
    BY <2>4, <2>5
<1>4. ASSUME NEW u, session' = Revoked(u), UNCHANGED now, account' \in [User -> [active : BOOLEAN, version : Nat]],
             \A v \in User : account[v].version <= account'[v].version /\ (v # u => account'[v] = account[v]),
             AdminRemains'
      PROVE  SiteInv' /\ EndedStaysEnded
  <2>1. ASSUME NEW s \in Token
        PROVE  /\ Granted(s) /\ s[1] = u =>
                     session'[s] = [version |-> session[s].version, revoked |-> TRUE,
                                    idle |-> session[s].idle, absolute |-> session[s].absolute]
               /\ ~Granted(s) \/ s[1] # u => session'[s] = session[s]
    <3>1. CASE Granted(s) /\ s[1] = u
      <4>1. session[s] \in [version : Nat, revoked : BOOLEAN, idle : Nat, absolute : Nat]
        BY <3>1 DEF SiteInv
      <4>2. session'[s] = [session[s] EXCEPT !.revoked = TRUE]
        BY <1>4, <3>1 DEF Revoked
      <4> QED
        BY <3>1, <4>1, <4>2
    <3>2. CASE ~(Granted(s) /\ s[1] = u)
      BY <1>4, <3>2 DEF Revoked
    <3> QED
      BY <3>1, <3>2
  <2>2. DOMAIN session' = Token
    BY <1>4 DEF Revoked
  <2>3. \A s \in Token : Granted(s)' => Granted(s)
    BY <2>1 DEF Granted
  <2>4. SiteInv'
    <3>1. ASSUME NEW s \in Token, Granted(s)'
          PROVE  /\ session'[s] \in [version : Nat, revoked : BOOLEAN, idle : Nat, absolute : Nat]
                 /\ session'[s].version <= account'[s[1]].version
      <4>1. Granted(s) /\ session[s] \in [version : Nat, revoked : BOOLEAN, idle : Nat, absolute : Nat]
            /\ session[s].version <= account[s[1]].version /\ account[s[1]].version <= account'[s[1]].version
            /\ account[s[1]].version \in Nat /\ account'[s[1]].version \in Nat
        BY <1>4, <2>3, <3>1 DEF SiteInv
      <4>2. CASE s[1] = u
        <5>1. session'[s] = [version |-> session[s].version, revoked |-> TRUE,
                             idle |-> session[s].idle, absolute |-> session[s].absolute]
          BY <2>1, <4>1, <4>2
        <5> QED
          BY <4>1, <5>1
      <4>3. CASE s[1] # u
        <5>1. session'[s] = session[s]
          BY <2>1, <4>3
        <5> QED
          BY <4>1, <5>1
      <4> QED
        BY <4>2, <4>3
    <3> QED
      BY <1>4, <2>2, <3>1 DEF SiteInv
  <2>5. ASSUME NEW s \in Token, Granted(s), ~Valid(s), Valid(s)' PROVE FALSE
    <3>1. CASE s[1] = u
      <4>0. session'[s] = [version |-> session[s].version, revoked |-> TRUE,
                           idle |-> session[s].idle, absolute |-> session[s].absolute]
        BY <2>1, <2>5, <3>1
      <4>1. session'[s].revoked = TRUE
        BY <4>0
      <4> QED
        BY <2>5, <4>1 DEF Valid
    <3>2. CASE s[1] # u
      BY <1>4, <2>1, <2>5, <3>2 DEF Valid, Granted
    <3> QED
      BY <3>1, <3>2
  <2> QED
    BY <2>4, <2>5 DEF EndedStaysEnded
<1>5. ASSUME NEW q \in Request, ReplacesPassword(q) PROVE SiteInv' /\ EndedStaysEnded
  <2> DEFINE u == request[q].on
  <2>1. /\ session' = Revoked(u) /\ UNCHANGED now /\ account' = [account EXCEPT ![u].version = @ + 1]
    BY <1>5 DEF ReplacesPassword
  <2>2. account' \in [User -> [active : BOOLEAN, version : Nat]]
    <3>1. account \in [User -> [active : BOOLEAN, version : Nat]]
      BY DEF SiteInv
    <3>2. \A v \in User : v # u => account'[v] = account[v]
      BY <2>1, <3>1
    <3>3. \A v \in User : v = u => account'[v] \in [active : BOOLEAN, version : Nat]
      BY <2>1, <3>1
    <3> QED
      BY <2>1, <3>1, <3>2, <3>3
  <2>3. \A v \in User : account'[v].active = account[v].active /\ account[v].version <= account'[v].version
                       /\ (v # u => account'[v] = account[v])
    BY <2>1 DEF SiteInv
  <2>4. AdminRemains'
    BY <2>3 DEF SiteInv, AdminRemains, ActiveAdmins
  <2> QED
    BY <1>4, <2>1, <2>2, <2>3, <2>4
<1>6. ASSUME NEW q \in Request, SetsStatus(q) PROVE SiteInv' /\ EndedStaysEnded
  <2> DEFINE u == request[q].on
  <2>1. PICK b \in BOOLEAN : b = (request[q].kind = "enable")
    OBVIOUS
  <2>2. /\ session' = Revoked(u) /\ UNCHANGED now /\ (b \/ MayDisable(u))
        /\ account' = [account EXCEPT ![u].active = b, ![u].version = @ + 1]
    BY <1>6, <2>1 DEF SetsStatus
  <2>3. account' \in [User -> [active : BOOLEAN, version : Nat]]
    <3>1. account \in [User -> [active : BOOLEAN, version : Nat]]
      BY DEF SiteInv
    <3>2. \A v \in User : v # u => account'[v] = account[v]
      BY <2>2, <3>1
    <3>3. \A v \in User : v = u => account'[v] \in [active : BOOLEAN, version : Nat]
      BY <2>2, <3>1
    <3> QED
      BY <2>2, <3>1, <3>2, <3>3
  <2>4. \A v \in User : account[v].version <= account'[v].version /\ (v # u => account'[v] = account[v])
                       /\ (v = u => account'[v].active = b)
    BY <2>2 DEF SiteInv
  <2>5. AdminRemains'
    <3>1. CASE b
      BY <2>4, <3>1 DEF SiteInv, AdminRemains, ActiveAdmins
    <3>2. CASE ~b
      <4>1. PICK v \in ActiveAdmins : v # u
        BY <2>2, <3>2, OthersRemain DEF SiteInv
      <4> QED
        BY <2>4, <4>1 DEF AdminRemains, ActiveAdmins
    <3> QED
      BY <2>1, <3>1, <3>2
  <2> QED
    BY <1>4, <2>2, <2>3, <2>4, <2>5
<1>7. ASSUME NEW q \in Request, Logout(q) PROVE SiteInv' /\ EndedStaysEnded
  <2> DEFINE t == request[q].on
  <2>1. session' = [session EXCEPT ![t].revoked = TRUE] /\ UNCHANGED <<now, account>>
    BY <1>7 DEF Logout
  <2>2. DOMAIN session' = Token /\ \A s \in Token : s # t => session'[s] = session[s]
    BY <2>1 DEF SiteInv
  <2>3. t \in Token /\ Granted(t) => session'[t] = [version |-> session[t].version, revoked |-> TRUE,
                                  idle |-> session[t].idle, absolute |-> session[t].absolute]
    BY <2>1 DEF SiteInv
  <2>4. t \in Token /\ ~Granted(t) => session'[t] = NoSession
    BY <2>1 DEF SiteInv, Granted, NoSession
  <2>5. SiteInv'
    BY <2>1, <2>2, <2>3, <2>4 DEF SiteInv, Granted, AdminRemains, ActiveAdmins
  <2>6. EndedStaysEnded
    BY <2>1, <2>2, <2>3 DEF EndedStaysEnded, Granted, Valid
  <2> QED
    BY <2>5, <2>6
<1>8. CASE UNCHANGED <<now, account, session>>
  BY <1>8 DEF SiteInv, Granted, AdminRemains, ActiveAdmins, EndedStaysEnded, Valid
<1> QED
  BY <1>1, <1>2, <1>3, <1>5, <1>6, <1>7, <1>8 DEF SiteNext, RequestEnds, siteVars

(* What the variables hold.  A session that is touched ends no later than  *)
(* it would have.                                                          *)
SiteTypes == SiteTypeOK /\ DOMAIN request = Request

SessionTypes(t) ==
    [version : 1..MaxChanges, revoked : BOOLEAN, idle : 1..t, absolute : 1..(MaxTime + AbsoluteFor)]

LEMMA SiteTypesInit == SiteInit => SiteTypes
BY SiteAssumption DEF SiteInit, SiteTypes, SiteTypeOK, Granted, NoSession, NoRequest

LEMMA EndedTypes ==
  ASSUME NEW r, NEW t, r \in SessionTypes(t), t = r.absolute
  PROVE  [r EXCEPT !.revoked = TRUE] \in SessionTypes([r EXCEPT !.revoked = TRUE].absolute)
<1> DEFINE n == [r EXCEPT !.revoked = TRUE]
<1>1. n \in SessionTypes(t)
  BY DEF SessionTypes
<1>2. n.absolute = t
  BY DEF SessionTypes
<1> HIDE DEF n
<1>3. n \in SessionTypes(n.absolute)
  BY <1>1, <1>2
<1> QED
  BY <1>3 DEF n

LEMMA RevokedTypes ==
  ASSUME SiteInv, SiteTypeOK, NEW u, NEW s \in Token, Revoked(u)[s] # NoSession
  PROVE  Revoked(u)[s] \in SessionTypes(Revoked(u)[s].absolute)
<1> DEFINE r == session[s]
<1>1. Granted(s)
  BY DEF Revoked, Granted
<1>2. r \in SessionTypes(r.absolute)
  BY <1>1 DEF SiteTypeOK, SessionTypes
<1>3. Revoked(u)[s] = r \/ Revoked(u)[s] = [r EXCEPT !.revoked = TRUE]
  BY DEF Revoked
<1> HIDE DEF r
<1> QED
  BY <1>2, <1>3, EndedTypes

(* An account whose version is within its bound may get the next one.      *)
LEMMA NextVersion ==
  ASSUME account \in [User -> [active : BOOLEAN, version : 1..MaxChanges]], MaxChanges \in Nat, NEW u,
         account[u].version < MaxChanges, NEW b \in BOOLEAN
  PROVE  /\ [account EXCEPT ![u].version = @ + 1] \in [User -> [active : BOOLEAN, version : 1..MaxChanges]]
         /\ [account EXCEPT ![u].active = b, ![u].version = @ + 1] \in [User -> [active : BOOLEAN, version : 1..MaxChanges]]
<1>1. CASE u \in User
  <2> DEFINE a == account[u]
  <2>1. a.version + 1 \in 1..MaxChanges /\ a \in [active : BOOLEAN, version : 1..MaxChanges]
    BY <1>1
  <2>2. /\ [a EXCEPT !.version = @ + 1] \in [active : BOOLEAN, version : 1..MaxChanges]
        /\ [a EXCEPT !.active = b, !.version = @ + 1] \in [active : BOOLEAN, version : 1..MaxChanges]
    BY <2>1
  <2>3. /\ [account EXCEPT ![u].version = @ + 1] = [account EXCEPT ![u] = [a EXCEPT !.version = @ + 1]]
        /\ [account EXCEPT ![u].active = b, ![u].version = @ + 1] =
              [account EXCEPT ![u] = [a EXCEPT !.active = b, !.version = @ + 1]]
    BY <1>1
  <2> QED
    BY <2>2, <2>3
<1>2. CASE u \notin User
  BY <1>2
<1> QED
  BY <1>1, <1>2

LEMMA RequestTypes ==
  ASSUME SiteTypes, NEW q \in Request, NEW r,
         request' = [request EXCEPT ![q] = r], r.kind \in AdminKinds \cup {"logout", "password", "none"}
  PROVE  /\ DOMAIN request' = Request
         /\ \A p \in Request : request'[p].kind \in AdminKinds \cup {"logout", "password", "none"}
BY DEF SiteTypes, SiteTypeOK

LEMMA SiteTypesStep == SiteInv /\ SiteTypes /\ [SiteNext]_siteVars => SiteTypes'
<1> SUFFICES ASSUME SiteInv, SiteTypes, [SiteNext]_siteVars PROVE SiteTypes' OBVIOUS
<1>0. /\ IdleFor \in Nat \ {0} /\ AbsoluteFor \in Nat \ {0} /\ MaxTime \in Nat /\ MaxChanges \in Nat
      /\ now \in 0..MaxTime /\ account \in [User -> [active : BOOLEAN, version : 1..MaxChanges]]
      /\ \A s \in Token : s[1] \in User /\ (Granted(s) => session[s] \in SessionTypes(session[s].absolute))
  BY SiteAssumption, TokenIsPair DEF SiteTypes, SiteTypeOK, SessionTypes
<1>1. CASE Tick
  BY <1>0, <1>1 DEF Tick, SiteTypes, SiteTypeOK, Granted
<1>2. ASSUME NEW u \in User, NEW n \in Attempt, SiteLogin(u, n) PROVE SiteTypes'
  <2> DEFINE t == <<u, n>>
             ended == now + Min({IdleFor, AbsoluteFor})
             new == [version |-> account[u].version, revoked |-> FALSE, idle |-> ended, absolute |-> now + AbsoluteFor]
  <2>1. t \in Token /\ Min({IdleFor, AbsoluteFor}) \in {IdleFor, AbsoluteFor} /\ Min({IdleFor, AbsoluteFor}) <= AbsoluteFor
    <3>1. \E x \in {IdleFor, AbsoluteFor} : \A y \in {IdleFor, AbsoluteFor} : x <= y
      BY <1>0
    <3> QED
      BY <3>1, <1>0 DEF Min, Token
  <2>2. session'[t] = new /\ (\A s \in Token : s # t => session'[s] = session[s]) /\ UNCHANGED <<now, account, request>>
    BY <1>2, <2>1 DEF SiteLogin, SiteInv
  <2>3. account[u].version \in 1..MaxChanges
    BY <1>0
  <2>4. new \in SessionTypes(new.absolute)
    BY <1>0, <2>1, <2>3 DEF SessionTypes
  <2> HIDE DEF new
  <2>5. \A s \in Token : session'[s] # NoSession => session'[s] \in SessionTypes(session'[s].absolute)
    BY <1>0, <2>2, <2>4 DEF Granted
  <2> QED
    BY <1>0, <2>2, <2>5 DEF SiteTypes, SiteTypeOK, Granted, SessionTypes
<1>3. ASSUME NEW q \in Request, NEW s \in Token, NEW kind \in AdminKinds \cup {"logout", "password"}, NEW on,
             RequestBegins(q, s, kind, on)
      PROVE  SiteTypes'
  <2> DEFINE r == session[s]  m == Min({now + IdleFor, r.absolute})
  <2>1. Granted(s) /\ UNCHANGED <<now, account>> /\ session' = Touched(s)
        /\ request' = [request EXCEPT ![q] = [kind |-> kind, on |-> on]]
    BY <1>3 DEF RequestBegins, Valid
  <2>2. r \in SessionTypes(r.absolute)
    BY <1>0, <2>1
  <2>3. m \in 1..r.absolute
    <3>1. r.absolute \in Nat \ {0} /\ now + IdleFor \in Nat \ {0}
      BY <1>0, <2>2 DEF SessionTypes
    <3>2. \E x \in {now + IdleFor, r.absolute} : \A y \in {now + IdleFor, r.absolute} : x <= y
      BY <3>1
    <3>3. m \in {now + IdleFor, r.absolute} /\ \A y \in {now + IdleFor, r.absolute} : m <= y
      BY <3>2 DEF Min
    <3> QED
      BY <3>1, <3>3
  <2>4. session'[s] = [r EXCEPT !.idle = m] /\ \A t \in Token : t # s => session'[t] = session[t]
    BY <2>1 DEF Touched, SiteInv
  <2>5. [r EXCEPT !.idle = m] = [version |-> r.version, revoked |-> r.revoked, idle |-> m, absolute |-> r.absolute]
    BY <2>2 DEF SessionTypes
  <2> HIDE DEF m
  <2>6. session'[s] \in SessionTypes(session'[s].absolute)
    BY <2>2, <2>3, <2>4, <2>5 DEF SessionTypes
  <2>7. \A t \in Token : session'[t] # NoSession => session'[t] \in SessionTypes(session'[t].absolute)
    BY <1>0, <2>4, <2>6 DEF Granted
  <2>8. /\ DOMAIN request' = Request
        /\ \A p \in Request : request'[p].kind \in AdminKinds \cup {"logout", "password", "none"}
    <3> DEFINE new == [kind |-> kind, on |-> on]
    <3>1. new.kind \in AdminKinds \cup {"logout", "password", "none"} /\ request' = [request EXCEPT ![q] = new]
      BY <2>1
    <3> QED
      BY <3>1, RequestTypes
  <2> QED
    BY <1>0, <2>1, <2>7, <2>8 DEF SiteTypes, SiteTypeOK, Granted, SessionTypes
<1>4. ASSUME NEW q \in Request, Ends(q)
      PROVE  /\ DOMAIN request' = Request
             /\ \A p \in Request : request'[p].kind \in AdminKinds \cup {"logout", "password", "none"}
  BY <1>4, RequestTypes DEF Ends, NoRequest
<1>5. ASSUME NEW u, session' = Revoked(u), UNCHANGED now, account' \in [User -> [active : BOOLEAN, version : 1..MaxChanges]],
             NEW q \in Request, Ends(q)
      PROVE  SiteTypes'
  <2>1. \A s \in Token : session'[s] # NoSession => session'[s] \in SessionTypes(session'[s].absolute)
    BY <1>5, RevokedTypes DEF SiteTypes
  <2> QED
    BY <1>0, <1>4, <1>5, <2>1 DEF SiteTypes, SiteTypeOK, Granted, SessionTypes
<1>6. ASSUME NEW q \in Request, Logout(q) PROVE SiteTypes'
  <2> DEFINE o == request[q].on
  <2>1. UNCHANGED <<now, account>> /\ Ends(q) /\ session' = [session EXCEPT ![o].revoked = TRUE]
    BY <1>6 DEF Logout
  <2>2. ASSUME NEW s \in Token, session'[s] # NoSession PROVE session'[s] \in SessionTypes(session'[s].absolute)
    <3> DEFINE r == session[s]
    <3>1. session'[s] = r \/ session'[s] = [r EXCEPT !.revoked = TRUE]
      BY <2>1 DEF SiteInv
    <3>2. CASE Granted(s)
      <4>1. r \in SessionTypes(r.absolute)
        BY <1>0, <3>2
      <4> HIDE DEF r
      <4> QED
        BY <3>1, <4>1, EndedTypes
    <3>3. CASE ~Granted(s)
      <4>1. r = NoSession
        BY <3>3 DEF Granted
      <4>2. [NoSession EXCEPT !.revoked = TRUE] = NoSession
        BY DEF NoSession
      <4> QED
        BY <2>2, <3>1, <4>1, <4>2
    <3> QED
      BY <3>2, <3>3
  <2> QED
    BY <1>0, <1>4, <2>1, <2>2 DEF SiteTypes, SiteTypeOK, Granted, SessionTypes
<1>7. ASSUME NEW q \in Request, ReplacesPassword(q) PROVE SiteTypes'
  <2> DEFINE u == request[q].on
  <2>1. UNCHANGED now /\ Ends(q) /\ session' = Revoked(u) /\ account' = [account EXCEPT ![u].version = @ + 1]
        /\ account[u].version < MaxChanges
    BY <1>7 DEF ReplacesPassword
  <2>2. account' \in [User -> [active : BOOLEAN, version : 1..MaxChanges]]
    BY <1>0, <2>1, NextVersion
  <2> QED
    BY <1>5, <2>1, <2>2
<1>8. ASSUME NEW q \in Request, SetsStatus(q) PROVE SiteTypes'
  <2> DEFINE u == request[q].on
  <2>1. UNCHANGED now /\ Ends(q) /\ session' = Revoked(u) /\ account[u].version < MaxChanges
        /\ account' = [account EXCEPT ![u].active = (request[q].kind = "enable"), ![u].version = @ + 1]
    BY <1>8 DEF SetsStatus
  <2>2. account' \in [User -> [active : BOOLEAN, version : 1..MaxChanges]]
    BY <1>0, <2>1, NextVersion
  <2> QED
    BY <1>5, <2>1, <2>2
<1>9. ASSUME NEW q \in Request, RequestEnds(q) PROVE SiteTypes'
  BY <1>0, <1>4, <1>9 DEF RequestEnds, SiteTypes, SiteTypeOK, Granted, SessionTypes
<1>10. CASE UNCHANGED siteVars
  BY <1>10 DEF siteVars, SiteTypes, SiteTypeOK, Granted
<1> QED
  BY <1>1, <1>2, <1>3, <1>6, <1>7, <1>8, <1>9, <1>10 DEF SiteNext

(* A session that has ended never counts again, and an administrator who   *)
(* can act always remains, however the requests of administrators overlap: *)
(* for any users, requests and times.                                      *)
THEOREM SiteThm == SiteSpec => SiteSound
<1>1. SiteSpec => []SiteInv
  BY SiteInvInit, SiteStep, PTL DEF SiteSpec
<1>2. SiteInv /\ SiteInv' /\ [SiteNext]_siteVars => [EndedStaysEnded /\ AdminRemains']_siteVars
  BY SiteStep DEF SiteInv
<1>3. SiteSpec => []SiteTypes
  BY <1>1, SiteTypesInit, SiteTypesStep, PTL DEF SiteSpec
<1>4. SiteTypes => SiteTypeOK
  BY DEF SiteTypes
<1> QED
  BY <1>1, <1>2, <1>3, <1>4, PTL DEF SiteSpec, SiteSound

-----------------------------------------------------------------------------
(* The credential.  Between the backup and the new credential the profile  *)
(* has none in place; what was in place is in a backup then, and a failure *)
(* puts back the backup it was told of.                                    *)

Working == change # NoChange
InTheMiddle == Working /\ change.at \in {"moved", "replace", "sync"}

ChangeOK ==
    Working =>
    /\ change \in [kind : {"import", "poll", "cancel"}, cred : Login \cup {Source}, at : Steps,
                   backup : Credential \cup {None}]
    /\ change.kind # "import" => change.cred \in Login /\ login[change.cred].state = "open"
    /\ change.kind = "import" => change.cred = Source /\ change.at \notin {"failing", "canceling", "telling"}
    /\ change.at = "telling" => change.cred \in published
    /\ change.at = "backup" => auth # None
    /\ change.at \in {"moved", "replace"} => auth = None
    /\ change.at = "sync" => auth = change.cred
    /\ change.at = "moved" => change.backup # None
    /\ change.at \in {"replace", "sync"} /\ change.backup = None => inPlace = {} \/ halfway

PlacesKept ==
    /\ InTheMiddle => inPlace \subseteq backups \cup spoiled
    /\ ~InTheMiddle => inPlace \subseteq {auth} \cup backups \cup spoiled /\ (auth = None => inPlace = {} \/ halfway)

\* A login that was published is open only while its user is told, or when its client did not close.
PublishedTold ==
    \A l \in Login :
       /\ login[l].told # None => login[l].state = "over"
       /\ login[l].told = "signed_in" => l \in published
       /\ l \in published =>
             \/ l \in unclosed
             \/ login[l].state = "open" /\ Working /\ change.kind # "import" /\ change.cred = l /\ change.at = "telling"
             \/ login[l].state = "over" /\ login[l].told \in {None, "signed_in"}

AccountInv == AccountTypeOK /\ ChangeOK /\ PlacesKept /\ PublishedTold

LoginTyped == [Login -> [state : {"none", "open", "over"}, provider : {"waiting", "succeeded", "failed"},
                           works : BOOLEAN, told : {None, "signed_in", "failed", "expired", "canceled"}]]
ChangeTyped == [kind : {"import", "poll", "cancel"}, cred : Login \cup {Source}, at : Steps, backup : Credential \cup {None}]

LEMMA AccountInvInit == AccountInit => AccountInv
<1> SUFFICES ASSUME AccountInit PROVE AccountInv OBVIOUS
<1> USE AccountAssumption DEF AccountInit
<1>1. AccountTypeOK
  <2>1. backups \cup inPlace \cup published \cup spoiled \subseteq Credential
    BY DEF Credential
  <2>2. auth \in Credential \cup {None} /\ faults \in 0..MaxFaults /\ change = NoChange
    BY DEF Credential
  <2>3. \A l \in Login : login[l] \in [state : {"none", "open", "over"}, provider : {"waiting", "succeeded", "failed"},
                                     works : BOOLEAN, told : {None, "signed_in", "failed", "expired", "canceled"}]
    BY DEF NoLogin
  <2> QED
    BY <2>1, <2>2, <2>3 DEF AccountTypeOK
<1>2. ~Working /\ ~InTheMiddle
  BY DEF Working, InTheMiddle
<1>3. ChangeOK /\ PlacesKept
  BY <1>2 DEF ChangeOK, PlacesKept
<1>4. PublishedTold
  BY DEF PublishedTold, NoLogin, None
<1> QED
  BY <1>1, <1>3, <1>4 DEF AccountInv

(* The steps that change one login, or the operation, keep their types.    *)
LEMMA LoginStays ==
  ASSUME NEW f \in LoginTyped, NEW k \in Login
  PROVE  [f EXCEPT ![k].works = FALSE] \in LoginTyped
<1>1. [f EXCEPT ![k].works = FALSE] = [f EXCEPT ![k] = [f[k] EXCEPT !.works = FALSE]]
  OBVIOUS
<1>2. f[k] \in [state : {"none", "open", "over"}, provider : {"waiting", "succeeded", "failed"},
               works : BOOLEAN, told : {None, "signed_in", "failed", "expired", "canceled"}]
  BY DEF LoginTyped
<1>3. [f[k] EXCEPT !.works = FALSE] \in [state : {"none", "open", "over"}, provider : {"waiting", "succeeded", "failed"},
               works : BOOLEAN, told : {None, "signed_in", "failed", "expired", "canceled"}]
  BY <1>2
<1> QED
  BY <1>1, <1>3 DEF LoginTyped

LEMMA AccountInvStep == AccountInv /\ [AccountNext]_accountVars => AccountInv'
<1> SUFFICES ASSUME AccountInv, [AccountNext]_accountVars PROVE AccountInv' OBVIOUS
<1> USE AccountAssumption DEF AccountInv, AccountTypeOK, ChangeOK, PlacesKept, PublishedTold, InTheMiddle, Working,
       NoChange, NoLogin, None, Credential, Steps, storeVars, tellVars, Reaches, Fault, ToldAs, LeftInPlace
<1>a. login \in LoginTyped /\ (change = NoChange \/ change \in ChangeTyped)
  BY DEF LoginTyped, ChangeTyped
<1>1. ASSUME NEW l \in Login, ProviderDecides(l) PROVE AccountInv'
  BY <1>1 DEF ProviderDecides
<1>2. ASSUME NEW l \in Login, LoginBegins(l) PROVE AccountInv'
  <2>1. AccountTypeOK'
    BY <1>2 DEF LoginBegins
  <2>2. ChangeOK'
    BY <1>2 DEF LoginBegins
  <2>3. PlacesKept'
    BY <1>2 DEF LoginBegins
  <2>4. PublishedTold'
    <3>1. login'[l].told = login[l].told /\ login'[l].state = "open" /\ \A k \in Login : k # l => login'[k] = login[k]
      BY <1>2 DEF LoginBegins
    <3>2. login[l].state = "none" /\ ~Working /\ UNCHANGED <<unclosed, published, change>>
      BY <1>2 DEF LoginBegins, Working
    <3>3. login[l].told = "none"
      <4>1. login[l].told # "none" => login[l].state = "over"
        OBVIOUS
      <4> QED
        BY <3>2, <4>1
    <3>4. \A k \in Login : k # l => (k \in published => k \in unclosed \/ (login[k].state = "over" /\ login[k].told \in {None, "signed_in"}))
      BY <3>2
    <3>5. l \in published => l \in unclosed
      BY <3>2
    <3> QED
      BY <3>1, <3>2, <3>3, <3>4, <3>5
  <2> QED
    BY <2>1, <2>2, <2>3, <2>4
<1>3. ASSUME NEW l \in Login, PollsLate(l) PROVE AccountInv'
  BY <1>3 DEF PollsLate
<1>4. ASSUME NEW l \in Login, Polls(l) PROVE AccountInv'
  BY <1>4 DEF Polls
<1>5. ASSUME NEW l \in Login, Cancels(l) PROVE AccountInv'
  BY <1>5 DEF Cancels
<1>6. ASSUME ImportBegins PROVE AccountInv'
  BY <1>6 DEF ImportBegins
<1>7. ASSUME Validates PROVE AccountInv'
  BY <1>7 DEF Validates
<1>8. ASSUME Rejects PROVE AccountInv'
  BY <1>8 DEF Rejects
<1>9. ASSUME Abandoned PROVE AccountInv'
  <2>1. AccountTypeOK'
    <3>1. change # NoChange /\ change' = NoChange /\ UNCHANGED <<storeVars, published>> /\ faults' \in 0..MaxFaults
      BY <1>9 DEF Abandoned
    <3>2. UNCHANGED login \/ login' = [login EXCEPT ![change.cred].works = FALSE]
      BY <1>9 DEF Abandoned
    <3>3. login' \in LoginTyped
      <4>1. CASE UNCHANGED login
        BY <1>a, <4>1
      <4>2. CASE ~UNCHANGED login
        <5>1. change.at # "validate" /\ change \in ChangeTyped /\ change.cred \in Login
          BY <1>9, <1>a, <3>1, <4>2 DEF Abandoned, ChangeTyped
        <5> QED
          BY <1>a, <3>2, <4>2, <5>1, LoginStays
      <4> QED
        BY <4>1, <4>2
    <3> QED
      BY <3>1, <3>3 DEF LoginTyped
  <2>2. ChangeOK'
    BY <1>9 DEF Abandoned
  <2>3. PlacesKept'
    BY <1>9 DEF Abandoned
  <2>4. PublishedTold'
    BY <1>9 DEF Abandoned
  <2> QED
    BY <2>1, <2>2, <2>3, <2>4
<1>10. ASSUME Copies PROVE AccountInv'
  BY <1>10 DEF Copies
<1>11. ASSUME BacksUp PROVE AccountInv'
  <2>1. AccountTypeOK'
    <3>1. change \in ChangeTyped /\ auth \in Credential
      BY <1>11 DEF BacksUp, ChangeTyped
    <3>2. change' \in ChangeTyped
      BY <1>11, <3>1 DEF BacksUp, ChangeTyped
    <3>3. backups' \subseteq Credential /\ auth' = None /\ UNCHANGED <<inPlace, published, spoiled, login, faults>>
      BY <1>11, <3>1 DEF BacksUp
    <3> QED
      BY <3>2, <3>3 DEF ChangeTyped
  <2>2. ChangeOK'
    BY <1>11 DEF BacksUp
  <2>3. PlacesKept'
    <3>1. change.at = "backup" /\ backups' = backups \cup {auth} /\ UNCHANGED <<inPlace, spoiled>>
      BY <1>11 DEF BacksUp
    <3>2. inPlace \subseteq backups' \cup spoiled
      BY <3>1
    <3>3. change \in ChangeTyped
      BY <1>11 DEF BacksUp, ChangeTyped
    <3>4. InTheMiddle'
      <4>1. change'.at = "moved" /\ change'.kind \in {"import", "poll", "cancel"}
        BY <1>11, <3>3 DEF BacksUp, ChangeTyped
      <4> QED
        BY <4>1 DEF Working
    <3> QED
      BY <3>1, <3>2, <3>4
  <2>4. PublishedTold'
    BY <1>11 DEF BacksUp
  <2> QED
    BY <2>1, <2>2, <2>3, <2>4
<1>12. ASSUME BackedUp PROVE AccountInv'
  BY <1>12 DEF BackedUp
<1>13. ASSUME Replaces PROVE AccountInv'
  BY <1>13 DEF Replaces
<1>14. ASSUME Publishes PROVE AccountInv'
  <2>1. AccountTypeOK'
    <3>1. change \in ChangeTyped /\ change.at = "sync" /\ auth \in Credential \cup {None}
      BY <1>14 DEF Publishes, ChangeTyped
    <3>2. change' = NoChange \/ change' \in ChangeTyped
      BY <1>14, <3>1 DEF Publishes, ChangeTyped
    <3>3. published' \subseteq Credential /\ UNCHANGED <<auth, backups, spoiled, login, faults>> /\ inPlace' = inPlace \cup {auth}
      BY <1>14, <3>1 DEF Publishes, ChangeTyped
    <3> QED
      BY <3>1, <3>2, <3>3 DEF LoginTyped, ChangeTyped
  <2>2. ChangeOK'
    BY <1>14 DEF Publishes
  <2>3. PlacesKept'
    <3>1. InTheMiddle /\ ~InTheMiddle' /\ auth' = auth /\ inPlace' = inPlace \cup {auth} /\ auth # None
          /\ UNCHANGED <<backups, spoiled>>
      BY <1>14 DEF Publishes
    <3> QED
      BY <3>1
  <2>4. PublishedTold'
    BY <1>14 DEF Publishes
  <2> QED
    BY <2>1, <2>2, <2>3, <2>4
<1>15. ASSUME PublicationFails PROVE AccountInv'
  <2>1. AccountTypeOK'
    BY <1>15 DEF PublicationFails
  <2>2. ChangeOK'
    BY <1>15 DEF PublicationFails
  <2>3. PlacesKept'
    <3>1. ~InTheMiddle' /\ UNCHANGED inPlace
      BY <1>15 DEF PublicationFails
    <3>2. CASE change.at = "copy"
      BY <1>15, <3>1, <3>2 DEF PublicationFails
    <3>3. CASE change.at = "backup"
      <4>1. auth' = None /\ backups' = backups \ {None} /\ spoiled' = spoiled \cup {auth} /\ halfway'
        BY <1>15, <3>3 DEF PublicationFails
      <4>2. inPlace \subseteq {auth} \cup backups \cup spoiled /\ None \notin inPlace
        BY <3>3
      <4> QED
        BY <3>1, <4>1, <4>2
    <3>4. CASE change.at = "moved"
      <4>1. auth' = None /\ backups' = backups \ {None} /\ spoiled' = spoiled /\ halfway'
        BY <1>15, <3>4 DEF PublicationFails
      <4>2. inPlace \subseteq backups \cup spoiled /\ None \notin inPlace
        BY <1>15, <3>4 DEF PublicationFails
      <4> QED
        BY <3>1, <4>1, <4>2
    <3>5. CASE change.at \in {"replace", "sync"}
      <4>1. auth' = change.backup /\ backups' = backups \ {change.backup} /\ spoiled' = spoiled /\ (halfway => halfway')
        BY <1>15, <3>5 DEF PublicationFails
      <4>2. inPlace \subseteq backups \cup spoiled
        BY <1>15, <3>5 DEF PublicationFails
      <4>3. change.backup = None => inPlace = {} \/ halfway
        BY <1>15, <3>5 DEF PublicationFails
      <4> QED
        BY <3>1, <4>1, <4>2, <4>3
    <3> QED
      BY <1>15, <3>2, <3>3, <3>4, <3>5 DEF PublicationFails
  <2>4. PublishedTold'
    BY <1>15 DEF PublicationFails
  <2> QED
    BY <2>1, <2>2, <2>3, <2>4
<1>16. ASSUME Closes("failing", "failed") PROVE AccountInv'
  <2>1. AccountTypeOK' /\ ChangeOK'
    BY <1>16 DEF Closes
  <2>2. PlacesKept'
    BY <1>16 DEF Closes
  <2>3. PublishedTold'
    BY <1>16 DEF Closes
  <2> QED
    BY <2>1, <2>2, <2>3
<1>17. ASSUME Closes("canceling", "canceled") PROVE AccountInv'
  <2>1. AccountTypeOK' /\ ChangeOK'
    BY <1>17 DEF Closes
  <2>2. PlacesKept'
    BY <1>17 DEF Closes
  <2>3. PublishedTold'
    BY <1>17 DEF Closes
  <2> QED
    BY <2>1, <2>2, <2>3
<1>18. ASSUME Closes("telling", "signed_in") PROVE AccountInv'
  <2>1. AccountTypeOK' /\ ChangeOK'
    BY <1>18 DEF Closes
  <2>2. PlacesKept'
    BY <1>18 DEF Closes
  <2>3. PublishedTold'
    BY <1>18 DEF Closes
  <2> QED
    BY <2>1, <2>2, <2>3
<1>19. ASSUME CloseFails PROVE AccountInv'
  <2>1. AccountTypeOK'
    <3>1. change' = NoChange /\ UNCHANGED <<storeVars, published>> /\ faults' \in 0..MaxFaults
          /\ login' = [login EXCEPT ![change.cred].works = FALSE]
      BY <1>19 DEF CloseFails
    <3>2. change.kind # "none" /\ change.kind # "import"
      BY <1>19 DEF CloseFails
    <3>3. change.cred \in Login
      BY <3>2
    <3>4. login' \in LoginTyped
      BY <1>a, <3>1, <3>3, LoginStays
    <3> QED
      BY <3>1, <3>4 DEF LoginTyped
  <2>2. ChangeOK'
    BY <1>19 DEF CloseFails
  <2>3. PlacesKept'
    BY <1>19 DEF CloseFails
  <2>4. PublishedTold'
    BY <1>19 DEF CloseFails
  <2> QED
    BY <2>1, <2>2, <2>3, <2>4
<1>20. ASSUME AccountRestarts PROVE AccountInv'
  <2>1. AccountTypeOK'
    <3>1. faults' \in 0..MaxFaults
      BY <1>20 DEF AccountRestarts
    <3>2. login' \in LoginTyped
      BY <1>20 DEF AccountRestarts, LoginTyped
    <3>3. inPlace' \subseteq Credential /\ change' = NoChange /\ UNCHANGED <<auth, backups, spoiled, published>>
      BY <1>20 DEF AccountRestarts
    <3> QED
      BY <3>1, <3>2, <3>3 DEF LoginTyped, ChangeTyped
  <2>2. ChangeOK'
    BY <1>20 DEF AccountRestarts
  <2>3. PlacesKept'
    BY <1>20 DEF AccountRestarts
  <2>4. PublishedTold'
    BY <1>20 DEF AccountRestarts
  <2> QED
    BY <2>1, <2>2, <2>3, <2>4
<1>21. CASE UNCHANGED accountVars
  BY <1>21 DEF accountVars
<1> QED
  BY <1>1, <1>2, <1>3, <1>4, <1>5, <1>6, <1>7, <1>8, <1>9, <1>10, <1>11, <1>12, <1>13, <1>14, <1>15, <1>16, <1>17, <1>18, <1>19, <1>20, <1>21 DEF AccountNext

(* Whatever publications fail, are cut off or repeated, no credential that *)
(* was in place is lost but one that could not be backed up, and a user is *)
(* told that a login signed in, or did not, as its credential was          *)
(* published: for any number of logins and of faults.                      *)
THEOREM AccountThm == AccountSpec => []AccountSound
<1>1. AccountInv => AccountSound
  <2>1. AccountInv => NothingLost
    BY DEF AccountInv, PlacesKept, InTheMiddle, Working, NothingLost
  <2>2. AccountInv => ToldTruly
    BY DEF AccountInv, PublishedTold, ToldTruly, Working, None
  <2> QED
    BY <2>1, <2>2 DEF AccountInv, AccountSound
<1> QED
  BY <1>1, AccountInvInit, AccountInvStep, PTL DEF AccountSpec

-----------------------------------------------------------------------------
(* The typeset layers.  A call is started within the budget and its line   *)
(* written before the next, or lost with a slip; what has still no layer   *)
(* is what an attempt has still to do; and the texts that are final are    *)
(* those of the last document that compiled.                               *)

Noted == {"noteRepair", "noteReview"}
Reviewing == {"review", "noteReview", "collectReview"}
Resting == {"rest", "write"}

CallsBooked ==
    /\ lines \in Nat /\ started \in Nat /\ slips \in Nat
    /\ started <= lines + slips + (IF typesetAt \in Noted THEN 1 ELSE 0)
    /\ CallsWithinCap

RoutesKept ==
    /\ DOMAIN layer = Route /\ route \in Route /\ routesLeft \subseteq Route
    /\ shown # "running" => typesetAt = "rest"
    /\ typesetAt # "rest" => Pending \subseteq routesLeft \cup {route}
    /\ ReadyIsTypeset

Sourced(f) ==
    \/ copied[f] = "recorded"
    \/ f \in quoted /\ copied[f] = "expanded"
    \/ f \notin quoted /\ (copied[f] \in Harmless \/ <<f, copied[f]>> \in equivalent)
Known(f) ==
    /\ status[f] \in Substituted \cup {"verbatim", "failed"}
    /\ status[f] = "verbatim" => copied[f] = "recorded"
Settled(f) == status[f] \in Substituted => <<f, copied[f]>> \in document

TextsKept ==
    /\ \A f \in Formula : Sourced(f)
    /\ typesetAt \notin Resting => \A f \in Formula : Known(f) /\ (f \in final => Settled(f))
    /\ typesetAt \in Reviewing => DOMAIN items \cap (quoted \cup final) = {}
    /\ DeliversChecked

TypesetInv == CallsBooked /\ RoutesKept /\ TextsKept

LEMMA TypesetInvInit == TypesetInit => TypesetInv
BY TypesetAssumption DEF TypesetInit, TypesetInv, CallsBooked, RoutesKept, TextsKept, Noted, Reviewing, Resting, CallsWithinCap,
   ReadyIsTypeset, Sourced, DeliversChecked

(* Where the actions of a call stand.                                      *)
LEMMA CallPlaces ==
  ASSUME NEW call \in Call
  PROVE  /\ AskingFor[call] \in {"repair", "review"}
         /\ Noting[call] \in Noted
         /\ Collecting[call] \in {"collectRepair", "collectReview"}
         /\ call = "Repair" => /\ AskingFor[call] = "repair" /\ Noting[call] = "noteRepair"
                               /\ Collecting[call] = "collectRepair"
         /\ call = "Review" => /\ AskingFor[call] = "review" /\ Noting[call] = "noteReview"
                               /\ Collecting[call] = "collectReview"
         /\ AskingFor[call] = "review" \/ Noting[call] = "noteReview" \/ Collecting[call] = "collectReview" => call = "Review"
BY DEF Call, AskingFor, Noting, Collecting, Noted

LEMMA UnansweredPlaces ==
  ASSUME NEW call \in Call, Unanswered(call)
  PROVE  typesetAt' \in {"round", "finish"}
BY DEF Call, Unanswered, RoundEnds

(* The budget.                                                             *)
LEMMA BookedStays ==
  ASSUME CallsBooked, UNCHANGED <<lines, started, slips>>, typesetAt \notin Noted
  PROVE  CallsBooked'
BY DEF CallsBooked, CallsWithinCap

LEMMA CallsBookedStep ==
  ASSUME CallsBooked, [TypesetNext]_typesetVars
  PROVE  CallsBooked'
<1>0. CallsLeft \in Nat
  BY TypesetAssumption
<1>1. CASE Resumes \/ WorkEnds \/ Restart \/ UNCHANGED typesetVars
  BY <1>1 DEF Resumes, WorkEnds, Restart, typesetVars, journalVars, jobVars, CallsBooked, CallsWithinCap, Collected, Noted
<1>2. CASE GivesUp
  BY <1>2, BookedStays DEF GivesUp, journalVars, Noted
<1>3. CASE Crash
  BY <1>0, <1>3 DEF Crash, CallsBooked, CallsWithinCap, Noted
<1>4. CASE RoundBegins \/ DropsFormulas \/ CompilerFails \/ DocumentCompiles \/ CorrectionsArrive \/ VerdictsArrive \/ Finishes \/ LayerWritten
  <2>1. typesetAt \notin Noted /\ UNCHANGED <<lines, started, slips>>
    BY <1>4 DEF RoundBegins, DropsFormulas, CompilerFails, DocumentCompiles, CorrectionsArrive, VerdictsArrive, Finishes, LayerWritten, journalVars, Noted
  <2> QED
    BY <2>1, BookedStays
<1>5. ASSUME NEW call \in Call, TypesetCallStarts(call) PROVE CallsBooked'
  <2>1. lines + slips < CallsLeft + slips /\ typesetAt \notin Noted
    BY <1>0, <1>5, CallPlaces DEF TypesetCallStarts, MayAsk, Available, Used, CallsBooked, Noted
  <2>2. typesetAt' \in Noted /\ started' = started + 1 /\ UNCHANGED <<lines, slips>>
    BY <1>5, CallPlaces DEF TypesetCallStarts
  <2> QED
    BY <1>0, <2>1, <2>2 DEF CallsBooked, CallsWithinCap
<1>6. ASSUME NEW call \in Call, CallRefused(call) PROVE CallsBooked'
  <2>1. typesetAt \notin Noted /\ typesetAt' \notin Noted /\ lines' = lines
    BY <1>6, CallPlaces, UnansweredPlaces DEF CallRefused, Noted
  <2>2. UNCHANGED <<started, slips>> \/ (started' = started + 1 /\ slips' = slips + 1)
    BY <1>6 DEF CallRefused
  <2> QED
    BY <1>0, <2>1, <2>2 DEF CallsBooked, CallsWithinCap
<1>7. ASSUME NEW call \in Call, CallNoted(call) PROVE CallsBooked'
  <2>1. typesetAt \in Noted /\ typesetAt' \notin Noted /\ lines' = lines + 1 /\ UNCHANGED <<started, slips>>
    BY <1>7, CallPlaces DEF CallNoted, Noted
  <2> QED
    BY <1>0, <2>1 DEF CallsBooked, CallsWithinCap
<1>8. ASSUME NEW call \in Call, CallNotNoted(call) PROVE CallsBooked'
  <2>1. typesetAt \in Noted /\ typesetAt' \notin Noted /\ slips' = slips + 1 /\ UNCHANGED <<started, lines>>
    BY <1>8, CallPlaces DEF CallNotNoted, Noted
  <2> QED
    BY <1>0, <2>1 DEF CallsBooked, CallsWithinCap
<1>9. ASSUME NEW call \in Call, CallFails(call) PROVE CallsBooked'
  <2>1. typesetAt \notin Noted /\ UNCHANGED <<lines, started, slips>>
    BY <1>9, CallPlaces DEF CallFails, journalVars, Noted
  <2> QED
    BY <2>1, BookedStays
<1> QED
  BY <1>1, <1>2, <1>3, <1>4, <1>5, <1>6, <1>7, <1>8, <1>9 DEF TypesetNext

(* The routes.                                                             *)
LEMMA RoutesStay ==
  ASSUME RoutesKept, UNCHANGED <<version, layer, shown, gaveUp, route, routesLeft>>, typesetAt # "rest", shown = "running"
  PROVE  RoutesKept'
BY DEF RoutesKept, ReadyIsTypeset, Pending, Verified

LEMMA RoutesKeptStep ==
  ASSUME RoutesKept, [TypesetNext]_typesetVars
  PROVE  RoutesKept'
<1>1. CASE Resumes
  BY <1>1 DEF Resumes, RoutesKept, jobVars, ReadyIsTypeset
<1>2. CASE WorkEnds
  <2>0. Pending' = Pending /\ UNCHANGED <<layer, gaveUp>>
    BY <1>2 DEF WorkEnds, layerVars, Pending, Verified
  <2>1. CASE Pending = {}
    BY <1>2, <2>0, <2>1 DEF WorkEnds, RoutesKept, jobVars, ReadyIsTypeset
  <2>2. CASE Pending # {}
    <3>1. PICK r \in Pending : Collected(r, Pending \ {r})
      BY <1>2, <2>2 DEF WorkEnds
    <3>2. route' = r /\ routesLeft' = Pending \ {r} /\ typesetAt' = "round" /\ shown' = "running" /\ Pending \subseteq Route
      BY <1>2, <2>2, <3>1 DEF WorkEnds, Collected, Pending
    <3> QED
      BY <2>0, <3>2 DEF RoutesKept, ReadyIsTypeset
  <2> QED
    BY <2>1, <2>2
<1>3. CASE GivesUp \/ Crash \/ Restart
  <2>1. Pending' = Pending /\ UNCHANGED <<layer, route, routesLeft>>
    BY <1>3 DEF GivesUp, Crash, Restart, layerVars, jobVars, Pending, Verified
  <2> QED
    BY <1>3, <2>1 DEF GivesUp, Crash, Restart, RoutesKept, ReadyIsTypeset, jobVars
<1>4. CASE LayerWritten
  <2>0. /\ typesetAt = "write" /\ UNCHANGED <<version, gaveUp>> /\ shown = "running"
        /\ layer' = [layer EXCEPT ![route] = [version |-> version[route]]]
    BY <1>4 DEF LayerWritten, RoutesKept
  <2>1. DOMAIN layer' = Route /\ Pending' \subseteq routesLeft
    BY <2>0 DEF RoutesKept, Pending, Verified
  <2>2. CASE routesLeft = {}
    BY <1>4, <2>0, <2>1, <2>2 DEF LayerWritten, RoutesKept, ReadyIsTypeset
  <2>3. CASE routesLeft # {}
    <3>1. PICK r \in routesLeft : Collected(r, routesLeft \ {r}) /\ shown' = shown
      BY <1>4, <2>3 DEF LayerWritten
    <3>2. route' = r /\ routesLeft' = routesLeft \ {r} /\ typesetAt' = "round"
      BY <3>1 DEF Collected
    <3> QED
      BY <2>0, <2>1, <3>1, <3>2 DEF RoutesKept, ReadyIsTypeset
  <2> QED
    BY <2>2, <2>3
<1>5. CASE UNCHANGED typesetVars
  BY <1>5 DEF typesetVars, layerVars, runVars, jobVars, RoutesKept, ReadyIsTypeset, Pending, Verified
<1>6. CASE RoundBegins \/ DropsFormulas \/ CompilerFails \/ DocumentCompiles \/ CorrectionsArrive \/ VerdictsArrive \/ Finishes
  <2>1. typesetAt # "rest" /\ UNCHANGED <<version, layer, shown, gaveUp, route, routesLeft>>
    BY <1>6 DEF RoundBegins, DropsFormulas, CompilerFails, DocumentCompiles, CorrectionsArrive, VerdictsArrive, Finishes, layerVars, runVars, jobVars
  <2> QED
    BY <2>1, RoutesStay DEF RoutesKept
<1>7. ASSUME NEW call \in Call,
             \/ TypesetCallStarts(call) \/ CallRefused(call) \/ CallNoted(call) \/ CallNotNoted(call) \/ CallFails(call)
      PROVE  RoutesKept'
  <2>1. typesetAt # "rest" /\ UNCHANGED <<version, layer, shown, gaveUp, route, routesLeft>>
    BY <1>7, CallPlaces DEF TypesetCallStarts, CallRefused, CallNoted, CallNotNoted, CallFails, layerVars, runVars, Noted
  <2> QED
    BY <2>1, RoutesStay DEF RoutesKept
<1> QED
  BY <1>1, <1>2, <1>3, <1>4, <1>5, <1>6, <1>7 DEF TypesetNext

(* The texts.                                                              *)
LEMMA TextsStay ==
  ASSUME TextsKept, UNCHANGED <<copied, status, final, document, equivalent, quoted>>,
         \/ typesetAt' = "rest"
         \/ typesetAt \notin Resting /\ typesetAt' # "write"
         \/ UNCHANGED <<typesetAt, items>>,
         typesetAt' \in Reviewing => typesetAt \in Reviewing /\ items' = items
  PROVE  TextsKept'
BY DEF TextsKept, Sourced, Known, Settled, DeliversChecked, Resting, Reviewing

LEMMA TextsCollected ==
  ASSUME NEW r, NEW rest, Collected(r, rest)
  PROVE  TextsKept'
BY DEF Collected, TextsKept, Sourced, Known, Substituted, DeliversChecked, Reviewing

LEMMA TextsRefused ==
  ASSUME TextsKept, NEW call \in Call, Unanswered(call), typesetAt \notin Resting,
         call = "Review" => typesetAt \in Reviewing, quoted' = quoted
  PROVE  TextsKept'
<1>0. typesetAt' \in {"round", "finish"}
  BY UnansweredPlaces
<1>1. CASE call = "Repair"
  BY <1>0, <1>1, TextsStay DEF Unanswered, formulaVars, Reviewing
<1>2. CASE call = "Review"
  <2>1. Refused(DOMAIN items) /\ UNCHANGED <<copied, document, equivalent, items>>
    BY <1>2 DEF Unanswered
  <2>2. \A f \in Formula : Sourced(f)'
    BY <2>1 DEF TextsKept, Sourced
  <2>3. ASSUME NEW f \in Formula PROVE Known(f)' /\ (f \in final' => Settled(f)')
    <3>1. CASE f \in DOMAIN items
      BY <2>1, <2>3, <3>1 DEF Refused, Known, Settled, Substituted
    <3>2. CASE f \notin DOMAIN items
      BY <2>1, <2>3, <3>2 DEF Refused, Known, Settled, TextsKept
    <3> QED
      BY <3>1, <3>2
  <2> QED
    BY <1>0, <2>2, <2>3 DEF TextsKept, DeliversChecked, Reviewing
<1> QED
  BY <1>1, <1>2 DEF Call

LEMMA TextsKeptStep ==
  ASSUME TextsKept, [TypesetNext]_typesetVars
  PROVE  TextsKept'
<1>1. CASE Resumes \/ Restart \/ DropsFormulas \/ UNCHANGED typesetVars
  BY <1>1, TextsStay DEF Resumes, Restart, DropsFormulas, typesetVars, formulaVars, roundVars, jobVars, Resting, Reviewing
<1>2. CASE WorkEnds
  <2>1. CASE Pending = {}
    BY <1>2, <2>1, TextsStay DEF WorkEnds, formulaVars, roundVars, jobVars
  <2>2. CASE Pending # {}
    BY <1>2, <2>2, TextsCollected DEF WorkEnds
  <2> QED
    BY <2>1, <2>2
<1>3. CASE GivesUp \/ Crash \/ RoundBegins \/ CompilerFails
  BY <1>3, TextsStay DEF GivesUp, Crash, RoundBegins, CompilerFails, formulaVars, roundVars, Resting, Reviewing
<1>4. CASE DocumentCompiles
  <2> DEFINE accepted == compiling
             failed == Compiled \ compiling
  <2>1. /\ typesetAt' \in {"finish", "repair"} /\ Judged(compiling) /\ UNCHANGED <<quoted, equivalent>>
        /\ typesetAt \notin Resting
    BY <1>4 DEF DocumentCompiles, Resting
  <2>2. \A f \in Formula : copied'[f] \in {copied[f], "recorded"}
    BY <2>1 DEF Judged
  <2>3. \A f \in Formula : Sourced(f)'
    BY <2>1, <2>2 DEF TextsKept, Sourced
  <2>4. ASSUME NEW f \in Formula PROVE Known(f)' /\ (f \in final' => Settled(f)')
    <3>0. Known(f)
      BY <2>1 DEF TextsKept
    <3>1. CASE f \in failed
      <4>1. copied'[f] = "recorded" /\ status'[f] = IF f \in quoted THEN "verbatim" ELSE "ok"
        BY <2>1, <3>1 DEF Judged
      <4>2. f \in final' => status'[f] = "verbatim"
        BY <2>1, <3>1, <4>1 DEF Judged
      <4> QED
        BY <4>1, <4>2 DEF Known, Settled, Substituted
    <3>2. CASE f \notin failed
      <4>1. copied'[f] = copied[f] /\ status'[f] = status[f]
        BY <2>1, <3>2 DEF Judged
      <4>2. CASE f \in compiling
        <5>1. <<f, copied[f]>> \in document'
          BY <2>1, <4>2 DEF Judged
        <5> QED
          BY <3>0, <4>1, <5>1 DEF Known, Settled
      <4>3. CASE f \notin compiling
        BY <3>0, <3>2, <4>1, <4>3 DEF Known, Settled, Compiled, Substituted
      <4> QED
        BY <4>2, <4>3
    <3> QED
      BY <3>1, <3>2
  <2> QED
    BY <2>1, <2>3, <2>4 DEF TextsKept, DeliversChecked, Reviewing
<1>5. ASSUME NEW call \in Call, TypesetCallStarts(call) \/ CallNoted(call) \/ CallNotNoted(call) PROVE TextsKept'
  <2>1. UNCHANGED <<copied, status, final, document, equivalent, quoted, items>>
    BY <1>5 DEF TypesetCallStarts, CallNoted, CallNotNoted, formulaVars, roundVars
  <2>2. typesetAt \notin Resting /\ typesetAt' # "write"
    BY <1>5, CallPlaces DEF TypesetCallStarts, CallNoted, CallNotNoted, Noted, Resting
  <2>3. typesetAt' \in Reviewing => typesetAt \in Reviewing
    <3>1. CASE call = "Review"
      BY <1>5, <3>1, CallPlaces DEF TypesetCallStarts, CallNoted, CallNotNoted, Reviewing
    <3>2. CASE call = "Repair"
      BY <1>5, <3>2, CallPlaces DEF TypesetCallStarts, CallNoted, CallNotNoted, Reviewing
    <3> QED
      BY <3>1, <3>2 DEF Call
  <2> QED
    BY <2>1, <2>2, <2>3, TextsStay
<1>6. ASSUME NEW call \in Call, CallRefused(call) \/ CallFails(call) PROVE TextsKept'
  <2>1. /\ typesetAt \in {AskingFor[call], Collecting[call]} /\ Unanswered(call) /\ quoted' = quoted
    BY <1>6 DEF CallRefused, CallFails
  <2>2. typesetAt \notin Resting /\ (call = "Review" => typesetAt \in Reviewing)
    BY <2>1, CallPlaces DEF Resting, Reviewing
  <2> QED
    BY <2>1, <2>2, TextsRefused
<1>7. CASE CorrectionsArrive
  <2>1. PICK fs \in SUBSET Targets : \E answer \in [fs -> Correction] :
          LET usable == {f \in fs : Usable(f, answer[f])}
              taken == {f \in usable : answer[f] \in Harmless}
          IN /\ copied' = [f \in Formula |-> IF f \in taken THEN answer[f] ELSE copied[f]]
             /\ status' = [f \in Formula |-> IF f \in taken THEN "repaired" ELSE status[f]]
             /\ items' = [f \in usable \ taken |-> answer[f]]
             /\ changed' = (taken # {})
             /\ IF usable = taken THEN RoundEnds(taken # {})
                ELSE typesetAt' = "review" /\ UNCHANGED repairRound
    BY <1>7 DEF CorrectionsArrive
  <2>2. PICK answer \in [fs -> Correction], taken \in SUBSET fs :
          /\ \A f \in taken : answer[f] \in Harmless
          /\ copied' = [f \in Formula |-> IF f \in taken THEN answer[f] ELSE copied[f]]
          /\ status' = [f \in Formula |-> IF f \in taken THEN "repaired" ELSE status[f]]
          /\ DOMAIN items' \subseteq fs
          /\ typesetAt' \in {"round", "finish", "review"}
    BY <2>1 DEF RoundEnds
  <2>3. /\ UNCHANGED <<final, document, equivalent, quoted>> /\ typesetAt \notin Resting
        /\ fs \cap (quoted \cup final) = {}
    BY <1>7 DEF CorrectionsArrive, Resting, Targets
  <2>4. ASSUME NEW f \in Formula PROVE Sourced(f)'
    BY <2>2, <2>3 DEF TextsKept, Sourced
  <2>5. ASSUME NEW f \in Formula PROVE Known(f)' /\ (f \in final => Settled(f)')
    <3>0. Known(f)
      BY <2>3 DEF TextsKept
    <3>1. CASE f \in taken
      BY <2>2, <2>3, <3>1 DEF Known, Substituted
    <3>2. CASE f \notin taken
      BY <2>2, <2>3, <3>0, <3>2 DEF TextsKept, Known, Settled
    <3> QED
      BY <3>1, <3>2
  <2> QED
    BY <2>2, <2>3, <2>4, <2>5 DEF TextsKept, DeliversChecked, Reviewing
<1>8. CASE VerdictsArrive
  <2>1. PICK same \in SUBSET DOMAIN items :
          /\ copied' = [f \in Formula |-> IF f \in same THEN items[f] ELSE copied[f]]
          /\ status' = [f \in Formula |-> IF f \in same THEN "reviewed"
                                          ELSE IF f \in DOMAIN items THEN "failed" ELSE status[f]]
          /\ final' = final \cup (DOMAIN items \ same)
          /\ equivalent' = equivalent \cup {<<f, items[f]>> : f \in same}
          /\ typesetAt' \in {"round", "finish"}
    BY <1>8 DEF VerdictsArrive, RoundEnds
  <2>2. /\ UNCHANGED <<document, quoted>> /\ typesetAt \notin Resting
        /\ DOMAIN items \cap (quoted \cup final) = {}
    BY <1>8 DEF VerdictsArrive, Resting, TextsKept, Reviewing
  <2>3. ASSUME NEW f \in Formula PROVE Sourced(f)'
    BY <2>1, <2>2 DEF TextsKept, Sourced
  <2>4. ASSUME NEW f \in Formula PROVE Known(f)' /\ (f \in final' => Settled(f)')
    <3>1. CASE f \in DOMAIN items
      BY <2>1, <2>2, <2>4, <3>1 DEF Known, Settled, Substituted
    <3>2. CASE f \notin DOMAIN items
      BY <2>1, <2>2, <2>4, <3>2 DEF TextsKept, Known, Settled
    <3> QED
      BY <3>1, <3>2
  <2> QED
    BY <2>1, <2>3, <2>4 DEF TextsKept, DeliversChecked, Reviewing
<1>9. CASE Finishes
  <2> DEFINE verified == {f \in final : status[f] # "failed"}
  <2>1. /\ typesetAt = "finish" /\ typesetAt' = "write" /\ UNCHANGED <<document, equivalent, quoted, items>>
        /\ copied' = [f \in Formula |-> IF f \in verified THEN copied[f] ELSE "recorded"]
        /\ \A f \in Formula : status'[f] = IF f \in verified THEN status[f] ELSE status'[f]
        /\ \A f \in Formula : f \notin verified => status'[f] \in {"not_compiled", "failed"}
    BY <1>9 DEF Finishes, roundVars
  <2>2. \A f \in Formula : Sourced(f)'
    BY <2>1 DEF TextsKept, Sourced
  <2>3. \A f \in Formula \cap verified : Known(f) /\ Settled(f) /\ status[f] # "failed"
    BY <2>1 DEF TextsKept, Resting
  <2>4. DeliversChecked'
    <3> SUFFICES ASSUME NEW f \in Formula
                 PROVE  /\ status'[f] \in Substituted => <<f, copied'[f]>> \in document'
                        /\ status'[f] \notin Substituted => copied'[f] = "recorded"
      BY <2>2 DEF DeliversChecked, Sourced
    <3>1. CASE f \in verified
      BY <2>1, <2>3, <3>1 DEF Known, Settled
    <3>2. CASE f \notin verified
      BY <2>1, <3>2 DEF Substituted
    <3> QED
      BY <3>1, <3>2
  <2> QED
    BY <2>1, <2>2, <2>4 DEF TextsKept, Resting, Reviewing
<1>10. CASE LayerWritten
  <2>1. CASE routesLeft = {}
    BY <1>10, <2>1, TextsStay DEF LayerWritten, formulaVars, roundVars, Reviewing
  <2>2. CASE routesLeft # {}
    BY <1>10, <2>2, TextsCollected DEF LayerWritten
  <2> QED
    BY <2>1, <2>2
<1> QED
  BY <1>1, <1>2, <1>3, <1>4, <1>5, <1>6, <1>7, <1>8, <1>9, <1>10 DEF TypesetNext

(* What the variables hold.  A round that asks is not the last one.        *)
Text == {"recorded", "expanded"} \cup Correction
Judgement == Substituted \cup {"verbatim", "failed", "not_compiled"}
Inquiring == Noted \cup Reviewing \cup {"repair", "collectRepair"}

FormulaTypes ==
    /\ copied \in [Formula -> Text] /\ failing \in [Formula -> Text]
    /\ status \in [Formula -> Judgement] /\ final \subseteq Formula
RoundTypes ==
    /\ repairRound \in 0..MaxRepairRounds /\ (typesetAt \in Inquiring => repairRound # MaxRepairRounds)
    /\ compiling \subseteq Formula
    /\ DOMAIN items \subseteq Formula /\ \A f \in DOMAIN items : items[f] \in Correction
    /\ typesetAt \in Reviewing => items # NoCorrection
RouteTypes ==
    /\ version \in [Route -> 1..MaxVersion] /\ layer \in [Route -> [version : 0..MaxVersion]]
    /\ route \in Route /\ routesLeft \subseteq Route \ {route}
    /\ typesetAt \in Place
JournalTypes ==
    /\ lines \in Nat /\ tornLine \in BOOLEAN /\ started \in Nat /\ slips \in 0..MaxSlips
    /\ shown \in {"running", "ready", "down"} /\ gaveUp \in BOOLEAN

LEMMA TypesetTypesInit == TypesetInit => FormulaTypes /\ RoundTypes /\ RouteTypes /\ JournalTypes
<1> SUFFICES ASSUME TypesetInit PROVE FormulaTypes /\ RoundTypes /\ RouteTypes /\ JournalTypes
  OBVIOUS
<1>1. FormulaTypes
  BY DEF TypesetInit, FormulaTypes, Text, Judgement, Substituted
<1>2. RoundTypes
  BY TypesetAssumption DEF TypesetInit, RoundTypes, Inquiring, Noted, Reviewing, NoCorrection
<1>3. RouteTypes
  <2>1. NoLayer \in [version : 0..MaxVersion]
    BY TypesetAssumption DEF NoLayer
  <2> QED
    BY <2>1, TypesetAssumption DEF TypesetInit, RouteTypes, Place
<1>4. JournalTypes
  <2>1. lines \in Nat /\ started \in Nat /\ slips \in 0..MaxSlips /\ shown = "running"
    BY TypesetAssumption DEF TypesetInit
  <2>2. tornLine \in BOOLEAN /\ gaveUp \in BOOLEAN
    BY Zenon DEF TypesetInit
  <2> QED
    BY <2>1, <2>2 DEF JournalTypes
<1> QED
  BY <1>1, <1>2, <1>3, <1>4

LEMMA JournalTypesStep ==
  ASSUME JournalTypes, [TypesetNext]_typesetVars
  PROVE  JournalTypes'
<1> USE TypesetAssumption DEF JournalTypes
<1>1. CASE Resumes BY <1>1 DEF Resumes, journalVars
<1>2. CASE WorkEnds BY <1>2 DEF WorkEnds, journalVars
<1>3. CASE GivesUp BY <1>3 DEF GivesUp, journalVars
<1>4. CASE Crash
  <2>1. slips' \in 0..MaxSlips /\ shown' = "down" /\ UNCHANGED <<lines, started>> BY <1>4 DEF Crash
  <2>2. tornLine' \in BOOLEAN /\ gaveUp' \in BOOLEAN BY <1>4 DEF Crash
  <2> QED BY <2>1, <2>2
<1>5. CASE Restart BY <1>5 DEF Restart, journalVars
<1>6. CASE RoundBegins \/ DropsFormulas \/ CompilerFails \/ DocumentCompiles \/ CorrectionsArrive \/ VerdictsArrive \/ Finishes
  BY <1>6 DEF RoundBegins, DropsFormulas, CompilerFails, DocumentCompiles, CorrectionsArrive, VerdictsArrive, Finishes,
     journalVars, runVars
<1>7. CASE LayerWritten BY <1>7 DEF LayerWritten, journalVars
<1>8. ASSUME NEW call \in Call, TypesetCallStarts(call) PROVE JournalTypes' BY <1>8 DEF TypesetCallStarts, runVars
<1>9. ASSUME NEW call \in Call, CallRefused(call) PROVE JournalTypes' BY <1>9 DEF CallRefused, runVars
<1>10. ASSUME NEW call \in Call, CallNoted(call) PROVE JournalTypes'
  <2>1. lines' \in Nat /\ UNCHANGED <<started, slips, shown, gaveUp>> BY <1>10 DEF CallNoted, runVars
  <2>2. tornLine' \in BOOLEAN BY <1>10 DEF CallNoted
  <2> QED BY <2>1, <2>2
<1>11. ASSUME NEW call \in Call, CallNotNoted(call) PROVE JournalTypes'
  <2>1. slips' \in 0..MaxSlips /\ UNCHANGED <<lines, started, shown, gaveUp>> BY <1>11 DEF CallNotNoted, runVars
  <2>2. tornLine' \in BOOLEAN BY <1>11 DEF CallNotNoted
  <2> QED BY <2>1, <2>2
<1>12. ASSUME NEW call \in Call, CallFails(call) PROVE JournalTypes' BY <1>12 DEF CallFails, journalVars, runVars
<1>13. CASE UNCHANGED typesetVars BY <1>13 DEF typesetVars, journalVars, runVars
<1> QED
  BY <1>1, <1>2, <1>3, <1>4, <1>5, <1>6, <1>7, <1>8, <1>9, <1>10, <1>11, <1>12, <1>13 DEF TypesetNext

(* A route is collected.                                                   *)
LEMMA CollectedTypes ==
  ASSUME NEW r \in Route, NEW rest \in SUBSET (Route \ {r}), Collected(r, rest), RoundTypes,
         version \in [Route -> 1..MaxVersion], UNCHANGED version, layer' \in [Route -> [version : 0..MaxVersion]]
  PROVE  FormulaTypes' /\ RoundTypes' /\ RouteTypes'
<1>1. FormulaTypes'
  BY DEF Collected, FormulaTypes, Text, Judgement, Substituted
<1>2. RoundTypes'
  BY TypesetAssumption DEF Collected, RoundTypes, Inquiring, Noted, Reviewing, NoCorrection
<1>3. RouteTypes'
  BY DEF Collected, RouteTypes, Place
<1> QED
  BY <1>1, <1>2, <1>3

(* A round ends.                                                           *)
LEMMA RoundEndsTypes ==
  ASSUME NEW accepted, RoundEnds(accepted), RoundTypes, typesetAt \in Inquiring
  PROVE  repairRound' \in 0..MaxRepairRounds /\ typesetAt' \in {"round", "finish"}
BY TypesetAssumption DEF RoundEnds, RoundTypes

LEMMA UnansweredTypes ==
  ASSUME FormulaTypes, RoundTypes, NEW call \in Call, Unanswered(call), typesetAt \in {AskingFor[call], Collecting[call]}
  PROVE  FormulaTypes' /\ RoundTypes' /\ typesetAt' \in {"round", "finish"}
<1>1. typesetAt \in Inquiring
  BY CallPlaces DEF Inquiring, Reviewing, Call, AskingFor, Collecting
<1>2. CASE call = "Repair"
  BY <1>2 DEF Unanswered, FormulaTypes, RoundTypes, Inquiring, Noted, Reviewing, formulaVars
<1>3. CASE call # "Repair"
  <2>1. Refused(DOMAIN items) /\ RoundEnds(changed) /\ UNCHANGED <<copied, failing, compiling, items>>
    BY <1>3 DEF Unanswered
  <2>2. repairRound' \in 0..MaxRepairRounds /\ typesetAt' \in {"round", "finish"}
    BY <1>1, <2>1, RoundEndsTypes
  <2>3. FormulaTypes'
    BY <2>1 DEF Refused, FormulaTypes, RoundTypes, Judgement
  <2>4. RoundTypes'
    BY <2>1, <2>2 DEF RoundTypes, Inquiring, Noted, Reviewing
  <2> QED
    BY <2>2, <2>3, <2>4
<1> QED
  BY <1>2, <1>3

LEMMA TypesetTypesStep ==
  ASSUME FormulaTypes, RoundTypes, RouteTypes, [TypesetNext]_typesetVars
  PROVE  FormulaTypes' /\ RoundTypes' /\ RouteTypes'
<1>1. CASE Resumes
  <2>1. UNCHANGED <<layer, formulaVars, roundVars, jobVars>> /\ version' \in [Route -> 1..MaxVersion]
    BY <1>1, TypesetAssumption DEF Resumes, RouteTypes
  <2> QED
    BY <2>1 DEF FormulaTypes, RoundTypes, RouteTypes, formulaVars, roundVars, jobVars
<1>2. CASE WorkEnds
  <2>1. CASE Pending = {}
    BY <1>2, <2>1 DEF WorkEnds, FormulaTypes, RoundTypes, RouteTypes, formulaVars, roundVars, jobVars, layerVars
  <2>2. CASE Pending # {}
    <3>1. PICK r \in Pending : Collected(r, Pending \ {r})
      BY <1>2, <2>2 DEF WorkEnds
    <3>2. UNCHANGED <<version, layer>> /\ Pending \subseteq Route
      BY <1>2 DEF WorkEnds, layerVars, Pending
    <3> QED
      BY <3>1, <3>2, CollectedTypes DEF RouteTypes
  <2> QED
    BY <2>1, <2>2
<1>3. CASE GivesUp \/ Crash
  <2>1. typesetAt' = "rest" /\ UNCHANGED <<layerVars, route, routesLeft, quoted, formulaVars, roundVars>>
    BY <1>3 DEF GivesUp, Crash
  <2> QED
    BY <2>1 DEF FormulaTypes, RoundTypes, RouteTypes, formulaVars, roundVars, layerVars, Place, Inquiring, Noted, Reviewing
<1>4. CASE Restart \/ UNCHANGED typesetVars
  BY <1>4 DEF Restart, typesetVars, FormulaTypes, RoundTypes, RouteTypes, formulaVars, roundVars, jobVars, layerVars
<1>5. CASE RoundBegins
  BY <1>5 DEF RoundBegins, FormulaTypes, RoundTypes, RouteTypes, formulaVars, layerVars, Compiled, NoCorrection, Place,
     Inquiring, Noted, Reviewing
<1>6. CASE DropsFormulas
  BY <1>6 DEF DropsFormulas, FormulaTypes, RoundTypes, RouteTypes, formulaVars, layerVars, jobVars, Inquiring, Noted, Reviewing
<1>7. CASE CompilerFails
  BY <1>7 DEF CompilerFails, FormulaTypes, RoundTypes, RouteTypes, formulaVars, layerVars, Inquiring, Noted, Reviewing, Place
<1>8. CASE DocumentCompiles
  <2>1. FormulaTypes'
    BY <1>8 DEF DocumentCompiles, Judged, Compiled, FormulaTypes, RoundTypes, Text, Judgement, Substituted
  <2>2. RoundTypes'
    BY <1>8 DEF DocumentCompiles, RoundTypes, Inquiring, Noted, Reviewing
  <2>3. RouteTypes'
    BY <1>8 DEF DocumentCompiles, RouteTypes, layerVars, Place
  <2> QED
    BY <2>1, <2>2, <2>3
<1>9. ASSUME NEW call \in Call, TypesetCallStarts(call) \/ CallNoted(call) \/ CallNotNoted(call)
      PROVE  FormulaTypes' /\ RoundTypes' /\ RouteTypes'
  <2>1. /\ UNCHANGED <<layerVars, formulaVars, roundVars, route, routesLeft>>
        /\ typesetAt \in Inquiring /\ typesetAt' \in Inquiring /\ (typesetAt' \in Reviewing => typesetAt \in Reviewing)
    BY <1>9, CallPlaces DEF TypesetCallStarts, CallNoted, CallNotNoted, Inquiring, Noted, Reviewing, Call, AskingFor, Noting,
       Collecting
  <2>2. Inquiring \subseteq Place
    BY DEF Inquiring, Noted, Reviewing, Place
  <2> QED
    BY <2>1, <2>2 DEF FormulaTypes, RoundTypes, RouteTypes, formulaVars, roundVars, layerVars
<1>10. ASSUME NEW call \in Call, CallRefused(call) \/ CallFails(call) PROVE FormulaTypes' /\ RoundTypes' /\ RouteTypes'
  <2>1. UNCHANGED <<layerVars, route, routesLeft>> /\ Unanswered(call) /\ typesetAt \in {AskingFor[call], Collecting[call]}
    BY <1>10 DEF CallRefused, CallFails
  <2>2. FormulaTypes' /\ RoundTypes' /\ typesetAt' \in {"round", "finish"}
    BY <2>1, UnansweredTypes
  <2> QED
    BY <2>1, <2>2 DEF RouteTypes, layerVars, Place
<1>11. CASE CorrectionsArrive
  <2>1. PICK fs \in SUBSET Targets : \E answer \in [fs -> Correction] :
          LET usable == {f \in fs : Usable(f, answer[f])}
              taken == {f \in usable : answer[f] \in Harmless}
          IN /\ copied' = [f \in Formula |-> IF f \in taken THEN answer[f] ELSE copied[f]]
             /\ status' = [f \in Formula |-> IF f \in taken THEN "repaired" ELSE status[f]]
             /\ items' = [f \in usable \ taken |-> answer[f]]
             /\ changed' = (taken # {})
             /\ IF usable = taken THEN RoundEnds(taken # {})
                ELSE typesetAt' = "review" /\ UNCHANGED repairRound
    BY <1>11, Zenon DEF CorrectionsArrive
  <2>a. PICK answer \in [fs -> Correction] :
          LET usable == {f \in fs : Usable(f, answer[f])}
              taken == {f \in usable : answer[f] \in Harmless}
          IN /\ copied' = [f \in Formula |-> IF f \in taken THEN answer[f] ELSE copied[f]]
             /\ status' = [f \in Formula |-> IF f \in taken THEN "repaired" ELSE status[f]]
             /\ items' = [f \in usable \ taken |-> answer[f]]
             /\ changed' = (taken # {})
             /\ IF usable = taken THEN RoundEnds(taken # {})
                ELSE typesetAt' = "review" /\ UNCHANGED repairRound
    BY <2>1, Zenon
  <2> DEFINE usable == {f \in fs : Usable(f, answer[f])}
             taken == {f \in usable : answer[f] \in Harmless}
  <2>2. taken \subseteq usable /\ usable \subseteq fs /\ fs \subseteq Formula
    BY DEF Targets
  <2>3. /\ copied' = [f \in Formula |-> IF f \in taken THEN answer[f] ELSE copied[f]]
        /\ status' = [f \in Formula |-> IF f \in taken THEN "repaired" ELSE status[f]]
        /\ items' = [f \in usable \ taken |-> answer[f]]
        /\ IF usable = taken THEN RoundEnds(taken # {}) ELSE typesetAt' = "review" /\ UNCHANGED repairRound
    BY <2>a, Zenon
  <2>4. UNCHANGED <<final, failing, compiling, layerVars, route, routesLeft>> /\ typesetAt = "collectRepair"
    BY <1>11 DEF CorrectionsArrive
  <2> HIDE DEF usable, taken
  <2>5. FormulaTypes'
    BY <2>2, <2>3, <2>4 DEF FormulaTypes, Text, Judgement, Substituted
  <2>6. typesetAt \in Inquiring
    BY <2>4 DEF Inquiring
  <2>7. /\ repairRound' \in 0..MaxRepairRounds /\ typesetAt' \in {"round", "finish", "review"}
        /\ typesetAt' = "review" => usable # taken /\ repairRound' = repairRound
    <3>1. CASE usable = taken
      BY <2>3, <2>6, <3>1, RoundEndsTypes
    <3>2. CASE usable # taken
      BY <2>3, <3>2 DEF RoundTypes
    <3> QED
      BY <3>1, <3>2
  <2>8. DOMAIN items' = usable \ taken /\ \A f \in usable \ taken : items'[f] \in Correction
    BY <2>2, <2>3
  <2>9. usable # taken => items' # NoCorrection
    BY <2>2, <2>8 DEF NoCorrection
  <2>10. RoundTypes'
    BY <2>2, <2>4, <2>6, <2>7, <2>8, <2>9 DEF RoundTypes, Inquiring, Noted, Reviewing
  <2>11. RouteTypes'
    BY <2>4, <2>7 DEF RouteTypes, layerVars, Place
  <2> QED
    BY <2>5, <2>10, <2>11
<1>12. CASE VerdictsArrive
  <2>1. PICK same \in SUBSET DOMAIN items :
          /\ copied' = [f \in Formula |-> IF f \in same THEN items[f] ELSE copied[f]]
          /\ status' = [f \in Formula |-> IF f \in same THEN "reviewed"
                                          ELSE IF f \in DOMAIN items THEN "failed" ELSE status[f]]
          /\ final' = final \cup (DOMAIN items \ same)
          /\ RoundEnds(changed \/ same # {})
    BY <1>12 DEF VerdictsArrive
  <2>2. UNCHANGED <<failing, compiling, items, layerVars, route, routesLeft>> /\ typesetAt = "collectReview"
    BY <1>12 DEF VerdictsArrive
  <2>3. FormulaTypes'
    BY <2>1, <2>2 DEF FormulaTypes, RoundTypes, Text, Judgement, Substituted
  <2>4. repairRound' \in 0..MaxRepairRounds /\ typesetAt' \in {"round", "finish"}
    BY <2>1, <2>2, RoundEndsTypes DEF Inquiring, Reviewing
  <2>5. RoundTypes' /\ RouteTypes'
    BY <2>2, <2>4 DEF RoundTypes, RouteTypes, layerVars, Place, Inquiring, Noted, Reviewing
  <2> QED
    BY <2>3, <2>5
<1>13. CASE Finishes
  <2>1. typesetAt' = "write" /\ UNCHANGED <<layerVars, final, failing, roundVars, route, routesLeft>>
    BY <1>13 DEF Finishes
  <2>2. FormulaTypes'
    BY <1>13 DEF Finishes, FormulaTypes, Text, Judgement
  <2> QED
    BY <2>1, <2>2 DEF RoundTypes, RouteTypes, layerVars, roundVars, Place, Inquiring, Noted, Reviewing
<1>14. CASE LayerWritten
  <2>1. layer' = [layer EXCEPT ![route] = [version |-> version[route]]] /\ UNCHANGED version
    BY <1>14 DEF LayerWritten
  <2>2. layer' \in [Route -> [version : 0..MaxVersion]]
    <3>1. [version |-> version[route]] \in [version : 0..MaxVersion]
      BY TypesetAssumption DEF RouteTypes
    <3> QED
      BY <2>1, <3>1 DEF RouteTypes
  <2>3. CASE routesLeft = {}
    <3>1. typesetAt' = "rest" /\ UNCHANGED <<route, routesLeft, formulaVars, roundVars>>
      BY <1>14, <2>3 DEF LayerWritten
    <3> QED
      BY <2>1, <2>2, <3>1 DEF FormulaTypes, RoundTypes, RouteTypes, formulaVars, roundVars, Place, Inquiring, Noted, Reviewing
  <2>4. CASE routesLeft # {}
    <3>1. PICK r \in routesLeft : Collected(r, routesLeft \ {r})
      BY <1>14, <2>4 DEF LayerWritten
    <3> QED
      BY <2>1, <2>2, <3>1, CollectedTypes DEF RouteTypes
  <2> QED
    BY <2>3, <2>4
<1> QED
  BY <1>1, <1>2, <1>3, <1>4, <1>5, <1>6, <1>7, <1>8, <1>9, <1>10, <1>11, <1>12, <1>13, <1>14 DEF TypesetNext

(* What a layer shows was compiled as it is shown and came about in a way  *)
(* that keeps its meaning, a run is ready only with its layers, and calls  *)
(* stay within the budget, for any routes, formulas, corrections, failures *)
(* and crashes (TypesetSound).                                             *)
THEOREM TypesetThm == TypesetSpec => []TypesetSound
<1>1. TypesetInv /\ [TypesetNext]_typesetVars => TypesetInv'
  BY CallsBookedStep, RoutesKeptStep, TextsKeptStep DEF TypesetInv
<1>2. FormulaTypes /\ RoundTypes /\ RouteTypes /\ JournalTypes /\ [TypesetNext]_typesetVars
        => (FormulaTypes /\ RoundTypes /\ RouteTypes /\ JournalTypes)'
  BY TypesetTypesStep, JournalTypesStep
<1>3. FormulaTypes /\ RoundTypes /\ RouteTypes /\ JournalTypes => TypesetTypeOK
  BY DEF FormulaTypes, RoundTypes, RouteTypes, JournalTypes, TypesetTypeOK, Text, Judgement, Reviewing
<1>4. TypesetInv /\ TypesetTypeOK => TypesetSound
  BY DEF TypesetInv, CallsBooked, RoutesKept, TextsKept, TypesetSound
<1> QED
  BY <1>1, <1>2, <1>3, <1>4, TypesetInvInit, TypesetTypesInit, PTL DEF TypesetSpec

=============================================================================
