------------------------------ MODULE AuthProofs ------------------------------
(***************************************************************************)
(* A request is let through only with a live token, for any browsers,      *)
(* tokens, lifetime and clock.  The invariant says what the table knows of *)
(* a token: it expires SessionTTL after the login that made it, and leaves *)
(* the table when it is logged out or lost.                                *)
(***************************************************************************)
EXTENDS Auth, TLAPS

\* A token in the table was made by a login and has not ended.
TableFollowsLogins ==
    \A t \in Tokens :
        /\ born[t] # Nil => born[t] <= now
        /\ born[t] = Nil => ended[t] = Nil
        /\ tokens[t] # Nil =>
              /\ born[t] # Nil
              /\ tokens[t] = born[t] + SessionTTL
              /\ ended[t] = Nil

\* Cookies come from logins.
CookiesAreBorn ==
    \A b \in Browsers : cookie[b] # Nil => born[cookie[b].token] # Nil

\* A token that was admitted before now is one the past knows.
AdmittedInPast ==
    \A b \in Browsers : admitted[b] # Nil => admitted[b].at <= now

Inv ==
    TypeOK /\ TableFollowsLogins /\ CookiesAreBorn /\ AdmittedInPast /\ OnlyLiveAdmitted

\* Nothing is admitted, nothing is in the table.
LEMMA InitInv == Init => Inv
  <1> SUFFICES ASSUME Init PROVE Inv
    OBVIOUS
  <1>1. TypeOK
    BY AuthAssumption DEF Init, TypeOK, Instants
  <1>2. TableFollowsLogins
    BY DEF Init, TableFollowsLogins
  <1>3. CookiesAreBorn /\ AdmittedInPast /\ OnlyLiveAdmitted
    BY DEF Init, CookiesAreBorn, AdmittedInPast, OnlyLiveAdmitted
  <1> QED
    BY <1>1, <1>2, <1>3 DEF Inv

\* A login makes a token that nobody was let in with.
LEMMA LoginInv ==
    ASSUME Inv, NEW b \in Browsers, NEW t \in Tokens, HandleLogin(b, t)
    PROVE  Inv'
  <1> USE AuthAssumption DEF HandleLogin, Inv
  <1>1. TypeOK'
    BY DEF TypeOK, Instants
  <1>2. TableFollowsLogins'
    BY DEF TypeOK, Instants, TableFollowsLogins
  <1>3. CookiesAreBorn' /\ AdmittedInPast'
    BY DEF TypeOK, Instants, CookiesAreBorn, AdmittedInPast
  <1>4. OnlyLiveAdmitted'
    BY DEF TypeOK, Instants, OnlyLiveAdmitted
  <1> QED
    BY <1>1, <1>2, <1>3, <1>4

\* The table lets in only tokens whose time has not come.
LEMMA MiddlewareInv ==
    ASSUME Inv, NEW b \in Browsers, NEW t \in Tokens, Middleware(b, t)
    PROVE  Inv'
  <1> USE AuthAssumption DEF Middleware, Inv
  <1>1. CASE Authenticated(b, t)
    <2> USE <1>1 DEF Authenticated
    <2>1. TypeOK'
      BY DEF TypeOK, Instants
    <2>2. TableFollowsLogins' /\ CookiesAreBorn' /\ AdmittedInPast'
      BY DEF TypeOK, Instants, TableFollowsLogins, CookiesAreBorn, AdmittedInPast
    <2>3. OnlyLiveAdmitted'
      BY DEF TypeOK, Instants, TableFollowsLogins, OnlyLiveAdmitted, Expired
    <2> QED
      BY <2>1, <2>2, <2>3
  <1>2. CASE Refused(t)
    <2> USE <1>2 DEF Refused
    <2>1. TypeOK'
      BY DEF TypeOK, Instants
    <2>2. TableFollowsLogins' /\ CookiesAreBorn' /\ AdmittedInPast'
      BY DEF TypeOK, TableFollowsLogins, CookiesAreBorn, AdmittedInPast
    <2>3. OnlyLiveAdmitted'
      BY DEF OnlyLiveAdmitted
    <2> QED
      BY <2>1, <2>2, <2>3
  <1> QED
    BY <1>1, <1>2

\* A logout ends the token after everyone it has let in.
LEMMA LogoutInv ==
    ASSUME Inv, NEW b \in Browsers, NEW t \in Tokens, HandleLogout(b, t)
    PROVE  Inv'
  <1> USE AuthAssumption DEF HandleLogout, Inv
  <1>1. TypeOK'
    BY DEF TypeOK, Instants
  <1>2. TableFollowsLogins' /\ CookiesAreBorn' /\ AdmittedInPast'
    <2>1. cookie[b] # Nil /\ born[t] # Nil
      BY DEF Sends, CookiesAreBorn
    <2>2. TableFollowsLogins'
      BY <2>1 DEF TypeOK, TableFollowsLogins
    <2>3. CookiesAreBorn' /\ AdmittedInPast'
      BY DEF TypeOK, CookiesAreBorn, AdmittedInPast
    <2> QED
      BY <2>2, <2>3
  <1>3. OnlyLiveAdmitted'
    BY DEF TypeOK, Instants, OnlyLiveAdmitted, AdmittedInPast
  <1> QED
    BY <1>1, <1>2, <1>3

LEMMA GcInv == ASSUME Inv, Gc PROVE Inv'
  <1> USE AuthAssumption DEF Gc, Inv
  <1>1. TypeOK'
    BY DEF TypeOK, Instants
  <1>2. TableFollowsLogins' /\ CookiesAreBorn' /\ AdmittedInPast'
    BY DEF TypeOK, TableFollowsLogins, CookiesAreBorn, AdmittedInPast
  <1>3. OnlyLiveAdmitted'
    BY DEF OnlyLiveAdmitted
  <1> QED
    BY <1>1, <1>2, <1>3

\* A restart ends every token of the table after everyone it has let in.
LEMMA RestartInv == ASSUME Inv, Restart PROVE Inv'
  <1> USE AuthAssumption DEF Restart, Inv
  <1>1. TypeOK'
    BY DEF TypeOK, Instants
  <1>2. TableFollowsLogins' /\ CookiesAreBorn' /\ AdmittedInPast'
    BY DEF TypeOK, TableFollowsLogins, CookiesAreBorn, AdmittedInPast
  <1>3. OnlyLiveAdmitted'
    BY DEF TypeOK, Instants, OnlyLiveAdmitted, AdmittedInPast
  <1> QED
    BY <1>1, <1>2, <1>3

LEMMA TickInv == ASSUME Inv, Tick PROVE Inv'
  <1> USE AuthAssumption DEF Tick, Inv
  <1>1. TypeOK'
    BY DEF TypeOK, Instants
  <1>2. TableFollowsLogins' /\ CookiesAreBorn' /\ AdmittedInPast'
    BY DEF TypeOK, Instants, TableFollowsLogins, CookiesAreBorn, AdmittedInPast
  <1>3. OnlyLiveAdmitted'
    BY DEF OnlyLiveAdmitted
  <1> QED
    BY <1>1, <1>2, <1>3

LEMMA NextInv == Inv /\ [Next]_vars => Inv'
  <1> SUFFICES ASSUME Inv, [Next]_vars PROVE Inv'
    OBVIOUS
  <1>1. CASE \E b \in Browsers, t \in Tokens :
                HandleLogin(b, t) \/ Middleware(b, t) \/ HandleLogout(b, t)
    BY <1>1, LoginInv, MiddlewareInv, LogoutInv
  <1>2. CASE Gc \/ Restart \/ Tick
    BY <1>2, GcInv, RestartInv, TickInv
  <1>3. CASE UNCHANGED vars
    BY <1>3 DEF vars, Inv, TypeOK, TableFollowsLogins, CookiesAreBorn,
                AdmittedInPast, OnlyLiveAdmitted, Instants
  <1> QED
    BY <1>1, <1>2, <1>3 DEF Next

\* In every reachable state the table, the cookies and the histories are well
\* formed, and the table holds what the logins put there.
THEOREM InvCorrect == Spec => []Inv
  <1>1. Init => Inv
    BY InitInv
  <1>2. Inv /\ [Next]_vars => Inv'
    BY NextInv
  <1> QED
    BY <1>1, <1>2, PTL DEF Spec

\* Only a live token lets a request through: made by a login, within its lifetime,
\* not logged out, not lost in a restart (authenticated, auth.go:86-102).
THEOREM LiveOnly == Spec => []OnlyLiveAdmitted
  <1>1. Inv => OnlyLiveAdmitted
    BY DEF Inv
  <1> QED
    BY <1>1, InvCorrect, PTL

\* Nobody is logged out early: a token leaves the table by a logout, a restart, or
\* after its expiry (auth.go:56-65, 97-100).
THEOREM NeverEarly == Spec => NotEndedEarly
  <1> DEFINE Early ==
        \A t \in Tokens : (tokens[t] # Nil /\ tokens'[t] = Nil) =>
                              Expired(t) \/ ended'[t] # Nil
  <1>1. Inv /\ Next => Early
    <2> SUFFICES ASSUME Inv, Next, NEW t \in Tokens,
                        tokens[t] # Nil, tokens'[t] = Nil
                 PROVE  Expired(t) \/ ended'[t] # Nil
      OBVIOUS
    <2> USE AuthAssumption DEF Inv, TypeOK, Instants
    <2>1. CASE \E b \in Browsers, u \in Tokens : HandleLogin(b, u)
      BY <2>1 DEF HandleLogin
    <2>2. CASE \E b \in Browsers, u \in Tokens : Middleware(b, u)
      BY <2>2 DEF Middleware, Authenticated, Refused
    <2>3. CASE \E b \in Browsers, u \in Tokens : HandleLogout(b, u)
      BY <2>3 DEF HandleLogout
    <2>4. CASE Gc
      BY <2>4 DEF Gc
    <2>5. CASE Restart
      BY <2>5 DEF Restart, TableFollowsLogins
    <2>6. CASE Tick
      BY <2>6 DEF Tick
    <2> QED
      BY <2>1, <2>2, <2>3, <2>4, <2>5, <2>6 DEF Next
  <1>2. Inv /\ [Next]_vars => [Early]_vars
    BY <1>1
  <1> QED
    BY <1>2, InvCorrect, PTL DEF Spec, NotEndedEarly
=============================================================================
