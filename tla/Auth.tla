--------------------------------- MODULE Auth ---------------------------------
(***************************************************************************)
(* Password sessions (src/internal/auth): the server's table of tokens     *)
(* with their expiry, under a mutex; the browsers' cookies; the hourly     *)
(* clean-up; restarts, which lose the table; and answers that get lost.    *)
(*                                                                         *)
(* A wrong password changes nothing and is left out.  A new token is one   *)
(* never seen before (32 random bytes).  A page's other routes are behind  *)
(* the middleware, /login and /static are not.                             *)
(***************************************************************************)
EXTENDS Integers

CONSTANTS
    Browsers,
    Tokens,       \* bound: tokens ever made
    SessionTTL,   \* lifetime of a token (30 days in the code)
    MaxNow,       \* bound: last instant of the clock
    Nil           \* no token, no cookie, not yet

VARIABLES
    tokens,    \* expiry of each token in the table, or Nil
    cookie,    \* each browser's cookie, or Nil
    now,
    born,      \* history: when a token was made, or Nil
    ended,     \* history: when it was logged out or lost in a restart, or Nil
    admitted   \* history: the last request of each browser that was let through

vars == <<tokens, cookie, now, born, ended, admitted>>

ASSUME AuthAssumption ==
    /\ SessionTTL \in Nat /\ MaxNow \in Nat
    /\ Nil \notin Int /\ Nil \notin Tokens
    /\ Nil \notin [token: Tokens, expires: Int]
    /\ Nil \notin [token: Tokens, at: Int]

Instants == 0 .. MaxNow

Init ==
    /\ tokens = [t \in Tokens |-> Nil]
    /\ cookie = [b \in Browsers |-> Nil]
    /\ now = 0
    /\ born = [t \in Tokens |-> Nil]
    /\ ended = [t \in Tokens |-> Nil]
    /\ admitted = [b \in Browsers |-> Nil]

\* now.After(exp): the instant of expiry itself is not too late.
Expired(t) == tokens[t] # Nil /\ now > tokens[t]

\* POST /login with the password; the answer may get lost.
HandleLogin(b, t) ==
    /\ born[t] = Nil
    /\ tokens' = [tokens EXCEPT ![t] = now + SessionTTL]
    /\ born' = [born EXCEPT ![t] = now]
    /\ \/ cookie' = [cookie EXCEPT ![b] = [token |-> t, expires |-> now + SessionTTL]]
       \/ UNCHANGED cookie
    /\ UNCHANGED <<now, ended, admitted>>

\* The cookie a browser sends: it drops one that has expired.
Sends(b, t) == cookie[b] # Nil /\ cookie[b].token = t /\ now <= cookie[b].expires

\* Mutant: the table's expiry is not looked at.
AuthenticatedAnyTime(b, t) ==
    /\ tokens[t] # Nil
    /\ admitted' = [admitted EXCEPT ![b] = [token |-> t, at |-> now]]
    /\ UNCHANGED tokens

\* authenticated
Authenticated(b, t) ==
    /\ tokens[t] # Nil /\ ~Expired(t)
    /\ admitted' = [admitted EXCEPT ![b] = [token |-> t, at |-> now]]
    /\ UNCHANGED tokens

Refused(t) ==
    /\ tokens[t] = Nil \/ Expired(t)
    /\ tokens' = [tokens EXCEPT ![t] = Nil]
    /\ UNCHANGED admitted

\* Middleware; a copied cookie can outlive the browser's own expiry.
Middleware(b, t) ==
    /\ cookie[b] # Nil /\ cookie[b].token = t
    /\ Authenticated(b, t) \/ Refused(t)
    /\ UNCHANGED <<cookie, now, born, ended>>

\* GET /logout; the answer that clears the cookie may get lost.
HandleLogout(b, t) ==
    /\ Sends(b, t)
    /\ tokens' = [tokens EXCEPT ![t] = Nil]
    /\ ended' = [ended EXCEPT ![t] = IF @ = Nil THEN now ELSE @]
    /\ cookie' \in {cookie, [cookie EXCEPT ![b] = Nil]}
    /\ UNCHANGED <<now, born, admitted>>

\* Mutant: a token goes at its last instant.
GcEarly ==
    /\ \E t \in Tokens : tokens[t] # Nil /\ now >= tokens[t]
    /\ tokens' = [t \in Tokens |-> IF tokens[t] # Nil /\ now >= tokens[t] THEN Nil
                                   ELSE tokens[t]]
    /\ UNCHANGED <<cookie, now, born, ended, admitted>>

\* Mutant: the loop returns at a token that is still alive instead of going on.
GcStopsAtLive ==
    /\ \E t \in Tokens : Expired(t)
    /\ \A t \in Tokens : tokens[t] # Nil => Expired(t)
    /\ tokens' = [t \in Tokens |-> Nil]
    /\ UNCHANGED <<cookie, now, born, ended, admitted>>

\* gc, which the ticker calls every hour.
Gc ==
    /\ \E t \in Tokens : Expired(t)
    /\ tokens' = [t \in Tokens |-> IF Expired(t) THEN Nil ELSE tokens[t]]
    /\ UNCHANGED <<cookie, now, born, ended, admitted>>

\* The process dies or stops, and a new one starts with an empty table.
Restart ==
    /\ tokens' = [t \in Tokens |-> Nil]
    /\ ended' = [t \in Tokens |-> IF tokens[t] # Nil /\ ended[t] = Nil THEN now
                                  ELSE ended[t]]
    /\ UNCHANGED <<cookie, now, born, admitted>>

Tick ==
    /\ now < MaxNow
    /\ now' = now + 1
    /\ UNCHANGED <<tokens, cookie, born, ended, admitted>>

Next ==
    \/ \E b \in Browsers, t \in Tokens :
          HandleLogin(b, t) \/ Middleware(b, t) \/ HandleLogout(b, t)
    \/ Gc \/ Restart \/ Tick

\* The ticker fires again and again (gcLoop).
Spec == Init /\ [][Next]_vars /\ WF_vars(Gc)

-----------------------------------------------------------------------------
\* The token table, the browsers' cookies and what is recorded of them are well
\* formed (auth.go:29-159).
TypeOK ==
    /\ tokens \in [Tokens -> Int \cup {Nil}]
    /\ cookie \in [Browsers -> [token: Tokens, expires: Int] \cup {Nil}]
    /\ now \in Instants
    /\ born \in [Tokens -> Instants \cup {Nil}]
    /\ ended \in [Tokens -> Instants \cup {Nil}]
    /\ admitted \in [Browsers -> [token: Tokens, at: Instants] \cup {Nil}]

\* A request is let through only with a token that a login made, within its
\* lifetime, and that had not been logged out or lost in a restart before,
\* whatever cookies browsers still hold (authenticated, auth.go:86-102).
OnlyLiveAdmitted ==
    \A b \in Browsers : admitted[b] # Nil =>
        LET t == admitted[b].token
            at == admitted[b].at
        IN  /\ born[t] # Nil
            /\ born[t] <= at /\ at <= born[t] + SessionTTL
            /\ ended[t] # Nil => at <= ended[t]

\* Nobody is logged out early: a token leaves the table by a logout, a restart, or
\* after its expiry (gc, auth.go:56-65; authenticated, auth.go:97-100).
NotEndedEarly ==
    [][\A t \in Tokens :
          (tokens[t] # Nil /\ tokens'[t] = Nil) =>
              Expired(t) \/ ended'[t] # Nil]_vars

\* The table does not fill up: tokens nobody presents any more are dropped after
\* their expiry (gcLoop, auth.go:43-65).
ExpiredAreDropped == \A t \in Tokens : Expired(t) ~> tokens[t] = Nil
=============================================================================
