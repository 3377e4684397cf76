----------------------------- MODULE AdminLogin -----------------------------
(***************************************************************************)
(* The OIDC login of the admin console, as the tabs of one browser go      *)
(* through it: /admin, /auth/login, the identity provider, /auth/callback  *)
(* and back to /admin.  The tabs share the browser's cookies.  A request   *)
(* carries the cookies of the moment it is sent; what its response does to *)
(* them happens when the response arrives.                                 *)
(*                                                                         *)
(* A login is a number: its state and its nonce, which are random in the   *)
(* code.  A number nothing refers to any more may be given out again.      *)
(***************************************************************************)
EXTENDS Integers, FiniteSets

CONSTANTS
  Tabs,       \* tabs of the browser
  MaxLogins   \* bound: logins that cookies and tabs refer to at a time

ASSUME LoginAssumption ==
  IsFiniteSet(Tabs) /\ MaxLogins \in Nat /\ MaxLogins > 2 * Cardinality(Tabs)

VARIABLES
  cookies,   \* the browser's cookies
  tab,       \* where each tab is
  codes,     \* logins whose authorization code can still be exchanged
  alone      \* history: tabs whose login nothing has come in the way of

loginVars == <<cookies, tab, codes, alone>>

Logins == 1..MaxLogins
None == 0

\* A tab that rests, and one that is at a place of the login.  "state" and
\* "nonce" are the cookies that its callback was sent with; "cross" says that
\* the navigation has come from another site.
At(place) == [at |-> place, login |-> None, state |-> None, nonce |-> None,
              cross |-> FALSE]
AtLogin(place, n, state, nonce) ==
  [at |-> place, login |-> n, state |-> state, nonce |-> nonce, cross |-> TRUE]

Resting == {"away", "page", "error"}

LoginInit ==
  /\ cookies = [state |-> None, nonce |-> None, session |-> "none"]
  /\ tab = [t \in Tabs |-> At("away")]
  /\ codes = {}
  /\ alone = {}

Move(t, place) == tab' = [tab EXCEPT ![t] = place]

\* Tabs whose callback has not been sent need the cookies as they are.
Waiting == { t \in Tabs : tab[t].at \in {"idp", "callback"} }

-----------------------------------------------------------------------------
(* The browser                                                             *)

\* A tab lets go of its login; nothing else refers to its code.
Forget(t) == codes' = codes \ {tab[t].login} /\ alone' = alone \ {t}

\* /admin is typed in or reloaded.
Visit(t) ==
  /\ tab[t].at \in Resting
  /\ Move(t, At("admin"))
  /\ Forget(t)
  /\ UNCHANGED cookies

Leave(t) ==
  /\ tab[t].at = "idp"
  /\ Move(t, At("away"))
  /\ Forget(t)
  /\ UNCHANGED cookies

\* The callback's page is reloaded, or stopped and loaded again while the
\* handler is at work; the code may have been exchanged by then.
Reload(t) ==
  /\ \/ tab[t].at = "handling" /\ t \in alone /\ codes' \in {codes, codes \ {tab[t].login}}
     \/ tab[t].at = "error" /\ tab[t].login # None /\ UNCHANGED codes
  /\ Move(t, AtLogin("callback", tab[t].login, None, None))
  /\ alone' = alone \ {t}
  /\ UNCHANGED cookies

\* Both were set by one response, for five minutes.
CookiesExpire ==
  /\ cookies' = [cookies EXCEPT !.state = None, !.nonce = None]
  /\ alone' = alone \ Waiting
  /\ UNCHANGED <<tab, codes>>

\* Eight hours have gone by, or the secret was changed.  No redirect from the
\* callback to /admin takes that long.
SessionEnds ==
  /\ \A t \in Tabs : ~(tab[t].at = "admin" /\ tab[t].cross)
  /\ cookies' = [cookies EXCEPT !.session = "none"]
  /\ UNCHANGED <<tab, codes, alone>>

\* A cookie that is SameSite=Strict is not sent when the navigation has come
\* from another site; one that is Lax is.
SendsSession(t) ==
  \/ cookies.session = "lax"
  \/ cookies.session = "strict" /\ ~tab[t].cross

-----------------------------------------------------------------------------
(* The server                                                              *)

\* GET /admin: a valid session passes, anything else is sent to log in.
LoginMiddleware(t) ==
  /\ tab[t].at = "admin"
  /\ Move(t, IF SendsSession(t) THEN At("page") ELSE [tab[t] EXCEPT !.at = "login"])
  /\ UNCHANGED <<cookies, codes, alone>>

Fresh(n, t) ==
  /\ n \notin {cookies.state, cookies.nonce}
  /\ \A u \in Tabs \ {t} : n \notin {tab[u].login, tab[u].state, tab[u].nonce}

\* Mutant of handleLogin: the nonce is sent to the provider and not kept.
handleLoginForgetful(t) ==
  /\ tab[t].at = "login"
  /\ \E n \in Logins :
       /\ Fresh(n, t)
       /\ \A m \in Logins : Fresh(m, t) => n <= m
       /\ cookies' = [cookies EXCEPT !.state = n]
       /\ Move(t, AtLogin("idp", n, None, None))
       /\ codes' = codes \ {n}
  /\ alone' = (alone \ Waiting) \union {t}

handleLogin(t) ==
  /\ tab[t].at = "login"
  /\ \E n \in Logins :
       /\ Fresh(n, t)
       /\ \A m \in Logins : Fresh(m, t) => n <= m
       /\ cookies' = [cookies EXCEPT !.state = n, !.nonce = n]
       /\ Move(t, AtLogin("idp", n, None, None))
       /\ codes' = codes \ {n}
  /\ alone' = (alone \ Waiting) \union {t}

\* No random value is to be had: 500.
handleLoginFails(t) ==
  /\ tab[t].at = "login"
  /\ Move(t, At("error"))
  /\ alone' = alone \ {t}
  /\ UNCHANGED <<cookies, codes>>

\* The provider sends the browser back, with a code or with an error.
SignIn(t) ==
  /\ tab[t].at = "idp"
  /\ Move(t, [tab[t] EXCEPT !.at = "callback"])
  /\ \/ codes' = codes \union {tab[t].login} /\ UNCHANGED alone
     \/ alone' = alone \ {t} /\ UNCHANGED codes
  /\ UNCHANGED cookies

SendCallback(t) ==
  /\ tab[t].at = "callback"
  /\ Move(t, AtLogin("handling", tab[t].login, cookies.state, cookies.nonce))
  /\ UNCHANGED <<cookies, codes, alone>>

\* Every way out of handleCallback clears the cookies, whoever's they are.
Clear(session) ==
  cookies' = [state |-> None, nonce |-> None, session |-> session]

\* The callback is answered with an error.
Refuse(t) ==
  /\ Move(t, AtLogin("error", tab[t].login, None, None))
  /\ Clear(cookies.session)

StateOK(t) == tab[t].state # None /\ tab[t].state = tab[t].login
NonceOK(t) == tab[t].nonce # None /\ tab[t].nonce = tab[t].login

\* 400, before anything else is looked at.
StateMismatch(t) ==
  /\ tab[t].at = "handling" /\ ~StateOK(t)
  /\ Refuse(t)
  /\ alone' = alone \ Waiting
  /\ UNCHANGED codes

\* 502: the code is missing, used or the exchange did not succeed.
ExchangeFails(t) ==
  /\ tab[t].at = "handling" /\ StateOK(t)
  /\ Refuse(t)
  /\ \/ tab[t].login \notin codes /\ alone' = alone \ Waiting
     \/ alone' = alone \ (Waiting \union {t})
  /\ codes' = codes \ {tab[t].login}

\* 500, 401 or 400: the provider's answer has no ID token, one that does not verify
\* or cannot be read, or one of another login than the nonce cookie.
TokenRejected(t) ==
  /\ tab[t].at = "handling" /\ StateOK(t) /\ tab[t].login \in codes
  /\ Refuse(t)
  /\ alone' = (alone \ Waiting) \ (IF NonceOK(t) THEN {t} ELSE {})
  /\ codes' = codes \ {tab[t].login}

\* Mutant of SameSite: the value the comment in handleCallback warns of.
SameSiteStrict == "strict"

SameSite == "lax"

\* The session cookie is set, and the browser is sent on to /admin.
IssueSession(t) ==
  /\ tab[t].at = "handling" /\ StateOK(t) /\ tab[t].login \in codes /\ NonceOK(t)
  /\ Move(t, [At("admin") EXCEPT !.cross = TRUE])
  /\ Clear(SameSite)
  /\ alone' = alone \ (Waiting \union {t})
  /\ codes' = codes \ {tab[t].login}

handleCallback(t) ==
  \/ StateMismatch(t)
  \/ ExchangeFails(t)
  \/ TokenRejected(t)
  \/ IssueSession(t)

\* What becomes of a tab that was sent to /auth/login.
LogIn(t) ==
  \/ handleLogin(t) \/ handleLoginFails(t)
  \/ SignIn(t)
  \/ SendCallback(t)
  \/ handleCallback(t)

UserActs(t) == Visit(t) \/ Leave(t) \/ Reload(t)

LoginNext ==
  \/ \E t \in Tabs : LoginMiddleware(t) \/ LogIn(t) \/ UserActs(t)
  \/ CookiesExpire
  \/ SessionEnds

LoginSpec == LoginInit /\ [][LoginNext]_loginVars

-----------------------------------------------------------------------------
(* The inductive invariant                                                 *)

Places == Resting \union {"admin", "login", "idp", "callback", "handling"}

LoginTypeOK ==
  /\ cookies \in [state : Nat, nonce : Nat, session : {"none", "lax", "strict"}]
  /\ tab \in [Tabs -> [at : Places, login : Nat, state : Nat, nonce : Nat, cross : BOOLEAN]]
  /\ alone \subseteq Tabs

\* No two tabs are in the same login.
LoginsDiffer ==
  \A t, u \in Tabs : t # u /\ tab[t].login # None => tab[u].login # tab[t].login

\* What a login that nothing has come in the way of has to go on with.
AloneInv(t) ==
  /\ tab[t].at \in {"idp", "callback", "handling"}
  /\ tab[t].login # None
  /\ tab[t].at \in {"idp", "callback"} =>
       cookies.state = tab[t].login /\ cookies.nonce = tab[t].login
  /\ tab[t].at \in {"callback", "handling"} => tab[t].login \in codes
  /\ tab[t].at = "handling" => StateOK(t) /\ NonceOK(t)

LoginInv ==
  /\ LoginTypeOK
  /\ LoginsDiffer
  /\ \A t \in alone : AloneInv(t)

-----------------------------------------------------------------------------
(* Properties                                                              *)

\* A login ends in an error page only if something came in its way: another tab
\* began or ended a login before this one's callback was sent, the cookies
\* expired, the provider failed, or its page was reloaded.  What earlier logins
\* left behind never fails one, nor does anything that other tabs do while
\* handleCallback waits for the exchange.
ErrorIsExplained == \A t \in Tabs : tab[t].at = "error" => t \notin alone

\* Whoever sets out for /admin arrives at the page or at an error and is not sent
\* round for ever, as the comment on the cookie's SameSite in handleCallback warns.
NavigationEnds == \A t \in Tabs : tab[t].at \notin Resting ~> tab[t].at \in Resting

=============================================================================
