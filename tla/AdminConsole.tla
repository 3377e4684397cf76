---------------------------- MODULE AdminConsole ----------------------------
(***************************************************************************)
(* The admin console: tabs that log in as AdminLogin has it and then look  *)
(* at, create and revoke API tokens, which are kept in PostgreSQL as       *)
(* PgTokenStore has it.  Beside them API clients present their tokens.     *)
(***************************************************************************)
EXTENDS AdminLogin, PgTokenStore

CONSTANTS
  Clients,   \* API clients
  Scenes     \* which tabs are used and which tokens there are

ASSUME ConsoleAssumption ==
  /\ Callers = Tabs \union Clients /\ Tabs \intersect Clients = {}
  /\ \A s \in Scenes : s.tabs \subseteq Tabs /\ s.tokens \subseteq Tokens

VARIABLES
  scene,   \* the scene, chosen at the start
  view     \* what the admin page of each tab shows

consoleVars == <<loginVars, pgVars, scene, view>>

\* A page: "loading" until List has returned, then "shown".  "live" are the tokens
\* it shows without the mark of a revoked one.  "dead" and "due" are history: the
\* tokens that were known to be dead when the page was asked for, and those it has
\* to show unless somebody sets out to end them or they expire.
NoView == [at |-> "none", live |-> {}, dead |-> {}, due |-> {}]

ConsoleInit ==
  /\ LoginInit
  /\ PgInit
  /\ scene \in Scenes
  /\ view = [t \in Tabs |-> NoView]

-----------------------------------------------------------------------------
(* Logging in                                                              *)

\* GET /admin, behind the middleware: getAdmin asks the store for its list.
Open(t) ==
  /\ LoginMiddleware(t)
  /\ view' = [view EXCEPT ![t] =
                IF tab'[t].at # "page" THEN NoView
                ELSE [at |-> "loading", live |-> {}, dead |-> confirmed, due |-> issued]]
  /\ UNCHANGED <<pgVars, scene>>

\* A tab that moves on shows nothing any more.
MoveOn(t) ==
  /\ view' = [view EXCEPT ![t] = NoView]
  /\ UNCHANGED <<pgVars, scene>>

BrowserTime ==
  /\ CookiesExpire \/ SessionEnds
  /\ UNCHANGED <<pgVars, scene, view>>

-----------------------------------------------------------------------------
(* The page                                                                *)

Live == { k \in Tokens : rows[k] = "live" }

\* List reads the whole table.
List(t) ==
  /\ view[t].at = "loading"
  /\ view' = [view EXCEPT ![t].at = "shown", ![t].live = Live]
  /\ UNCHANGED <<loginVars, pgVars, scene>>

\* An error that the query returns empties the list; one that ends the rows early
\* is never looked at, and the rows so far are shown as if they were all.
ListBreaksOff(t) ==
  /\ view[t].at = "loading"
  /\ ListFails
  /\ \E some \in SUBSET Live :
       view' = [view EXCEPT ![t].at = "shown", ![t].live = some, ![t].due = {}]
  /\ UNCHANGED <<loginVars, scene>>

\* The page's script creates or revokes a token: createToken and deleteToken,
\* behind the middleware.  Without a session they answer 401 and do nothing.
Ask(t, op, k) ==
  /\ tab[t].at = "page"
  /\ cookies.session # "none"
  /\ Send(t, op, k)
  /\ UNCHANGED <<loginVars, scene, view>>

-----------------------------------------------------------------------------
(* Beside the console                                                      *)

\* A token is presented.  Delete is for whatever else uses the store: nothing in
\* the repository calls it.
Present(c, op, k) ==
  /\ Send(c, op, k)
  /\ UNCHANGED <<loginVars, scene, view>>

StoreStep == PgStep /\ UNCHANGED <<loginVars, scene, view>>

Proceed(t) == Open(t) \/ (LogIn(t) /\ MoveOn(t))

ConsoleNext ==
  \/ \E t \in scene.tabs :
       \/ Proceed(t)
       \/ UserActs(t) /\ MoveOn(t)
       \/ List(t)
       \/ ListBreaksOff(t)
  \/ \E t \in scene.tabs, op \in {"save", "revoke"}, k \in scene.tokens : Ask(t, op, k)
  \/ \E c \in Clients, op \in {"get", "delete"}, k \in scene.tokens : Present(c, op, k)
  \/ BrowserTime
  \/ StoreStep

ConsoleSpec == ConsoleInit /\ [][ConsoleNext]_consoleVars

\* The server answers, and the provider comes back, as it does at once for
\* somebody who is signed in there.
FairSpec == ConsoleSpec /\ \A t \in Tabs : WF_consoleVars(Proceed(t))

-----------------------------------------------------------------------------
(* Properties                                                              *)

\* An admin page tells the truth: no token that was known to be revoked or deleted
\* when the page was asked for is shown as live, and every token whose creation
\* was confirmed by then is, unless somebody sets out to end it, it expires, or
\* the listing failed.
PageIsTrue ==
  \A t \in Tabs : view[t].at = "shown" =>
    /\ view[t].live \intersect view[t].dead = {}
    /\ view[t].due \subseteq (view[t].live \union attempted \union dbExpired)

=============================================================================
