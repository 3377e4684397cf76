--------------------------- MODULE MCAdminConsole ---------------------------
(* A small instance of AdminConsole for TLC. *)
EXTENDS AdminConsole

CONSTANTS t1, t2, api, k1

\* Two tabs that log in beside each other, and one that manages a token.
TwoTabsOrOneToken ==
  { [tabs |-> {t1, t2}, tokens |-> {}],
    [tabs |-> {t1}, tokens |-> {k1}] }
=============================================================================
