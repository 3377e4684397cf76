--------------------------- MODULE TokenLifecycle ---------------------------
(***************************************************************************)
(* What a TokenStore promises to whoever presents an API token: the token  *)
(* is accepted from the moment it is issued until it is revoked, deleted   *)
(* or expired, and never again after that.                                 *)
(***************************************************************************)
CONSTANT Tokens

VARIABLE status

Init == status = [t \in Tokens |-> "unissued"]

Issue(t) == status[t] = "unissued" /\ status'[t] = "valid"

\* Revoked, deleted or expired; possibly before it was ever accepted.
Retire(t) == status[t] # "dead" /\ status'[t] = "dead"

\* Several tokens may move in one step: a write may catch up with mutations that
\* earlier writes failed to record.
Next ==
  /\ status' \in [Tokens -> {"unissued", "valid", "dead"}]
  /\ \A t \in Tokens : status'[t] = status[t] \/ Issue(t) \/ Retire(t)

Spec == Init /\ [][Next]_status

=============================================================================
