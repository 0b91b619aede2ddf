----------------------------- MODULE Questions -----------------------------
(***************************************************************************)
(* The form in which pure validators are checked: a verifier is given      *)
(* something, its local configuration, and is then shown something, what   *)
(* the peer sent.                                                          *)
(***************************************************************************)

CONSTANT Nothing    \* nothing was shown yet

VARIABLES question, given, shown

vars == <<question, given, shown>>

Show(q, things) ==
    /\ question = q /\ shown = Nothing
    /\ shown' \in things
    /\ UNCHANGED <<question, given>>

Asks(q) == question = q /\ shown # Nothing
=============================================================================
