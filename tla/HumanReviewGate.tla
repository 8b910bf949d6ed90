--------------------------- MODULE HumanReviewGate ---------------------------
(***************************************************************************)
(* What the alert subsystem promises the public: a RED incident is shown   *)
(* only once an operator has decided on it, decisions are taken one at a   *)
(* time and are never unmade. How incidents are raised, stored, replaced   *)
(* and withdrawn is of no concern here.                                    *)
(***************************************************************************)
VARIABLES
    shown,    \* the RED incidents on the public feed
    decided   \* the incidents an operator acknowledged or escalated

Init == shown = {} /\ decided = {}

Decide ==
    /\ \E k \in decided' : decided' = decided \cup {k}
    /\ shown' \subseteq decided'

Publish ==
    /\ decided' = decided
    /\ shown' \subseteq decided

Next == Decide \/ Publish

Spec == Init /\ [][Next]_<<shown, decided>>
=============================================================================
