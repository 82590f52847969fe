----------------------------- MODULE MCDashboard -----------------------------
(* The workbench, and what it makes of the answers it is sent: the rules of *)
(* ActivationRules, over all of their small inputs, once rows are shown.    *)
EXTENDS Dashboard, ActivationRules

\* A row offers and says what the server does, counts what was bought, and shows
\* the login and the codes of its own number (the four rules of ActivationRules).
RulesAgree ==
    activations # {} =>
        RowsReadTrue /\ CountersReadTrue /\ LoginsReadTrue /\ CodesReadTrue
=============================================================================
