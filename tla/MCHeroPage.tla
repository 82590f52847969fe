----------------------------- MODULE MCHeroPage -----------------------------
(* The number tasks of the page, and the rules of HeroRules evaluated over  *)
(* all of their small inputs as soon as a task is shown.                    *)
EXTENDS HeroPage, HeroRules

\* A task is never offered a refund the server would not ask for (RefundAgrees),
\* and the form shows the offer it buys (OfferIsBought).
RulesAgree == shown # Nothing => RefundAgrees /\ OfferIsBought
=============================================================================
