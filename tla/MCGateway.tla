------------------------------ MODULE MCGateway ------------------------------
(* The instances of Gateway that TLC checks. *)
EXTENDS Gateway, TLC

CONSTANT a   \* the main issue of the one family there is

RootOf == [i \in Issues |-> a]

\* No action reads `answered`, so the safety runs identify states up to it.
ButAnswers == <<store, thread, worker, wake, card, projection, strayed, crashes>>

\* No action tells one idempotency key from another.
KeySymmetry == Permutations(Keys)
=============================================================================
