----------------------------- MODULE MCProject ------------------------------
(***************************************************************************)
(* Small instances of Project.                                             *)
(***************************************************************************)
EXTENDS Project, TLC

\* The values of the expiry are interchangeable.
Expiries == Permutations(Exps)

\* TLC checks no liveness under a symmetry set: instead the first expiry is
\* fixed, which loses no behaviour but renamed ones.
LiveInit == Init /\ proj.exp = CHOOSE e \in Exps : TRUE
LiveSpec == LiveInit /\ [][Next]_vars /\ Fairness
=============================================================================
