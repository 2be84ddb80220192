----------------------------- MODULE MCMLModels -----------------------------
(* Small instances of MLModels.                                            *)
EXTENDS MLModels, TLC

\* Two active projects from the first version on, and never six months of costs.
MCEnough == 1 :> {1, 2} @@ 2 :> {1, 2}
=============================================================================
