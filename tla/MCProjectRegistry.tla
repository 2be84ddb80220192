-------------------------- MODULE MCProjectRegistry --------------------------
(* Small instances of ProjectRegistry: an owner and a manager are seeded.  *)
EXTENDS ProjectRegistry, TLC

CONSTANTS o, m

MCSeeds == o :> "owner" @@ m :> "project_manager"
Alike == Permutations(Requests) \cup Permutations(Users \ {o, m})
=============================================================================
