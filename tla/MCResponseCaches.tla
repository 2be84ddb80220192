-------------------------- MODULE MCResponseCaches --------------------------
(* Small instances of ResponseCaches.  No key depends on another, so it is *)
(* enough to watch one key at a time, whichever it is.                     *)
EXTENDS ResponseCaches, FiniteSets, TLC

\* Keys stored, or selected and not yet stored.
Watched ==
  {k \in Keys : copy[k] # "none" \/ \E r \in Requests : At(r, "filling") /\ request[r].key = k}

MCSpec == Init /\ [][Next /\ Cardinality(Watched') <= 1]_vars

Symmetry == Permutations(Requests) \cup Permutations(Projects)
=============================================================================
