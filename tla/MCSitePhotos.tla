---------------------------- MODULE MCSitePhotos ----------------------------
(* Small instances of SitePhotos.                                          *)
EXTENDS SitePhotos, TLC

Symmetry == Permutations(Photos) \cup Permutations(Requests)
=============================================================================
