------------------------- MODULE MCAIQueryLifecycle -------------------------
(* Small instances of AIQueryLifecycle.                                    *)
EXTENDS AIQueryLifecycle, TLC

CONSTANTS q2, w2, a1

VARIABLE scene   \* one question delivered twice, or two delivered once

\* Every two questions are near-duplicates.
AllSimilar == Queries \X Queries

MCInit == Init /\ scene \in {"one", "two"}

\* The first question has both workers and answers, every failure and the polls; two
\* questions share a worker and meet the cleanup.
MCNext ==
  /\ Next /\ UNCHANGED scene
  /\ scene = "one" => request'[q2] = "unsent"
  /\ scene = "two" =>
       /\ expiring' = {} /\ worker'[w2] = Idle
       /\ \A w \in Workers : worker'[w].draft.answer \in {NoAnswer, a1, "ERROR"}
       /\ \A q \in Queries : messages'[q] + delivered'[q] <= 1

MCSpec == MCInit /\ [][MCNext]_<<vars, scene>>
MCFairSpec == MCSpec /\ Fairness
=============================================================================
