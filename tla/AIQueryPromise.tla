--------------------------- MODULE AIQueryPromise ---------------------------
(***************************************************************************)
(* What the AI assistant promises about the questions it accepted, without *)
(* workers, broker, transactions or clocks: the phase a question is in and *)
(* the questions kept as knowledge for later ones.                         *)
(***************************************************************************)
CONSTANTS Queries

VARIABLES
  phase,   \* what the user sees of each question
  memory   \* questions embedded with their answers

vars == <<phase, memory>>

Phases == {"new", "Pending", "Done", "Failed", "gone"}

Init == /\ phase = [q \in Queries |-> "new"]
        /\ memory = {}

Become(qs, p) == phase' = [q \in Queries |-> IF q \in qs THEN p ELSE phase[q]]

Ask(q) == phase[q] = "new" /\ Become({q}, "Pending") /\ UNCHANGED memory

\* An answer replaces a failure too: the worker may finish after an expiry.
Answer(q) ==
  /\ phase[q] \in {"Pending", "Failed", "Done"}
  /\ Become({q}, "Done")
  /\ memory' \in {memory, memory \cup {q}}

\* An expiry that read the row before its answer was saved overwrites it.
Fail(qs) ==
  /\ \A q \in qs : phase[q] \in {"Pending", "Failed", "Done"}
  /\ Become(qs, "Failed") /\ UNCHANGED memory

\* Knowledge is never dropped, so neither is the question it came from.
Forget(qs) ==
  /\ qs \cap memory = {}
  /\ \A q \in qs : phase[q] \in {"Pending", "Failed", "Done"}
  /\ Become(qs, "gone") /\ UNCHANGED memory

Next == \/ \E q \in Queries : Ask(q) \/ Answer(q)
        \/ \E qs \in SUBSET Queries : Fail(qs) \/ Forget(qs)

Settle(q) == phase[q] = "Pending" /\ Next /\ phase'[q] # "Pending"

Spec == Init /\ [][Next]_vars /\ \A q \in Queries : WF_vars(Settle(q))
=============================================================================
