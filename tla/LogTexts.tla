------------------------------ MODULE LogTexts ------------------------------
(***************************************************************************)
(* LogEmbedding under names of its own, for modules that speak of the text *)
(* of a log next to requests, queues and workers of another kind.          *)
(***************************************************************************)
EXTENDS Naturals

CONSTANTS
  Editing,     \* requests that edit the log
  Embedders,   \* worker processes
  MaxEdits, MaxQueue

ASSUME EditsAssumption == MaxEdits \in Nat /\ MaxQueue \in Nat

VARIABLES
  parts,       \* the content of the log
  textQueue, textRequest, textWorker, embedded, textLost, backdated

Text == INSTANCE LogEmbedding WITH
          Requests <- Editing, Workers <- Embedders, content <- parts,
          queue <- textQueue, request <- textRequest, worker <- textWorker, lost <- textLost

TextSpec == Text!FairSpec

-----------------------------------------------------------------------------
(* The properties of the instance.                                         *)

\* Versions and the last word: when nothing is under way, what is embedded is the log,
\* unless a task was lost or the one that stored the text had been passed by another.
TextInv == Text!IInv

\* Only a task that was passed takes a part of the text back to an earlier version.
TextNeverOlder == Text!NeverOlder

\* The text catches up for good, unless a task was lost or a passed one had the last word.
TextEventuallyCurrent == Text!EventuallyCurrent
=============================================================================
