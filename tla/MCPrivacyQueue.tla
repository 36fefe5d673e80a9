---------------------------- MODULE MCPrivacyQueue ----------------------------
(* Small instances of PrivacyQueue for TLC. *)
EXTENDS PrivacyQueue, TLC

\* Candidates are interchangeable, and so are the worker goroutines.
Symmetry == Permutations(Item) \cup Permutations(Worker)
=============================================================================
