-------------------------- MODULE MCVtWordManager --------------------------
(* Bounds for TLC: the default word and two more; two threads.  The threads   *)
(* are interchangeable, and so are the two words when neither has             *)
(* right-silence detection: positions, never words, decide anything.          *)
EXTENDS VtWordManager, TLC

(* A state in which freed memory has been read is checked but not followed:   *)
(* what the engine may do from there is explored by its own run.              *)
Defined == ~wild

Symmetry == Permutations(Threads) \cup Permutations(UserWords)
=============================================================================
