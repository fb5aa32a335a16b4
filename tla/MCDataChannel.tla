---------------------------- MODULE MCDataChannel ----------------------------
(***************************************************************************)
(* DataChannel for TLC.                                                    *)
(***************************************************************************)
EXTENDS DataChannel, TLC

\* Coroutines that make the same calls are interchangeable.
Symmetry == Permutations(Receivers) \cup Permutations(Senders)
=============================================================================
