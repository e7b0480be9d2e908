------------------------- MODULE MCServerStatistics -------------------------
(* Small instances of ServerStatistics for TLC.                            *)
EXTENDS ServerStatistics, TLC

\* Callers and timers are interchangeable: sound for the safety runs only.
Symmetry == Permutations(Callers) \cup Permutations(Timers)

=============================================================================
