------------------------- MODULE MCDestinationQueue -------------------------
(* Small instances of DestinationQueue for TLC.                            *)
EXTENDS DestinationQueue, TLC

\* Events of a kind are interchangeable, and so are queue objects: sound for the
\* safety runs only. (Expirable is a set of all EDUs or of none.)
Symmetry == Permutations(PDUs) \cup Permutations(EDUs) \cup Permutations(Queues)

=============================================================================
