------------------------------- MODULE MCWal --------------------------------
(* Small instances of Wal for TLC. *)
EXTENDS WalRefinement, WalInvariant, TLC

CONSTANT Wide       \* the writes of two mutations; the others have one

MCWidth == [r \in Request |-> IF r \in Wide THEN 2 ELSE 1]

(* Writes of the same width that are encodable alike are interchangeable. *)
WriteSymmetry == Permutations(Request \ (Wide \cup Unencodable))
=============================================================================
