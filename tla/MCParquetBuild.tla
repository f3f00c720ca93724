--------------------------- MODULE MCParquetBuild ---------------------------
(***************************************************************************)
(* Builders over one height with a block of one transaction; a fetch of it *)
(* is whole or short, with or without a reported count.                    *)
(***************************************************************************)
EXTENDS ParquetBuild, TLC

CONSTANTS b1, b2, p1, p2

MCHashes == {b1, b2}
MCSize   == [b \in MCHashes |-> 1]

OneHeight  == {0}

\* One block per height.
OneBlockEach == [h \in Heights |-> IF h = 0 THEN {b1} ELSE {b2}]

OneBuilder  == {p1}
TwoBuilders == {p1, p2}

All(f)           == [all |-> TRUE, lo |-> 1, hi |-> 0, force |-> f]
Explicit(lo, hi, f) == [all |-> FALSE, lo |-> lo, hi |-> hi, force |-> f]

OneHeightJobs == { All(FALSE), Explicit(0, 0, FALSE), Explicit(0, 0, TRUE) }

\* The builders are interchangeable; not used with liveness.
Symmetry == Permutations(TwoBuilders)

=============================================================================
