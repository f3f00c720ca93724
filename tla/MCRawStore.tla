----------------------------- MODULE MCRawStore -----------------------------
(***************************************************************************)
(* Two invocations on two heights; where MCHashesAt is used, block b2 may  *)
(* have replaced b1 at height 0 between two fetches.                       *)
(***************************************************************************)
EXTENDS FetchBlocks, TLC

CONSTANTS b1, b2, b3, p1, p2

MCHeights  == {0, 1}
MCHashes   == {b1, b2, b3}
MCHashesAt == [h \in MCHeights |-> IF h = 0 THEN {b1, b2} ELSE {b3}]
OneBlockEach == [h \in MCHeights |-> IF h = 0 THEN {b1} ELSE {b3}]
MCSize     == [b \in MCHashes |-> 1]
MCProcs    == {p1, p2}

FetchBlock(h, f)       == [tool |-> "fetch_block", lo |-> h, hi |-> h, force |-> f]
FetchBlocks(lo, hi, f) == [tool |-> "fetch_blocks", lo |-> lo, hi |-> hi, force |-> f]

\* From two blocks below the tip; --start-height 0 --end-height 1; and
\* --start-height 1 --count 0, an empty range.
Options(start, end, count) ==
    [start |-> start, end |-> end, count |-> count, behind |-> Unset]

FromTip    == Options(Unset, Unset, Unset)
Explicit   == Options(0, 1, Unset)
None       == Options(1, Unset, 0)
MCCommands == {FromTip, Explicit, None}
MCTips     == {3}

AllJobs ==
    { FetchBlock(0, FALSE), FetchBlock(0, TRUE) }
    \cup { Resolve(c, 3, f) : c \in {FromTip, Explicit}, f \in BOOLEAN }
    \cup { Resolve(None, 3, FALSE) }

\* Bound: only the block at height 0 may come without a count.
LastIsCounted == raw[1] # NoDir => raw[1][BlockJson].reported # NoCount

\* A short range, for the run with an operator who deletes.
OneHeightJobs == { FetchBlock(0, FALSE), FetchBlocks(0, 0, TRUE) }

\* The invocations are interchangeable; not used with liveness.
Symmetry == Permutations(MCProcs)

=============================================================================
