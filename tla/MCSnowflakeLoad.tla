--------------------------- MODULE MCSnowflakeLoad ---------------------------
(***************************************************************************)
(* One height with a block of one transaction, fetched whole or short,     *)
(* with a count or without; or a range of two heights, whose upper one has *)
(* a block on top of the lower one's, or after a reorganisation a block    *)
(* that is not.                                                            *)
(***************************************************************************)
EXTENDS SnowflakeLoad, TLC

CONSTANTS b0, child, stray, other, l1, l2

MCHeights  == {0}
MCHashes   == {b0}
MCHashesAt == [h \in MCHeights |-> {b0}]
MCSize     == [b \in MCHashes |-> 1]
MCPrev     == [b \in MCHashes |-> b]

MCTx == [b \in MCHashes |->
    <<[txid |-> "reward",
       vin  |-> <<[txid |-> "zeros", vout |-> 65535, value |-> NoValue, coinbase |-> TRUE]>>,
       vout |-> <<50, 1>>, fee |-> 0, size |-> 2, weight |-> 5]>>]

\* The last one is empty.
MCWindows == {[lo |-> 0, hi |-> 0], [lo |-> 1, hi |-> 0]}

RangeHeights  == {0, 1}
RangeHashes   == {b0, child, stray, other}
RangeHashesAt == [h \in RangeHeights |-> IF h = 0 THEN {b0} ELSE {child, stray}]
RangeSize     == [b \in RangeHashes |-> 1]
RangePrev     == [b \in RangeHashes |-> IF b = child THEN b0 ELSE other]

\* One coinbase each; the txid stands for the block.
RangeTx == [b \in RangeHashes |->
    <<[txid |-> CASE b = b0 -> "base" [] b = child -> "child" [] OTHER -> "other",
       vin  |-> <<[txid |-> "zeros", vout |-> 65535, value |-> NoValue, coinbase |-> TRUE]>>,
       vout |-> <<50, 1>>, fee |-> 0, size |-> 2, weight |-> 5]>>]

RangeWindows == {[lo |-> 0, hi |-> 1]}

OneLoader  == {l1}
TwoLoaders == {l1, l2}

\* Bounds: blocks come whole and with their counts, and a load begins when
\* the repair is over.
FetchedWell ==
    \A h \in Heights : raw[h] # NoDir =>
        \E b \in HashesAt[h] : \A file \in DOMAIN raw[h] :
            raw[h][file] = Contents(FetchOf(b, BlockTxs(b), Size[b]), file)

LoadedAfterwards == \A l \in Loaders : pc[l] # "start" => BuiltInFull(window[l])

Symmetry == Permutations(TwoLoaders)

=============================================================================
