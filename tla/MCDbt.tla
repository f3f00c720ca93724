-------------------------------- MODULE MCDbt --------------------------------
(***************************************************************************)
(* Two heights.  Height 0 has block base, of a coinbase only; height 1 has *)
(* block child, which spends it, or block twin, whose coinbase has the     *)
(* txid of base's, as happened before BIP 34.                              *)
(***************************************************************************)
EXTENDS Dbt

CONSTANTS base, child, twin

MCHeights  == {0, 1}
MCHashes   == {base, child, twin}
MCHashesAt == [h \in MCHeights |-> IF h = 0 THEN {base} ELSE {child, twin}]
MCSize     == [b \in MCHashes |-> IF b = child THEN 2 ELSE 1]
MCPrev     == [b \in MCHashes |-> base]

Transaction(txid, vin, vout, fee) ==
    [txid |-> txid, vin |-> vin, vout |-> vout, fee |-> fee, size |-> 2, weight |-> 5]

Coinbase(txid) ==
    Transaction(txid, <<[txid |-> "zeros", vout |-> 65535, value |-> NoValue,
                         coinbase |-> TRUE]>>, <<50>>, 0)

MCTx == [b \in MCHashes |->
    CASE b \in {base, twin} -> <<Coinbase("reward")>>
      [] b = child -> <<Coinbase("child reward"),
                        Transaction("t", <<[txid |-> "reward", vout |-> 0, value |-> 50,
                                            coinbase |-> FALSE]>>, <<30, 15>>, 5)>>]

MCWindows == {[lo |-> 0, hi |-> 1], [lo |-> 0, hi |-> 0], [lo |-> 1, hi |-> 1]}

\* Bound: nothing is loaded before all files are built.
BuiltFirst ==
    \A d \in Datasets : table[d] # {} =>
        \A e \in Datasets : Present(part, e) = MCHeights

=============================================================================
