---------------------------- MODULE MCQualityGate ----------------------------
(***************************************************************************)
(* Two heights.  Height 0 has block base, of a coinbase only.  Height 1    *)
(* has, at one time or another, block child on top of base, which spends   *)
(* base's coinbase and an output of a block that is never loaded; block    *)
(* stray on top of a block that is not base; and block forged, which the   *)
(* server tells wrongly: it has no coinbase, and its fee does not add up.   *)
(***************************************************************************)
EXTENDS QualityGate

CONSTANTS base, child, stray, forged, other, v1

MCHeights  == {0, 1}
MCHashes   == {base, child, stray, forged, other}
MCHashesAt == [h \in MCHeights |-> IF h = 0 THEN {base} ELSE {child, stray, forged}]
MCSize     == [x \in MCHashes |-> IF x = child THEN 2 ELSE 1]
MCPrev     == [x \in MCHashes |-> IF x \in {child, forged} THEN base ELSE other]
MCForged   == {forged}

\* The position stands for 2^32 - 1, which is beyond TLC's integers.
CoinbaseInput ==
    [txid |-> "zeros", vout |-> 65535, value |-> NoValue, coinbase |-> TRUE]

Spends(txid, vout, value) ==
    [txid |-> txid, vout |-> vout, value |-> value, coinbase |-> FALSE]

Transaction(txid, vin, vout, fee) ==
    [txid |-> txid, vin |-> vin, vout |-> vout, fee |-> fee, size |-> 2, weight |-> 5]

Coinbase(txid) == Transaction(txid, <<CoinbaseInput>>, <<50, 1>>, 0)

MCTx == [x \in MCHashes |->
    CASE x = base -> <<Coinbase("base reward")>>
      [] x = child -> <<Coinbase("child reward"),
                        Transaction("t", <<Spends("base reward", 0, 50),
                                           Spends("old", 3, 7)>>, <<30, 25>>, 2)>>
      [] x = stray -> <<Coinbase("stray reward")>>
      [] x = forged -> <<Transaction("u", <<Spends("base reward", 0, 50)>>, <<30>>, 2)>>
      [] x = other -> <<Coinbase("other reward")>>]

MCValidators == {v1}

Window(lo, hi) == [lo |-> lo, hi |-> hi]

\* The last one is empty.
MCWindows == {Window(0, 1), Window(1, 1), Window(1, 0)}

\* Bound: only the block at height 1 may come without a count.
BaseIsCounted == raw[0] # NoDir => raw[0][BlockJson].reported # NoCount

=============================================================================
