--------------------------- MODULE MCEsploraFetch ---------------------------
(***************************************************************************)
(* Three blocks compete for one height: one whose size is a multiple of    *)
(* the page size, one whose size is not, and one with only a coinbase.     *)
(***************************************************************************)
EXTENDS EsploraFetch

CONSTANTS b1, b2, b3

MCHeights  == {0}
MCHashes   == {b1, b2, b3}
MCHashesAt == [h \in MCHeights |-> MCHashes]
MCSize     == [b \in MCHashes |-> CASE b = b1 -> 4 [] b = b2 -> 5 [] b = b3 -> 1]

=============================================================================
