------------------------------ MODULE Warehouse ------------------------------
(***************************************************************************)
(* What the RAW tables promise the models built on them: a partition comes *)
(* in whole and in one step, updating the rows it finds by their natural   *)
(* keys, and only from a range that has cleared the quality gate           *)
(* (snowflake_loader.py:83-84).                                            *)
(***************************************************************************)
EXTENDS RawTables

CONSTANTS
    OperatorDeletes,    \* whether an operator ever deletes a raw directory
    ParquetDeleted      \* whether an operator ever deletes a data.parquet

VARIABLES
    raw,        \* raw[h]: the block directory of height h
    part,       \* part[d][h]: data.parquet of dataset d and height h
    table       \* table[d]: the RAW table of dataset d

Derived == INSTANCE DerivedStore

Init == Derived!Init /\ table = [d \in Datasets |-> {}]

Upsert(d, h) ==
    /\ part[d][h] # NoFile
    /\ \E w \in Windows : h \in w.lo..w.hi /\ Cleared(part, w)
    /\ table' = [table EXCEPT ![d] = Merge(d, @, FileRows(d, h, part[d][h]))]
    /\ UNCHANGED <<raw, part>>

Next ==
    \/ Derived!Next /\ UNCHANGED table
    \/ \E d \in Datasets, h \in Heights : Upsert(d, h)

Spec == Init /\ [][Next]_<<raw, part, table>>

=============================================================================
