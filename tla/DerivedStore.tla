----------------------------- MODULE DerivedStore -----------------------------
(***************************************************************************)
(* What data/parquet promises its readers (parquet_build.py: "a height's   *)
(* Parquet partitions are a pure function of already-complete raw data"):  *)
(* a file appears in one step, as if computed at that moment from the raw  *)
(* block of its height, and only if that block is complete, and the four   *)
(* files of a block appear in order.  A file may be deleted and computed   *)
(* again at any time.                                                      *)
(***************************************************************************)
EXTENDS Partitions

CONSTANTS
    OperatorDeletes,    \* whether an operator ever deletes a raw directory
    ParquetDeleted      \* whether an operator ever deletes a data.parquet

VARIABLES
    raw,    \* raw[h]: the block directory of height h
    part    \* part[d][h]: data.parquet of dataset d and height h

Store == INSTANCE BlockStore

Init ==
    /\ raw = [h \in Heights |-> NoDir]
    /\ part = [d \in Datasets |-> [h \in Heights |-> NoFile]]

\* What comes before d is there, from the same block, unless it has been
\* deleted again.
Derive(d, h) ==
    /\ IsComplete(raw[h])
    /\ \A e \in Before(d) :
         \/ part[e][h] = RowsOf(e, raw[h])
         \/ ParquetDeleted /\ part[e][h] = NoFile
    /\ part' = [part EXCEPT ![d][h] = RowsOf(d, raw[h])]
    /\ UNCHANGED raw

Remove(d, h) ==
    /\ ParquetDeleted
    /\ part[d][h] # NoFile
    /\ part' = [part EXCEPT ![d][h] = NoFile]
    /\ UNCHANGED raw

Next ==
    \/ Store!Next /\ UNCHANGED part
    \/ \E d \in Datasets, h \in Heights : Derive(d, h) \/ Remove(d, h)

Spec == Init /\ [][Next]_<<raw, part>>

=============================================================================
