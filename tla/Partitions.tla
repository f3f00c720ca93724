------------------------------ MODULE Partitions ------------------------------
(***************************************************************************)
(* The derived data: for every height one data.parquet in each of four     *)
(* datasets, and which parts of a raw block its rows are computed from.    *)
(***************************************************************************)
EXTENDS Blocks

CONSTANT NoFile     \* there is no data.parquet; nothing has been read

\* In the order of rows_by_dataset.
DatasetOrder == <<"blocks", "transactions", "inputs", "outputs">>
Datasets == {DatasetOrder[i] : i \in 1..4}

\* The datasets that are written before d.
Before(d) ==
    {DatasetOrder[i] : i \in {j \in 1..4 : \E k \in (j + 1)..4 : DatasetOrder[k] = d}}

\* The rows of dataset d for a block and a list of transactions (flatten.py):
\* one row per block, transaction, input or output, transactions with the
\* hash of the block, inputs and outputs with nothing but its height.
Rows(d, b, ts) ==
    CASE d = "blocks"       -> b
      [] d = "transactions" -> [hash |-> b.hash, txs |-> ts]
      [] d = "inputs"       -> ts
      [] d = "outputs"      -> ts

\* The rows of dataset d that a raw directory stands for.
RowsOf(d, dir) == Rows(d, dir[BlockJson], dir[TxsJsonl])

\* Everything that a read can return and a computation can produce.
BlockJsons == UNION {{Contents(f, BlockJson) : f \in Fetches(h)} : h \in Heights}
TxLists == UNION {{Contents(f, TxsJsonl) : f \in Fetches(h)} : h \in Heights}
RowSet(d) == {Rows(d, b, ts) : b \in BlockJsons, ts \in TxLists}

\* Nothing that is computed is the absence of a file.
ASSUME NoFileAssumption == \A d \in Datasets : NoFile \notin RowSet(d)

=============================================================================
