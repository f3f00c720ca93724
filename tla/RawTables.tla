------------------------------ MODULE RawTables ------------------------------
(***************************************************************************)
(* The four RAW tables of the warehouse (snowflake/setup.sql), which have  *)
(* no key that the database would enforce: a table is a set of entries, a  *)
(* row and which copy of the row it is.  The columns are those that the    *)
(* Parquet files have (Tables).                                            *)
(***************************************************************************)
EXTENDS QualityChecks

\* The rows in a data.parquet of dataset d and height h.
FileRows(d, h, file) ==
    CASE d = "blocks"       -> {FlattenBlock(h, file)}
      [] d = "transactions" -> FlattenTransactions(h, file.hash, file.txs)
      [] d = "inputs"       -> FlattenInputs(h, file)
      [] d = "outputs"      -> FlattenOutputs(h, file)

\* Every row that a file of dataset d can have.
RowsIn(d) == UNION {FileRows(d, h, file) : h \in Heights, file \in RowSet(d)}

\* key_columns
Key(d, row) ==
    CASE d = "blocks"       -> <<row.height, row.hash>>
      [] d = "transactions" -> <<row.txid>>
      [] d = "inputs"       -> <<row.txid, row.index>>
      [] d = "outputs"      -> <<row.txid, row.index>>

Entry(row, n) == [row |-> row, copy |-> n]

Content(table) == {e.row : e \in table}

Matches(d, table, row) == {e \in table : Key(d, e.row) = Key(d, row)}

\* COPY INTO the table itself.
CopyDirectly(d, table, rows) ==
    table \cup {Entry(r, 1 + Cardinality(Matches(d, table, r))) : r \in rows}

\* WHEN MATCHED THEN UPDATE
Updated(d, table, rows) ==
    UNION {{Entry(r, e.copy) : e \in Matches(d, table, r)} : r \in rows}

\* WHEN NOT MATCHED THEN INSERT
Inserted(d, table, rows) ==
    {Entry(r, 1) : r \in {s \in rows : Matches(d, table, s) = {}}}

\* Nothing is deleted.
Untouched(d, table, rows) ==
    {e \in table : \A r \in rows : Key(d, e.row) # Key(d, r)}

Merge(d, table, rows) ==
    Untouched(d, table, rows) \cup Updated(d, table, rows) \cup Inserted(d, table, rows)

=============================================================================
