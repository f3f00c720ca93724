--------------------------------- MODULE Dbt ---------------------------------
(***************************************************************************)
(* The dbt project on top of the RAW tables: each core model is a table of *)
(* its own, built from RAW (through a staging view that only renames) at a *)
(* moment of its own while loads go on, and the tests are queries over the *)
(* four core tables.  RAW behaves as Warehouse says, which SnowflakeLoad   *)
(* implements.  Tests of columns that nothing else refers to are left out. *)
(***************************************************************************)
EXTENDS RawTables

CONSTANTS
    OperatorDeletes,    \* whether an operator ever deletes a raw directory
    ParquetDeleted      \* whether an operator ever deletes a data.parquet

VARIABLES
    raw,        \* raw[h]: the block directory of height h
    part,       \* part[d][h]: data.parquet of dataset d and height h
    table,      \* table[d]: the RAW table of dataset d
    core        \* core[d]: the core model of dataset d

RAW == INSTANCE Warehouse

vars == <<raw, part, table, core>>

\* There is a highest block.
ASSUME TipAssumption == \E tip \in Heights : \A h \in Heights : h <= tip

TypeOK ==
    /\ DOMAIN raw = Heights
    /\ \A h \in Heights : raw[h] \in DirectoriesAt(h) \cup {NoDir}
    /\ DOMAIN part = Datasets /\ DOMAIN table = Datasets /\ DOMAIN core = Datasets
    /\ \A d \in Datasets :
         /\ part[d] \in [Heights -> RowSet(d) \cup {NoFile}]
         /\ Content(table[d]) \cup Content(core[d]) \subseteq RowsIn(d)

Init == RAW!Init /\ core = [d \in Datasets |-> {}]

\* dbt run, one model after another: CREATE OR REPLACE TABLE ... AS SELECT.
BuildModel(d) ==
    /\ core' = [core EXCEPT ![d] = table[d]]
    /\ UNCHANGED <<raw, part, table>>

RawChanges == RAW!Next /\ UNCHANGED core

Next == RawChanges \/ \E d \in Datasets : BuildModel(d)

Spec == Init /\ [][Next]_vars

-----------------------------------------------------------------------------
(* dbt test.                                                               *)

\* unique: block_id, txid, input_id, output_id.
UniqueIds(M) == \A d \in Datasets : Unique(M[d], LAMBDA e : Key(d, e.row))

\* With prev_txid as a relationship too, which outputs of earlier blocks
\* that were never loaded do not satisfy.
RelationshipsToSpent(M) ==
    \A i \in M.inputs : i.row.coinbase \/
        \E t \in M.transactions : t.row.txid = i.row.prevTxid

\* relationships
Relationships(M) ==
    /\ \A t \in M.transactions : \E b \in M.blocks : b.row.height = t.row.height
    /\ \A d \in {"inputs", "outputs"} : \A e \in M[d] :
          \E t \in M.transactions : t.row.txid = e.row.txid

\* not_null and nonnegative
ColumnTests(T) ==
    /\ \A b \in T.blocks : b.count # NoCount => b.count >= 0
    /\ \A t \in T.transactions : t.index >= 0 /\ (t.coinbase \/ t.fee >= 0)
    /\ \A i \in T.inputs :
          /\ i.coinbase \/ NoValue \notin {i.prevTxid, i.prevVout}
          /\ i.value = NoValue \/ i.value >= 0
    /\ \A o \in T.outputs : o.value >= 0

\* assert_block_tx_counts_match with an inner join: blocks without any
\* transaction drop out.
LoadedTxCountsMatch(M) ==
    \A b \in M.blocks :
        LET txs == {t \in M.transactions : t.row.height = b.row.height}
        IN  b.row.count = NoCount \/ txs = {} \/ b.row.count = Cardinality(txs)

\* assert_block_tx_counts_match: grouped by height and count, so that two
\* blocks of one height that report the same count are counted together.
BlockTxCountsMatch(M) ==
    \A b \in M.blocks :
        \/ b.row.count = NoCount
        \/ b.row.count = Cardinality(
              {c \in M.blocks : c.row.height = b.row.height /\ c.row.count = b.row.count}
              \X {t \in M.transactions : t.row.height = b.row.height})

\* assert_one_coinbase_per_block: of the blocks that have one.
OneCoinbase(T) ==
    \A t, u \in T.transactions :
        t.coinbase /\ u.coinbase /\ t.height = u.height => t = u

\* The other three mirror checks of validate.py, without a window.
TestsPass(M) ==
    LET T    == [d \in Datasets |-> Content(M[d])]
        last == Max(Heights)
    IN  /\ UniqueIds(M) /\ Relationships(M) /\ ColumnTests(T)
        /\ BlockTxCountsMatch(M) /\ OneCoinbase(T)
        /\ FeeArithmetic(T, 0, last)
        /\ InternalInputsResolveUniquely(T, 0, last)
        /\ VsizeFormula(T, 0, last)

-----------------------------------------------------------------------------
(* Properties.                                                             *)

\* A green dbt test means that the transactions of every block in the core
\* models are exactly those of the block on the chain, although models are
\* built one after another during loads that may be partial, and although a
\* load of one height can take a transaction from another (MERGE on txid).
\* Only where nobody deletes files by hand: rows of a block that is replaced
\* stay in the tables, because MERGE never deletes.
GreenMeansWholeBlocks ==
    ~OperatorDeletes /\ ~ParquetDeleted /\ TestsPass(core) =>
        \A b \in Content(core.blocks) : b.count # NoCount =>
            {t \in Content(core.transactions) : t.height = b.height} =
               FlattenTransactions(b.height, b.hash, BlockTxs(b.hash))

\* What the quality gate lets through, the dbt tests that mirror its checks
\* do not stop: with one sound range loaded in full and nothing else, they
\* are green.  That inputs belong to loaded transactions is tested here only;
\* it holds because nobody has deleted or replaced a file.
TestsAgreeWithGate ==
    ~OperatorDeletes /\ ~ParquetDeleted => \A w \in Windows :
        /\ PartitionsComplete(part, w)
        /\ \A d \in Datasets :
             core[d] = {Entry(r, 1) : r \in
                          UNION {FileRows(d, h, part[d][h]) : h \in w.lo..w.hi}}
        /\ AllChecksPass(TablesOf(part), w.lo, w.hi)
        => TestsPass(core)

-----------------------------------------------------------------------------
(* The invariant behind them: without deletions every row in RAW and in    *)
(* the core models is one that a file on disk still has, and every file is *)
(* that of the raw block of its height.                                    *)

RowsOnDisk(M) ==
    \A d \in Datasets : \A e \in M[d] : \E h \in Heights :
        part[d][h] # NoFile /\ e.row \in FileRows(d, h, part[d][h])

KeptInv ==
    ~OperatorDeletes /\ ~ParquetDeleted =>
        FilesKept(raw, part) /\ RowsOnDisk(table) /\ RowsOnDisk(core)

=============================================================================
