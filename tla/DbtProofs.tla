------------------------------- MODULE DbtProofs -------------------------------
(***************************************************************************)
(* Proofs about Dbt, for every set of heights, blocks, transactions and    *)
(* windows.                                                                *)
(***************************************************************************)
EXTENDS Dbt, TablesProofs

-----------------------------------------------------------------------------
(* Warehouse has its own copies of what it shares with Dbt.                *)

LEMMA SameRawRows ==
    /\ RAW!Datasets = Datasets
    /\ \A d, h, file : RAW!FileRows(d, h, file) = FileRows(d, h, file)
    /\ \A d, T, rows : RAW!Merge(d, T, rows) = Merge(d, T, rows)
<1>1. RAW!Datasets = Datasets
  BY DEF Datasets, RAW!Datasets, DatasetOrder, RAW!DatasetOrder
<1>2. \A d, h, file : RAW!FileRows(d, h, file) = FileRows(d, h, file)
  BY DEF FileRows, RAW!FileRows, FlattenBlock, RAW!FlattenBlock,
         FlattenTransactions, RAW!FlattenTransactions, FlattenInputs, RAW!FlattenInputs,
         FlattenOutputs, RAW!FlattenOutputs, TxOf, RAW!TxOf, IsCoinbase, RAW!IsCoinbase,
         vsizeFromWeight, RAW!vsizeFromWeight
<1>3. \A d, row : RAW!Key(d, row) = Key(d, row)
  BY DEF Key, RAW!Key
<1>4. \A d, T, row : RAW!Matches(d, T, row) = Matches(d, T, row)
  BY <1>3 DEF Matches, RAW!Matches
<1>5. \A d, T, rows : /\ RAW!Updated(d, T, rows) = Updated(d, T, rows)
                      /\ RAW!Inserted(d, T, rows) = Inserted(d, T, rows)
                      /\ RAW!Untouched(d, T, rows) = Untouched(d, T, rows)
  BY <1>3, <1>4 DEF Updated, RAW!Updated, Inserted, RAW!Inserted, Untouched,
                    RAW!Untouched, Entry, RAW!Entry
<1>6. \A d, T, rows : RAW!Merge(d, T, rows) = Merge(d, T, rows)
  BY <1>5 DEF Merge, RAW!Merge
<1> QED
  BY <1>1, <1>2, <1>6

LEMMA SameRawFileData ==
    /\ \A dir : RAW!Derived!IsComplete(dir) = IsComplete(dir)
    /\ \A d, dir : RAW!Derived!RowsOf(d, dir) = RowsOf(d, dir)
    /\ RAW!Derived!Datasets = Datasets
    /\ \A h : RAW!Derived!Store!Fetches(h) = Fetches(h)
    /\ \A f : RAW!Derived!Store!Directory(f) = Directory(f)
BY DEF RAW!Derived!IsComplete, RAW!Derived!CountsAgree, RAW!Derived!RequiredFiles,
       RAW!Derived!BlockJson, RAW!Derived!TxsJsonl, RAW!Derived!MetaJson,
       RAW!Derived!RowsOf, RAW!Derived!Rows, RAW!Derived!Datasets,
       RAW!Derived!DatasetOrder, RAW!Derived!Store!Fetches, RAW!Derived!Store!FetchOf,
       RAW!Derived!Store!FirstTxs, RAW!Derived!Store!Reports,
       RAW!Derived!Store!Directory, RAW!Derived!Store!Part,
       RAW!Derived!Store!Contents, RAW!Derived!Store!RequiredFiles,
       RAW!Derived!Store!BlockJson, RAW!Derived!Store!TxsJsonl,
       RAW!Derived!Store!MetaJson,
       IsComplete, CountsAgree, RequiredFiles, BlockJson, TxsJsonl, MetaJson, RowsOf, Rows,
       Datasets, DatasetOrder, Fetches, FetchOf, FirstTxs, Reports, Directory, Part, Contents

LEMMA DerivedSteps ==
    RAW!Derived!Next => FilesStep(raw, part, raw', part', OperatorDeletes, ParquetDeleted)
BY SameRawFileData
   DEF FilesStep, RAW!Derived!Next, RAW!Derived!Derive, RAW!Derived!Remove,
       RAW!Derived!Store!Next, RAW!Derived!Store!Publish, RAW!Derived!Store!Free,
       RAW!Derived!Store!OperatorRemoves

\* The steps of RAW.
LEMMA RawSteps ==
    ASSUME RawChanges
    PROVE  /\ UNCHANGED core
           /\ \/ UNCHANGED table
                 /\ FilesStep(raw, part, raw', part', OperatorDeletes, ParquetDeleted)
              \/ /\ UNCHANGED <<raw, part>>
                 /\ \E d \in Datasets, h \in Heights :
                      /\ part[d][h] # NoFile
                      /\ table' = [table EXCEPT ![d] =
                                      Merge(d, table[d], FileRows(d, h, part[d][h]))]
BY SameRawRows, DerivedSteps DEF RawChanges, RAW!Next, RAW!Upsert

-----------------------------------------------------------------------------
(* The type invariant, and where the rows come from.                       *)

LEMMA InitInv == Init => TypeOK /\ KeptInv
<1> SUFFICES ASSUME Init PROVE TypeOK /\ KeptInv
  OBVIOUS
<1>1. /\ raw = [h \in Heights |-> NoDir]
      /\ part = [d \in Datasets |-> [h \in Heights |-> NoFile]]
      /\ table = [d \in Datasets |-> {}] /\ core = [d \in Datasets |-> {}]
  BY SameRawRows, SameRawFileData DEF Init, RAW!Init, RAW!Derived!Init
<1>2. TypeOK
  BY <1>1 DEF TypeOK, Content
<1>3. KeptInv
  BY <1>1 DEF KeptInv, FilesKept, RowsOnDisk
<1> QED
  BY <1>2, <1>3

LEMMA NextTyped == TypeOK /\ [Next]_vars => TypeOK'
<1> SUFFICES ASSUME TypeOK, [Next]_vars PROVE TypeOK'
  OBVIOUS
<1>0. FilesTyped(raw, part)
  BY DEF TypeOK, FilesTyped
<1>1. CASE RawChanges
  <2>1. CASE UNCHANGED table
             /\ FilesStep(raw, part, raw', part', OperatorDeletes, ParquetDeleted)
    <3>1. FilesTyped(raw', part')
      BY <1>0, <2>1, FilesStayTyped
    <3> QED
      BY <1>1, <2>1, <3>1, RawSteps DEF TypeOK, FilesTyped
  <2>2. CASE /\ UNCHANGED <<raw, part>>
             /\ \E d \in Datasets, h \in Heights :
                  /\ part[d][h] # NoFile
                  /\ table' = [table EXCEPT ![d] =
                                  Merge(d, table[d], FileRows(d, h, part[d][h]))]
    <3>1. PICK d \in Datasets, h \in Heights :
            /\ part[d][h] # NoFile
            /\ table' = [table EXCEPT ![d] = Merge(d, table[d], FileRows(d, h, part[d][h]))]
      BY <2>2
    <3>2. part[d][h] \in RowSet(d)
      BY <3>1 DEF TypeOK
    <3>3. FileRows(d, h, part[d][h]) \subseteq RowsIn(d)
      BY <3>2 DEF RowsIn
    <3>4. Content(Merge(d, table[d], FileRows(d, h, part[d][h]))) \subseteq RowsIn(d)
      BY <3>3, MergedContent DEF TypeOK
    <3> QED
      BY <1>1, <2>2, <3>1, <3>4, RawSteps DEF TypeOK
  <2> QED
    BY <1>1, <2>1, <2>2, RawSteps
<1>2. ASSUME NEW d \in Datasets, BuildModel(d) PROVE TypeOK'
  BY <1>2 DEF BuildModel, TypeOK
<1>3. CASE UNCHANGED vars
  BY <1>3 DEF vars, TypeOK
<1> QED
  BY <1>1, <1>2, <1>3 DEF Next

\* Tables and core models hold rows of files of their dataset.
THEOREM TypeCorrect == Spec => []TypeOK
<1>1. Init => TypeOK
  BY InitInv
<1> QED
  BY <1>1, NextTyped, PTL DEF Spec

LEMMA NextKept == TypeOK /\ KeptInv /\ [Next]_vars => KeptInv'
<1> SUFFICES ASSUME TypeOK, KeptInv, [Next]_vars, ~OperatorDeletes, ~ParquetDeleted
             PROVE  KeptInv'
  BY DEF KeptInv
<1>0. /\ FilesTyped(raw, part) /\ FilesKept(raw, part)
      /\ RowsOnDisk(table) /\ RowsOnDisk(core)
  BY DEF TypeOK, FilesTyped, KeptInv
<1>1. CASE /\ UNCHANGED <<table, core>>
           /\ FilesStep(raw, part, raw', part', OperatorDeletes, ParquetDeleted)
  <2>1. FilesGrow(raw, part, raw', part') /\ FilesKept(raw', part')
    BY <1>0, <1>1, FilesOnlyGrow
  <2> QED
    BY <1>0, <1>1, <2>1 DEF KeptInv, RowsOnDisk, FilesGrow
<1>2. ASSUME UNCHANGED <<raw, part, core>>, NEW d \in Datasets, NEW h \in Heights,
             part[d][h] # NoFile,
             table' = [table EXCEPT ![d] = Merge(d, table[d], FileRows(d, h, part[d][h]))]
      PROVE  KeptInv'
  <2>1. ASSUME NEW e \in Merge(d, table[d], FileRows(d, h, part[d][h]))
        PROVE  \E g \in Heights : part[d][g] # NoFile /\ e.row \in FileRows(d, g, part[d][g])
    <3>1. CASE e.row \in FileRows(d, h, part[d][h])
      BY <1>2, <3>1
    <3>2. CASE e.row \in Content(table[d])
      BY <1>0, <3>2 DEF Content, RowsOnDisk
    <3> QED
      BY <3>1, <3>2, MergedContent DEF Content
  <2>2. RowsOnDisk(table')
    BY <1>0, <1>2, <2>1 DEF RowsOnDisk, TypeOK
  <2> QED
    BY <1>0, <1>2, <2>2 DEF KeptInv, RowsOnDisk
<1>3. ASSUME NEW d \in Datasets, BuildModel(d) PROVE KeptInv'
  BY <1>0, <1>3 DEF BuildModel, KeptInv, RowsOnDisk, TypeOK
<1>4. CASE UNCHANGED vars
  BY <1>0, <1>4 DEF vars, KeptInv, RowsOnDisk
<1> QED
  BY <1>1, <1>2, <1>3, <1>4, RawSteps DEF Next

THEOREM InductiveInvariant == Spec => [](TypeOK /\ KeptInv)
<1>1. Init => TypeOK /\ KeptInv
  BY InitInv
<1>2. TypeOK /\ KeptInv /\ [Next]_vars => (TypeOK /\ KeptInv)'
  BY NextTyped, NextKept
<1> QED
  BY <1>1, <1>2, PTL DEF Spec

-----------------------------------------------------------------------------
(* Green tests mean whole blocks.                                          *)

\* What is on disk of a height whose count is known is its whole block.
LEMMA WholeOnDisk ==
    ASSUME NEW dirs, NEW files, FilesKept(dirs, files), NEW h \in Heights,
           files["blocks"][h] # NoFile, files["blocks"][h].reported # NoCount,
           files["transactions"][h] # NoFile
    PROVE  /\ files["transactions"][h].hash = files["blocks"][h].hash
           /\ files["transactions"][h].txs = BlockTxs(files["blocks"][h].hash)
BY DerivedFrom

\* One block row of a height and count, and as many transactions as it says:
\* then they are all that it has.
LEMMA CountedBlockIsWhole ==
    ASSUME NEW M, RowsOnDisk(M), FilesKept(raw, part), UniqueIds(M), BlockTxCountsMatch(M),
           NEW e \in M.blocks, e.row.count # NoCount
    PROVE  {t \in Content(M.transactions) : t.height = e.row.height} =
              FlattenTransactions(e.row.height, e.row.hash, BlockTxs(e.row.hash))
<1> DEFINE b == e.row
           h == b.height
           C == {c \in M.blocks : c.row.height = h /\ c.row.count = b.count}
           U == {t \in M.transactions : t.row.height = h}
           rows == {t \in Content(M.transactions) : t.height = h}
           whole == FlattenTransactions(h, b.hash, BlockTxs(b.hash))
<1>1. PICK g \in Heights : part["blocks"][g] # NoFile /\ b \in FileRows("blocks", g, part["blocks"][g])
  BY DatasetNames DEF RowsOnDisk
<1>2. /\ b = FlattenBlock(g, part["blocks"][g])
      /\ h = g /\ b.hash = part["blocks"][g].hash /\ b.count = part["blocks"][g].reported
  BY <1>1 DEF FileRows, FlattenBlock
<1>3. b.hash \in Hashes /\ b.count = Size[b.hash] /\ Size[b.hash] \in Nat
  BY <1>1, <1>2, DerivedFrom, SizeAssumption
<1>4. C = {e}
  <2>1. ASSUME NEW c \in C PROVE c = e
    <3>1. PICK k \in Heights : c.row \in FileRows("blocks", k, part["blocks"][k])
      BY DatasetNames DEF RowsOnDisk
    <3>2. c.row = FlattenBlock(k, part["blocks"][k]) /\ k = g
      BY <1>2, <3>1 DEF FileRows, FlattenBlock
    <3>3. c.row = e.row
      BY <1>2, <3>2
    <3> QED
      BY <3>3, DatasetNames DEF UniqueIds, Unique
  <2> QED
    BY <2>1
<1>5. rows \subseteq whole
  <2> SUFFICES ASSUME NEW t \in rows PROVE t \in whole
    OBVIOUS
  <2>1. PICK u \in M.transactions : t = u.row
    BY DEF Content
  <2>2. PICK k \in Heights : /\ part["transactions"][k] # NoFile
                            /\ t \in FileRows("transactions", k, part["transactions"][k])
    BY <2>1, DatasetNames DEF RowsOnDisk
  <2>3. k = g
    BY <1>2, <2>2, FileRowHeights, DatasetNames
  <2>4. /\ part["transactions"][g].hash = b.hash
        /\ part["transactions"][g].txs = BlockTxs(b.hash)
    BY <1>1, <1>2, <2>2, <2>3, WholeOnDisk
  <2> QED
    BY <1>2, <2>2, <2>3, <2>4 DEF FileRows
<1>6. IsFiniteSet(whole) /\ Cardinality(whole) = b.count
  BY <1>3, TransactionRows DEF BlockTxs, FirstTxs
<1> HIDE DEF whole
<1>7. rows = Content(U)
  BY DEF Content
<1>8. IsFiniteSet(U) /\ Cardinality(U) = Cardinality(rows)
  <2>1. \A t, u \in U : t.row = u.row => t = u
    BY DatasetNames DEF UniqueIds, Unique
  <2>2. IsFiniteSet(rows)
    BY <1>5, <1>6, FS_Subset
  <2> HIDE DEF U, rows
  <2> QED
    BY <1>7, <2>1, <2>2, EntriesCounted
<1>9. b.count = Cardinality(C \X U)
  BY DEF BlockTxCountsMatch
<1>10. Cardinality({e} \X U) = Cardinality(U)
  <2>1. IsFiniteSet({e}) /\ Cardinality({e}) = 1
    BY FS_Singleton
  <2>2. Cardinality({e} \X U) = Cardinality({e}) * Cardinality(U)
    BY <1>8, <2>1, FS_Product
  <2>3. Cardinality(U) \in Nat
    BY <1>8, FS_CardinalityType
  <2> QED
    BY <2>1, <2>2, <2>3
<1>11. Cardinality(rows) = Cardinality(whole)
  BY <1>4, <1>6, <1>8, <1>9, <1>10
<1> QED
  BY <1>5, <1>6, <1>11, FS_Subset DEF whole

\* Green tests mean that the transactions of every block in the core models
\* are exactly those of the block on the chain (dbt/tests, _core.yml).
THEOREM GreenIsWhole == Spec => []GreenMeansWholeBlocks
<1>1. KeptInv => GreenMeansWholeBlocks
  <2> SUFFICES ASSUME KeptInv, ~OperatorDeletes, ~ParquetDeleted, TestsPass(core),
                      NEW b \in Content(core.blocks), b.count # NoCount
               PROVE  {t \in Content(core.transactions) : t.height = b.height} =
                         FlattenTransactions(b.height, b.hash, BlockTxs(b.hash))
    BY DEF GreenMeansWholeBlocks
  <2>1. PICK e \in core.blocks : b = e.row
    BY DEF Content
  <2>2. UniqueIds(core) /\ BlockTxCountsMatch(core)
    BY DEF TestsPass
  <2>3. RowsOnDisk(core) /\ FilesKept(raw, part)
    BY DEF KeptInv
  <2> QED
    BY <2>1, <2>2, <2>3, CountedBlockIsWhole
<1> QED
  BY <1>1, InductiveInvariant, PTL

-----------------------------------------------------------------------------
(* What the gate accepts, the tests accept.                                *)

\* The checks that are mirrored without a window see the rows they are given.
LEMMA MirroredChecks ==
    ASSUME NEW T, NEW U, NEW lo, NEW hi, NEW a, NEW z,
           \A d \in {"transactions", "inputs", "outputs"} : In(U[d], a, z) = In(T[d], lo, hi)
    PROVE  /\ FeeArithmetic(T, lo, hi) => FeeArithmetic(U, a, z)
           /\ InternalInputsResolveUniquely(T, lo, hi) => InternalInputsResolveUniquely(U, a, z)
           /\ VsizeFormula(T, lo, hi) => VsizeFormula(U, a, z)
<1>1. /\ In(U.transactions, a, z) = In(T.transactions, lo, hi)
      /\ In(U.inputs, a, z) = In(T.inputs, lo, hi)
      /\ In(U.outputs, a, z) = In(T.outputs, lo, hi)
  OBVIOUS
<1>2. FeeArithmetic(T, lo, hi) => FeeArithmetic(U, a, z)
  BY <1>1 DEF FeeArithmetic, InputsOf, OutputsOf, OrdinaryInputs
<1>3. InternalInputsResolveUniquely(T, lo, hi) => InternalInputsResolveUniquely(U, a, z)
  BY <1>1 DEF InternalInputsResolveUniquely, OrdinaryInputs, Internal
<1>4. VsizeFormula(T, lo, hi) => VsizeFormula(U, a, z)
  BY <1>1 DEF VsizeFormula
<1> QED
  BY <1>2, <1>3, <1>4

\* One range, loaded in full and nothing else.
OnlyLoaded(w) ==
    \A d \in Datasets :
        core[d] = {Entry(r, 1) : r \in UNION {FileRows(d, h, part[d][h]) : h \in w.lo..w.hi}}

LEMMA LoadedRows ==
    ASSUME NEW w \in Windows, PartitionsComplete(part, w), OnlyLoaded(w), NEW d \in Datasets
    PROVE  /\ Content(core[d]) = In(TablesOf(part)[d], w.lo, w.hi)
           /\ core[d] = {Entry(r, 1) : r \in In(TablesOf(part)[d], w.lo, w.hi)}
           /\ \A e, f \in core[d] : e.row = f.row => e = f
<1>1. w.lo \in Nat /\ w.hi \in Nat
  BY WindowsAssumption
<1> DEFINE rows == In(TablesOf(part)[d], w.lo, w.hi)
<1>2. w.lo..w.hi \subseteq Present(part, d)
  BY DEF PartitionsComplete
<1>3. rows = UNION {FileRows(d, h, part[d][h]) : h \in w.lo..w.hi}
  <2>1. \A r : r \in rows <=> \E h \in w.lo..w.hi : r \in FileRows(d, h, part[d][h])
    BY <1>1, <1>2, WindowRows
  <2> HIDE DEF rows
  <2> QED
    BY <2>1
<1>4. core[d] = {Entry(r, 1) : r \in rows}
  BY <1>3 DEF OnlyLoaded
<1> HIDE DEF rows
<1>5. \A e \in core[d] : e.row \in rows /\ e = Entry(e.row, 1)
  BY <1>4 DEF Entry
<1>6. \A r \in rows : Entry(r, 1) \in core[d] /\ Entry(r, 1).row = r
  BY <1>4 DEF Entry
<1>7. Content(core[d]) = rows
  BY <1>5, <1>6 DEF Content
<1>8. \A e, f \in core[d] : e.row = f.row => e = f
  BY <1>5
<1> QED
  BY <1>4, <1>7, <1>8 DEF rows

LEMMA LoadedIdsUnique ==
    ASSUME NEW w \in Windows, PartitionsComplete(part, w), OnlyLoaded(w),
           AllChecksPass(TablesOf(part), w.lo, w.hi)
    PROVE  UniqueIds(core)
<1> DEFINE T == TablesOf(part)
<1>1. /\ NoDuplicateHeights(T, w.lo, w.hi) /\ TxidUnique(T, w.lo, w.hi)
      /\ InputIndexUnique(T, w.lo, w.hi) /\ OutputIndexUnique(T, w.lo, w.hi)
  BY Checks DEF AllChecksPass, NumChecks
<1> SUFFICES ASSUME NEW d \in Datasets, NEW e \in core[d], NEW f \in core[d],
                    Key(d, e.row) = Key(d, f.row)
             PROVE  e = f
  BY DEF UniqueIds, Unique
<1>2. e.row \in In(T[d], w.lo, w.hi) /\ f.row \in In(T[d], w.lo, w.hi)
  <2>1. Content(core[d]) = In(T[d], w.lo, w.hi)
    BY LoadedRows
  <2> QED
    BY <2>1 DEF Content
<1> HIDE DEF T
<1>3. e.row = f.row
  <2>1. CASE d = "blocks"
    BY <1>1, <1>2, <2>1 DEF Key, NoDuplicateHeights, Unique
  <2>2. CASE d = "transactions"
    BY <1>1, <1>2, <2>2 DEF Key, TxidUnique, Unique
  <2>3. CASE d = "inputs"
    BY <1>1, <1>2, <2>3 DEF Key, InputIndexUnique, Unique
  <2>4. CASE d = "outputs"
    BY <1>1, <1>2, <2>4 DEF Key, OutputIndexUnique, Unique
  <2> QED
    BY <2>1, <2>2, <2>3, <2>4, DatasetNames
<1> QED
  BY <1>3, LoadedRows

LEMMA LoadedRelationships ==
    ASSUME FilesKept(raw, part),
           NEW w \in Windows, PartitionsComplete(part, w), OnlyLoaded(w),
           AllChecksPass(TablesOf(part), w.lo, w.hi)
    PROVE  Relationships(core)
<1> DEFINE T == TablesOf(part)
<1>1. TxReferencesLoadedBlock(T, w.lo, w.hi) /\ OutputsReferenceValidTx(T, w.lo, w.hi)
  BY Checks DEF AllChecksPass, NumChecks
<1>2. \A d \in Datasets : /\ \A e \in core[d] : e.row \in In(T[d], w.lo, w.hi)
                         /\ \A r \in In(T[d], w.lo, w.hi) : \E e \in core[d] : e.row = r
  BY LoadedRows DEF Content
<1>3. ASSUME NEW t \in core.transactions
      PROVE  \E b \in core.blocks : b.row.height = t.row.height
  <2>1. t.row \in In(T.transactions, w.lo, w.hi)
    BY <1>2, DatasetNames
  <2>2. PICK b \in T.blocks : b.height = t.row.height
    BY <1>1, <2>1 DEF TxReferencesLoadedBlock
  <2>3. b \in In(T.blocks, w.lo, w.hi)
    BY <2>1, <2>2 DEF In
  <2> QED
    BY <1>2, <2>2, <2>3, DatasetNames
<1>4. ASSUME NEW o \in core.outputs
      PROVE  \E t \in core.transactions : t.row.txid = o.row.txid
  <2>1. o.row \in In(T.outputs, w.lo, w.hi)
    BY <1>2, DatasetNames
  <2>2. PICK t \in In(T.transactions, w.lo, w.hi) : t.txid = o.row.txid
    BY <1>1, <2>1 DEF OutputsReferenceValidTx
  <2> QED
    BY <1>2, <2>2, DatasetNames
<1>5. ASSUME NEW i \in core.inputs
      PROVE  \E t \in core.transactions : t.row.txid = i.row.txid
  <2>1. PICK h \in w.lo..w.hi : i.row \in FlattenInputs(h, part["inputs"][h])
    BY DatasetNames DEF OnlyLoaded, Entry, FileRows
  <2>2. /\ h \in Heights
        /\ part["inputs"][h] # NoFile /\ part["transactions"][h] # NoFile
    BY DatasetNames, WindowsAssumption DEF PartitionsComplete, Present
  <2>3. part["inputs"][h] = part["transactions"][h].txs
    BY <2>2, DerivedFrom
  <2>4. i.row \in FlattenInputs(h, part["transactions"][h].txs)
    BY <2>1, <2>3
  <2>5. PICK t \in FlattenTransactions(h, part["transactions"][h].hash,
                                       part["transactions"][h].txs) :
          t.txid = i.row.txid /\ t.height = h
    BY <2>4, RowsOfOneList
  <2>6. t \in FileRows("transactions", h, part["transactions"][h])
    BY <2>5 DEF FileRows
  <2>7. Entry(t, 1) \in core.transactions
    BY <2>6, DatasetNames DEF OnlyLoaded
  <2> QED
    BY <2>5, <2>7 DEF Entry
<1> QED
  BY <1>3, <1>4, <1>5 DEF Relationships

LEMMA LoadedCountsMatch ==
    ASSUME TypeOK, NEW w \in Windows, PartitionsComplete(part, w), OnlyLoaded(w),
           AllChecksPass(TablesOf(part), w.lo, w.hi)
    PROVE  BlockTxCountsMatch(core)
<1> DEFINE T == TablesOf(part)
<1>1. TxCountMatches(T, w.lo, w.hi) /\ NoDuplicateHeights(T, w.lo, w.hi)
  BY Checks DEF AllChecksPass, NumChecks
<1>2. /\ Content(core.blocks) = In(T.blocks, w.lo, w.hi)
      /\ \A e, f \in core.blocks : e.row = f.row => e = f
      /\ Content(core.transactions) = In(T.transactions, w.lo, w.hi)
      /\ \A e, f \in core.transactions : e.row = f.row => e = f
  BY LoadedRows, DatasetNames
<1>3. IsFiniteSet(In(T.transactions, w.lo, w.hi))
  BY WindowIsFinite, WindowsAssumption DEF TypeOK, FilesTyped
<1> SUFFICES ASSUME NEW b \in core.blocks, b.row.count # NoCount
             PROVE  b.row.count = Cardinality(
                      {c \in core.blocks : c.row.height = b.row.height /\ c.row.count = b.row.count}
                      \X {t \in core.transactions : t.row.height = b.row.height})
  BY DEF BlockTxCountsMatch
<1> DEFINE C == {c \in core.blocks : c.row.height = b.row.height /\ c.row.count = b.row.count}
           U == {t \in core.transactions : t.row.height = b.row.height}
           rows == {t \in In(T.transactions, w.lo, w.hi) : t.height = b.row.height}
<1> HIDE DEF T
<1>4. b.row \in In(T.blocks, w.lo, w.hi) /\ \A c \in C : c.row \in In(T.blocks, w.lo, w.hi)
  BY <1>2 DEF Content
<1>5. C = {b}
  <2>1. ASSUME NEW c \in C PROVE c = b
    <3>1. c.row = b.row
      BY <1>1, <1>4 DEF NoDuplicateHeights, Unique
    <3> QED
      BY <1>2, <3>1
  <2> QED
    BY <2>1
<1>6. b.row.count = Cardinality(rows)
  BY <1>1, <1>4 DEF TxCountMatches
<1>7. rows = Content(U)
  BY <1>2 DEF Content
<1>8. IsFiniteSet(U) /\ Cardinality(U) = Cardinality(rows)
  <2>1. IsFiniteSet(rows)
    BY <1>3, FS_Subset
  <2>2. \A t, u \in U : t.row = u.row => t = u
    BY <1>2
  <2> HIDE DEF U, rows
  <2> QED
    BY <1>7, <2>1, <2>2, EntriesCounted
<1>9. Cardinality({b} \X U) = Cardinality(U)
  <2>1. IsFiniteSet({b}) /\ Cardinality({b}) = 1
    BY FS_Singleton
  <2>2. Cardinality({b} \X U) = Cardinality({b}) * Cardinality(U)
    BY <1>8, <2>1, FS_Product
  <2>3. Cardinality(U) \in Nat
    BY <1>8, FS_CardinalityType
  <2> QED
    BY <2>1, <2>2, <2>3
<1> QED
  BY <1>5, <1>6, <1>8, <1>9

LEMMA LoadedCoinbases ==
    ASSUME TypeOK, NEW w \in Windows, PartitionsComplete(part, w), OnlyLoaded(w),
           AllChecksPass(TablesOf(part), w.lo, w.hi)
    PROVE  OneCoinbase([d \in Datasets |-> Content(core[d])])
<1> DEFINE rows == In(TablesOf(part).transactions, w.lo, w.hi)
           T == [d \in Datasets |-> Content(core[d])]
<1>1. ExactlyOneCoinbase(TablesOf(part), w.lo, w.hi)
  BY Checks DEF AllChecksPass, NumChecks
<1>2. T.transactions = rows
  BY LoadedRows, DatasetNames
<1>3. IsFiniteSet(rows)
  BY WindowIsFinite, WindowsAssumption DEF TypeOK, FilesTyped
<1> SUFFICES ASSUME NEW t \in rows, NEW u \in rows, t.coinbase, u.coinbase, t.height = u.height
             PROVE  t = u
  BY <1>2 DEF OneCoinbase
<1> DEFINE mined == {v \in rows : v.height = t.height /\ v.coinbase}
<1>4. Cardinality(mined) = 1
  BY <1>1 DEF ExactlyOneCoinbase
<1>5. IsFiniteSet(mined)
  BY <1>3, FS_Subset
<1>6. t \in mined /\ u \in mined
  OBVIOUS
<1> HIDE DEF mined
<1> QED
  BY <1>4, <1>5, <1>6, FS_Singleton

LEMMA LoadedColumns ==
    ASSUME FilesKept(raw, part),
           NEW w \in Windows, PartitionsComplete(part, w), OnlyLoaded(w),
           AllChecksPass(TablesOf(part), w.lo, w.hi)
    PROVE  ColumnTests([d \in Datasets |-> Content(core[d])])
<1> DEFINE P == TablesOf(part)
           T == [d \in Datasets |-> Content(core[d])]
<1>1. /\ TxIndexNonnegative(P, w.lo, w.hi) /\ FeesNonnegative(P, w.lo, w.hi)
      /\ OrdinaryInputsHavePrevRef(P, w.lo, w.hi) /\ PrevOutputValueNonnegative(P, w.lo, w.hi)
      /\ OutputValueNonnegative(P, w.lo, w.hi)
  BY Checks DEF AllChecksPass, NumChecks
<1>2. /\ T.blocks = In(P.blocks, w.lo, w.hi) /\ T.transactions = In(P.transactions, w.lo, w.hi)
      /\ T.inputs = In(P.inputs, w.lo, w.hi) /\ T.outputs = In(P.outputs, w.lo, w.hi)
  BY LoadedRows, DatasetNames
<1>3. ASSUME NEW b \in T.blocks, b.count # NoCount PROVE b.count >= 0
  <2>1. PICK h \in Present(part, "blocks") : b = FlattenBlock(h, part["blocks"][h])
    BY <1>2 DEF In, TablesOf
  <2>2. b.count = part["blocks"][h].reported /\ h \in Heights /\ part["blocks"][h] # NoFile
    BY <2>1 DEF FlattenBlock, Present
  <2>3. b.count \in Nat
    BY <1>3, <2>2, DerivedFrom
  <2> QED
    BY <2>3
<1>4. \A b \in T.blocks : b.count # NoCount => b.count >= 0
  BY <1>3
<1> HIDE DEF P, T
<1>5. \A t \in T.transactions : t.index >= 0 /\ (t.coinbase \/ t.fee >= 0)
  BY <1>1, <1>2 DEF TxIndexNonnegative, FeesNonnegative
<1>6. \A i \in T.inputs :
         /\ i.coinbase \/ NoValue \notin {i.prevTxid, i.prevVout}
         /\ i.value = NoValue \/ i.value >= 0
  BY <1>1, <1>2 DEF OrdinaryInputsHavePrevRef, PrevOutputValueNonnegative, OrdinaryInputs,
                    In
<1>7. \A o \in T.outputs : o.value >= 0
  BY <1>1, <1>2 DEF OutputValueNonnegative
<1>8. ColumnTests(T)
  BY <1>4, <1>5, <1>6, <1>7 DEF ColumnTests
<1> QED
  BY <1>8 DEF T

LEMMA LoadedMirrors ==
    ASSUME NEW w \in Windows, PartitionsComplete(part, w), OnlyLoaded(w),
           AllChecksPass(TablesOf(part), w.lo, w.hi)
    PROVE  LET T == [d \in Datasets |-> Content(core[d])]
               last == Max(Heights)
           IN  /\ FeeArithmetic(T, 0, last)
               /\ InternalInputsResolveUniquely(T, 0, last)
               /\ VsizeFormula(T, 0, last)
<1> DEFINE P == TablesOf(part)
           T == [d \in Datasets |-> Content(core[d])]
           last == Max(Heights)
<1>1. /\ FeeArithmetic(P, w.lo, w.hi) /\ InternalInputsResolveUniquely(P, w.lo, w.hi)
      /\ VsizeFormula(P, w.lo, w.hi)
  BY Checks DEF AllChecksPass, NumChecks
<1>2. last \in Heights /\ \A h \in Heights : last >= h
  <2>1. PICK tip \in Heights : \A h \in Heights : tip >= h
    BY TipAssumption, HeightsAssumption
  <2> QED
    BY <2>1 DEF Max
<1>3. w.lo..w.hi \subseteq 0..last
  BY <1>2, HeightsAssumption, WindowsAssumption
<1> HIDE DEF last
<1>4. \A d \in Datasets : T[d] = In(P[d], w.lo, w.hi)
  BY LoadedRows
<1> HIDE DEF P, T
<1>5. \A d \in Datasets : In(T[d], 0, last) = In(P[d], w.lo, w.hi)
  BY <1>3, <1>4 DEF In
<1>6. \A d \in {"transactions", "inputs", "outputs"} : In(T[d], 0, last) = In(P[d], w.lo, w.hi)
  BY <1>5, DatasetNames
<1>7. /\ FeeArithmetic(T, 0, last) /\ InternalInputsResolveUniquely(T, 0, last)
      /\ VsizeFormula(T, 0, last)
  BY <1>1, <1>6, MirroredChecks
<1> QED
  BY <1>7 DEF T, last

\* What the quality gate lets through, the dbt tests that mirror its checks
\* do not stop (dbt/tests, _core.yml, validate.py).
THEOREM GateIsEnough == Spec => []TestsAgreeWithGate
<1>1. TypeOK /\ KeptInv => TestsAgreeWithGate
  <2> SUFFICES ASSUME TypeOK, KeptInv, ~OperatorDeletes, ~ParquetDeleted,
                      NEW w \in Windows, PartitionsComplete(part, w), OnlyLoaded(w),
                      AllChecksPass(TablesOf(part), w.lo, w.hi)
               PROVE  TestsPass(core)
    BY DEF TestsAgreeWithGate, OnlyLoaded
  <2>1. FilesKept(raw, part)
    BY DEF KeptInv
  <2>2. UniqueIds(core) /\ Relationships(core) /\ BlockTxCountsMatch(core)
    BY <2>1, LoadedIdsUnique, LoadedRelationships, LoadedCountsMatch
  <2>3. LET T == [d \in Datasets |-> Content(core[d])]
        IN  ColumnTests(T) /\ OneCoinbase(T)
    BY <2>1, LoadedColumns, LoadedCoinbases
  <2> QED
    BY <2>2, <2>3, LoadedMirrors DEF TestsPass
<1> QED
  BY <1>1, InductiveInvariant, PTL

=============================================================================
