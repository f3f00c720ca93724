----------------------------- MODULE TablesProofs -----------------------------
(***************************************************************************)
(* Lemmas about rows, files that appear while they are read, the checks of *)
(* QualityChecks and MERGE, for the proofs about the modules built on them.*)
(***************************************************************************)
EXTENDS RawTables, BlocksProofs, FunctionTheorems, FiniteSetTheorems

-----------------------------------------------------------------------------
(* Which rows a check depends on: those of the window, and of them only    *)
(* those of the datasets that the checks so far have read.                 *)

SameRows(d, T, U, lo, hi) == In(T[d], lo, hi) = In(U[d], lo, hi)

\* A smaller window sees the same rows too.
LEMMA InnerWindow ==
    ASSUME NEW X, NEW Y, NEW lo \in Nat, NEW hi \in Nat, In(X, lo, hi) = In(Y, lo, hi)
    PROVE  /\ In(X, lo + 1, hi) = In(Y, lo + 1, hi)
           /\ \A r : r.height \in lo..hi => (r \in X <=> r \in Y)
BY DEF In

\* The table of the checks, entry by entry.
LEMMA Checks ==
    ASSUME NEW T, NEW lo, NEW hi
    PROVE  /\ Check(1, T, lo, hi) <=> HeightsPresent(T, lo, hi)
           /\ Check(2, T, lo, hi) <=> NoDuplicateHeights(T, lo, hi)
           /\ Check(3, T, lo, hi) <=> NoDuplicateHashes(T, lo, hi)
           /\ Check(4, T, lo, hi) <=> TxCountMatches(T, lo, hi)
           /\ Check(5, T, lo, hi) <=> ExactlyOneCoinbase(T, lo, hi)
           /\ Check(6, T, lo, hi) <=> BlockHeightHashAgree(T, lo, hi)
           /\ Check(7, T, lo, hi) <=> ChainLinkageInternal(T, lo, hi)
           /\ Check(8, T, lo, hi) <=> TxidUnique(T, lo, hi)
           /\ Check(9, T, lo, hi) <=> TxReferencesLoadedBlock(T, lo, hi)
           /\ Check(10, T, lo, hi) <=> TxIndexNonnegative(T, lo, hi)
           /\ Check(11, T, lo, hi) <=> TxIndexUniquePerBlock(T, lo, hi)
           /\ Check(12, T, lo, hi) <=> TxHasInput(T, lo, hi)
           /\ Check(13, T, lo, hi) <=> TxHasOutput(T, lo, hi)
           /\ Check(14, T, lo, hi) <=> OrdinaryTxNoCoinbaseInput(T, lo, hi)
           /\ Check(15, T, lo, hi) <=> InputIndexUnique(T, lo, hi)
           /\ Check(16, T, lo, hi) <=> OrdinaryInputsHavePrevRef(T, lo, hi)
           /\ Check(17, T, lo, hi) <=> PrevOutputValueNonnegative(T, lo, hi)
           /\ Check(18, T, lo, hi) <=> InternalInputsResolveUniquely(T, lo, hi)
           /\ Check(19, T, lo, hi) <=> OutputIndexUnique(T, lo, hi)
           /\ Check(20, T, lo, hi) <=> OutputValueNonnegative(T, lo, hi)
           /\ Check(21, T, lo, hi) <=> OutputsReferenceValidTx(T, lo, hi)
           /\ Check(22, T, lo, hi) <=> FeeArithmetic(T, lo, hi)
           /\ Check(23, T, lo, hi) <=> FeesNonnegative(T, lo, hi)
           /\ Check(24, T, lo, hi) <=> SizePositive(T, lo, hi)
           /\ Check(25, T, lo, hi) <=> WeightPositive(T, lo, hi)
           /\ Check(26, T, lo, hi) <=> VsizeFormula(T, lo, hi)
           /\ Check(27, T, lo, hi) <=> WeightBoundedBySize(T, lo, hi)
BY DEF Check

LEMMA BlocksDecide ==
    ASSUME NEW T, NEW U, NEW lo \in Nat, NEW hi \in Nat,
           SameRows("blocks", T, U, lo, hi), NEW n \in {1, 2, 3, 7}
    PROVE  Check(n, T, lo, hi) => Check(n, U, lo, hi)
<1>1. In(T.blocks, lo, hi) = In(U.blocks, lo, hi)
  BY DEF SameRows
<1>2. /\ In(T.blocks, lo + 1, hi) = In(U.blocks, lo + 1, hi)
      /\ \A r : r.height \in lo..hi => (r \in T.blocks <=> r \in U.blocks)
  BY <1>1, InnerWindow
<1>3. HeightsPresent(T, lo, hi) => HeightsPresent(U, lo, hi)
  BY <1>2 DEF HeightsPresent
<1>4. NoDuplicateHeights(T, lo, hi) => NoDuplicateHeights(U, lo, hi)
  BY <1>1 DEF NoDuplicateHeights, Unique
<1>5. NoDuplicateHashes(T, lo, hi) => NoDuplicateHashes(U, lo, hi)
  BY <1>1 DEF NoDuplicateHashes, Unique
<1>6. ChainLinkageInternal(T, lo, hi) => ChainLinkageInternal(U, lo, hi)
  <2> SUFFICES ASSUME ChainLinkageInternal(T, lo, hi), NEW b \in In(U.blocks, lo + 1, hi)
               PROVE  \E prior \in U.blocks : prior.height = b.height - 1 /\ prior.hash = b.prev
    BY DEF ChainLinkageInternal
  <2>1. PICK prior \in T.blocks : prior.height = b.height - 1 /\ prior.hash = b.prev
    BY <1>2 DEF ChainLinkageInternal
  <2>2. prior.height \in lo..hi
    BY <2>1 DEF In
  <2> QED
    BY <2>1, <2>2, <1>2
<1> QED
  BY <1>3, <1>4, <1>5, <1>6, Checks

LEMMA TransactionsDecide ==
    ASSUME NEW T, NEW U, NEW lo \in Nat, NEW hi \in Nat,
           SameRows("blocks", T, U, lo, hi), SameRows("transactions", T, U, lo, hi),
           NEW n \in 1..11
    PROVE  Check(n, T, lo, hi) => Check(n, U, lo, hi)
<1>1. /\ In(T.blocks, lo, hi) = In(U.blocks, lo, hi)
      /\ In(T.transactions, lo, hi) = In(U.transactions, lo, hi)
  BY DEF SameRows
<1>2. \A r : r.height \in lo..hi => (r \in T.blocks <=> r \in U.blocks)
  BY <1>1, InnerWindow
<1>3. TxCountMatches(T, lo, hi) => TxCountMatches(U, lo, hi)
  BY <1>1 DEF TxCountMatches
<1>4. ExactlyOneCoinbase(T, lo, hi) => ExactlyOneCoinbase(U, lo, hi)
  BY <1>1 DEF ExactlyOneCoinbase
<1>5. BlockHeightHashAgree(T, lo, hi) => BlockHeightHashAgree(U, lo, hi)
  BY <1>1, <1>2 DEF BlockHeightHashAgree, In
<1>6. TxidUnique(T, lo, hi) => TxidUnique(U, lo, hi)
  BY <1>1 DEF TxidUnique, Unique
<1>7. TxReferencesLoadedBlock(T, lo, hi) => TxReferencesLoadedBlock(U, lo, hi)
  BY <1>1, <1>2 DEF TxReferencesLoadedBlock, In
<1>8. TxIndexNonnegative(T, lo, hi) => TxIndexNonnegative(U, lo, hi)
  BY <1>1 DEF TxIndexNonnegative
<1>9. TxIndexUniquePerBlock(T, lo, hi) => TxIndexUniquePerBlock(U, lo, hi)
  BY <1>1 DEF TxIndexUniquePerBlock, Unique
<1> QED
  BY <1>3, <1>4, <1>5, <1>6, <1>7, <1>8, <1>9, BlocksDecide, Checks

LEMMA WindowDecides ==
    ASSUME NEW T, NEW U, NEW lo \in Nat, NEW hi \in Nat,
           \A d \in Datasets : SameRows(d, T, U, lo, hi), NEW n \in 1..NumChecks
    PROVE  Check(n, T, lo, hi) => Check(n, U, lo, hi)
<1>1. Datasets = {"blocks", "transactions", "inputs", "outputs"}
  BY DEF Datasets, DatasetOrder
<1>2. /\ In(T.transactions, lo, hi) = In(U.transactions, lo, hi)
      /\ In(T.inputs, lo, hi) = In(U.inputs, lo, hi)
      /\ In(T.outputs, lo, hi) = In(U.outputs, lo, hi)
  BY <1>1 DEF SameRows
<1>3. CASE n \in 1..11
  BY <1>1, <1>3, TransactionsDecide
<1>4. CASE n \in 12..17
  <2>1. TxHasInput(T, lo, hi) => TxHasInput(U, lo, hi)
    BY <1>2 DEF TxHasInput
  <2>6. TxHasOutput(T, lo, hi) => TxHasOutput(U, lo, hi)
    BY <1>2 DEF TxHasOutput
  <2>2. OrdinaryTxNoCoinbaseInput(T, lo, hi) => OrdinaryTxNoCoinbaseInput(U, lo, hi)
    BY <1>2 DEF OrdinaryTxNoCoinbaseInput
  <2>3. InputIndexUnique(T, lo, hi) => InputIndexUnique(U, lo, hi)
    BY <1>2 DEF InputIndexUnique, Unique
  <2>4. OrdinaryInputsHavePrevRef(T, lo, hi) => OrdinaryInputsHavePrevRef(U, lo, hi)
    BY <1>2 DEF OrdinaryInputsHavePrevRef, OrdinaryInputs
  <2>5. PrevOutputValueNonnegative(T, lo, hi) => PrevOutputValueNonnegative(U, lo, hi)
    BY <1>2 DEF PrevOutputValueNonnegative
  <2> QED
    BY <1>4, <2>1, <2>2, <2>3, <2>4, <2>5, <2>6, Checks
<1>5. CASE n \in 18..22
  <2>1. InternalInputsResolveUniquely(T, lo, hi) => InternalInputsResolveUniquely(U, lo, hi)
    BY <1>2 DEF InternalInputsResolveUniquely, OrdinaryInputs, Internal
  <2>2. OutputIndexUnique(T, lo, hi) => OutputIndexUnique(U, lo, hi)
    BY <1>2 DEF OutputIndexUnique, Unique
  <2>3. OutputValueNonnegative(T, lo, hi) => OutputValueNonnegative(U, lo, hi)
    BY <1>2 DEF OutputValueNonnegative
  <2>4. OutputsReferenceValidTx(T, lo, hi) => OutputsReferenceValidTx(U, lo, hi)
    BY <1>2 DEF OutputsReferenceValidTx
  <2>5. FeeArithmetic(T, lo, hi) => FeeArithmetic(U, lo, hi)
    BY <1>2 DEF FeeArithmetic, InputsOf, OutputsOf, OrdinaryInputs
  <2> QED
    BY <1>5, <2>1, <2>2, <2>3, <2>4, <2>5, Checks
<1>6. CASE n \in 23..27
  <2>1. FeesNonnegative(T, lo, hi) => FeesNonnegative(U, lo, hi)
    BY <1>2 DEF FeesNonnegative
  <2>2. SizePositive(T, lo, hi) => SizePositive(U, lo, hi)
    BY <1>2 DEF SizePositive
  <2>3. WeightPositive(T, lo, hi) => WeightPositive(U, lo, hi)
    BY <1>2 DEF WeightPositive
  <2>4. VsizeFormula(T, lo, hi) => VsizeFormula(U, lo, hi)
    BY <1>2 DEF VsizeFormula
  <2>5. WeightBoundedBySize(T, lo, hi) => WeightBoundedBySize(U, lo, hi)
    BY <1>2 DEF WeightBoundedBySize
  <2> QED
    BY <1>6, <2>1, <2>2, <2>3, <2>4, <2>5, Checks
<1> QED
  BY <1>3, <1>4, <1>5, <1>6 DEF NumChecks

\* So do the figures.
LEMMA WindowIsCounted ==
    ASSUME NEW T, NEW U, NEW lo \in Nat, NEW hi \in Nat,
           \A d \in Datasets : SameRows(d, T, U, lo, hi)
    PROVE  /\ InputFigures(T, lo, hi) = InputFigures(U, lo, hi)
           /\ OutputFigures(T, lo, hi) = OutputFigures(U, lo, hi)
<1>1. /\ In(T.transactions, lo, hi) = In(U.transactions, lo, hi)
      /\ In(T.inputs, lo, hi) = In(U.inputs, lo, hi)
      /\ In(T.outputs, lo, hi) = In(U.outputs, lo, hi)
  BY DEF SameRows, Datasets, DatasetOrder
<1>2. OrdinaryInputs(T, lo, hi) = OrdinaryInputs(U, lo, hi)
  BY <1>1 DEF OrdinaryInputs
<1>3. ForeignInputs(T, lo, hi) = ForeignInputs(U, lo, hi)
  BY <1>1, <1>2 DEF ForeignInputs, Internal
<1> QED
  BY <1>1, <1>2, <1>3 DEF InputFigures, OutputFigures

-----------------------------------------------------------------------------
(* What happens to the files.                                              *)

FilesTyped(dirs, files) ==
    /\ DOMAIN dirs = Heights
    /\ \A h \in Heights : dirs[h] \in DirectoriesAt(h) \cup {NoDir}
    /\ DOMAIN files = Datasets
    /\ \A d \in Datasets : files[d] \in [Heights -> RowSet(d) \cup {NoFile}]

\* A step of DerivedStore changes one directory or one data.parquet.
FilesStep(dirs, files, dirs2, files2, rmRaw, rmParquet) ==
    \/ \E h \in Heights :
         /\ files2 = files
         /\ \/ /\ dirs[h] # NoDir => DOMAIN dirs[h] = {}
               /\ \E f \in Fetches(h) : dirs2 = [dirs EXCEPT ![h] = Directory(f)]
            \/ /\ rmRaw
               /\ dirs[h] # NoDir
               /\ \/ \E file \in DOMAIN dirs[h] :
                       dirs2 = [dirs EXCEPT ![h] =
                                  [g \in DOMAIN dirs[h] \ {file} |-> dirs[h][g]]]
                  \/ dirs2 = [dirs EXCEPT ![h] = NoDir]
    \/ \E d \in Datasets, h \in Heights :
         /\ dirs2 = dirs
         /\ \/ /\ IsComplete(dirs[h])
               /\ files2 = [files EXCEPT ![d][h] = RowsOf(d, dirs[h])]
            \/ /\ rmParquet
               /\ files2 = [files EXCEPT ![d][h] = NoFile]

\* What is computed from a complete directory is a row set.
LEMMA RowsTyped ==
    ASSUME NEW d \in Datasets, NEW h \in Heights, NEW dir \in DirectoriesAt(h) \cup {NoDir},
           IsComplete(dir)
    PROVE  RowsOf(d, dir) \in RowSet(d)
<1>1. PICK f \in Fetches(h), names \in SUBSET RequiredFiles : dir = Part(f, names)
  BY DEF DirectoriesAt, IsComplete
<1>2. dir[BlockJson] = Contents(f, BlockJson) /\ dir[TxsJsonl] = Contents(f, TxsJsonl)
  BY <1>1 DEF IsComplete, Part, RequiredFiles
<1>3. Contents(f, BlockJson) \in BlockJsons /\ Contents(f, TxsJsonl) \in TxLists
  BY DEF BlockJsons, TxLists
<1> QED
  BY <1>2, <1>3 DEF RowsOf, RowSet

LEMMA FilesStayTyped ==
    ASSUME NEW dirs, NEW files, NEW dirs2, NEW files2, NEW rmRaw, NEW rmParquet,
           FilesTyped(dirs, files), FilesStep(dirs, files, dirs2, files2, rmRaw, rmParquet)
    PROVE  FilesTyped(dirs2, files2)
<1>1. CASE \E h \in Heights :
              files2 = files /\ \E f \in Fetches(h) : dirs2 = [dirs EXCEPT ![h] = Directory(f)]
  <2>1. PICK h \in Heights : \E f \in Fetches(h) : dirs2 = [dirs EXCEPT ![h] = Directory(f)]
    BY <1>1
  <2>2. \A f \in Fetches(h) : Directory(f) \in DirectoriesAt(h)
    BY PartProperties DEF Directory
  <2> QED
    BY <1>1, <2>1, <2>2 DEF FilesTyped
<1>2. CASE \E h \in Heights :
              /\ files2 = files
              /\ dirs[h] # NoDir
              /\ \/ \E file \in DOMAIN dirs[h] :
                      dirs2 = [dirs EXCEPT ![h] =
                                [g \in DOMAIN dirs[h] \ {file} |-> dirs[h][g]]]
                 \/ dirs2 = [dirs EXCEPT ![h] = NoDir]
  <2>1. PICK h \in Heights :
              /\ dirs[h] # NoDir
              /\ \/ \E file \in DOMAIN dirs[h] :
                      dirs2 = [dirs EXCEPT ![h] =
                                [g \in DOMAIN dirs[h] \ {file} |-> dirs[h][g]]]
                 \/ dirs2 = [dirs EXCEPT ![h] = NoDir]
    BY <1>2
  <2>2. dirs[h] \in DirectoriesAt(h)
    BY <2>1 DEF FilesTyped
  <2>3. CASE dirs2 = [dirs EXCEPT ![h] = NoDir]
    BY <1>2, <2>3 DEF FilesTyped
  <2>4. ASSUME NEW file \in DOMAIN dirs[h],
               dirs2 = [dirs EXCEPT ![h] = [g \in DOMAIN dirs[h] \ {file} |-> dirs[h][g]]]
        PROVE  FilesTyped(dirs2, files2)
    <3>1. [g \in DOMAIN dirs[h] \ {file} |-> dirs[h][g]] \in DirectoriesAt(h)
      BY <2>2, RemoveOneFile
    <3> QED
      BY <1>2, <2>4, <3>1 DEF FilesTyped
  <2> QED
    BY <2>1, <2>3, <2>4
<1>3. CASE \E d \in Datasets, h \in Heights :
              /\ dirs2 = dirs
              /\ \/ IsComplete(dirs[h]) /\ files2 = [files EXCEPT ![d][h] = RowsOf(d, dirs[h])]
                 \/ files2 = [files EXCEPT ![d][h] = NoFile]
  <2>1. PICK d \in Datasets, h \in Heights : \E rows \in RowSet(d) \cup {NoFile} :
              files2 = [files EXCEPT ![d][h] = rows]
    BY <1>3, RowsTyped DEF FilesTyped
  <2> QED
    BY <1>3, <2>1 DEF FilesTyped
<1> QED
  BY <1>1, <1>2, <1>3 DEF FilesStep

-----------------------------------------------------------------------------
(* Rows and files.                                                         *)

LEMMA DatasetNames == Datasets = {"blocks", "transactions", "inputs", "outputs"}
BY DEF Datasets, DatasetOrder

LEMMA RowHeights ==
    ASSUME NEW h, NEW b, NEW ts
    PROVE  /\ FlattenBlock(h, b).height = h
           /\ \A hash : \A r \in FlattenTransactions(h, hash, ts) : r.height = h
           /\ \A r \in FlattenInputs(h, ts) : r.height = h
           /\ \A r \in FlattenOutputs(h, ts) : r.height = h
BY DEF FlattenBlock, FlattenTransactions, FlattenInputs, FlattenOutputs

\* What is in a txs.jsonl is the beginning of a block.
LEMMA ListOfBlock ==
    ASSUME NEW ts \in TxLists
    PROVE  \E b \in Hashes, n \in Nat :
             n <= Size[b] /\ DOMAIN ts = 1..n /\ \A i \in 1..n : ts[i] = <<b, i>>
<1>0. PICK h \in Heights : \E f \in Fetches(h) : ts = Contents(f, TxsJsonl)
  BY DEF TxLists
<1>1. PICK f \in Fetches(h) : ts = Contents(f, TxsJsonl)
  BY <1>0
<1>2. PICK b \in HashesAt[h] :
        f \in { FetchOf(b, FirstTxs(b, n), r) : n \in 0..Size[b], r \in Reports(b) }
  BY DEF Fetches
<1>3. PICK n \in 0..Size[b], r \in Reports(b) : f = FetchOf(b, FirstTxs(b, n), r)
  BY <1>2
<1>4. ts = FirstTxs(b, n)
  BY <1>1, <1>3 DEF Contents, FetchOf, TxsJsonl, BlockJson, MetaJson
<1>5. b \in Hashes /\ Size[b] \in Nat
  BY HashesAssumption, SizeAssumption
<1> QED
  BY <1>4, <1>5 DEF FirstTxs

\* The parts of a row set that FileRows reads.
LEMMA RowSetParts ==
    /\ \A file \in RowSet("transactions") : file.txs \in TxLists
    /\ RowSet("inputs") \subseteq TxLists
    /\ RowSet("outputs") \subseteq TxLists
BY DEF RowSet, Rows

\* Where nothing but new files appears, a window that is complete keeps its
\* rows.
LEMMA WindowStays ==
    ASSUME NEW P, NEW Q, NEW lo \in Nat, NEW hi \in Nat, NEW d \in Datasets,
           lo..hi \subseteq Present(P, d),
           \A h \in Heights : P[d][h] # NoFile => Q[d][h] = P[d][h]
    PROVE  SameRows(d, TablesOf(P), TablesOf(Q), lo, hi)
<1>1. \A h \in lo..hi : h \in Present(P, d) /\ h \in Present(Q, d) /\ Q[d][h] = P[d][h]
  BY DEF Present
<1>2. CASE d = "blocks"
  <2>1. \A h \in Heights : FlattenBlock(h, P["blocks"][h]).height = h
    BY RowHeights
  <2>2. \A h \in Heights : FlattenBlock(h, Q["blocks"][h]).height = h
    BY RowHeights
  <2> QED
    BY <1>1, <1>2, <2>1, <2>2 DEF SameRows, In, TablesOf, Present
<1>3. CASE d = "transactions"
  <2>1. \A h \in Heights :
          \A r \in FlattenTransactions(h, P["transactions"][h].hash, P["transactions"][h].txs) :
             r.height = h
    BY RowHeights
  <2>2. \A h \in Heights :
          \A r \in FlattenTransactions(h, Q["transactions"][h].hash, Q["transactions"][h].txs) :
             r.height = h
    BY RowHeights
  <2> QED
    BY <1>1, <1>3, <2>1, <2>2 DEF SameRows, In, TablesOf, Present
<1>4. CASE d = "inputs"
  <2>1. \A h \in Heights : \A r \in FlattenInputs(h, P["inputs"][h]) : r.height = h
    BY RowHeights
  <2>2. \A h \in Heights : \A r \in FlattenInputs(h, Q["inputs"][h]) : r.height = h
    BY RowHeights
  <2> QED
    BY <1>1, <1>4, <2>1, <2>2 DEF SameRows, In, TablesOf, Present
<1>5. CASE d = "outputs"
  <2>1. \A h \in Heights : \A r \in FlattenOutputs(h, P["outputs"][h]) : r.height = h
    BY RowHeights
  <2>2. \A h \in Heights : \A r \in FlattenOutputs(h, Q["outputs"][h]) : r.height = h
    BY RowHeights
  <2> QED
    BY <1>1, <1>5, <2>1, <2>2 DEF SameRows, In, TablesOf, Present
<1> QED
  BY <1>2, <1>3, <1>4, <1>5, DatasetNames

\* An input or output row belongs to a transaction row of the same height
\* that was derived from the same list.
LEMMA RowsOfOneList ==
    ASSUME NEW h, NEW ts, NEW hash,
           NEW r \in FlattenInputs(h, ts) \cup FlattenOutputs(h, ts)
    PROVE  \E t \in FlattenTransactions(h, hash, ts) : t.txid = r.txid /\ t.height = h
<1>1. PICK i \in DOMAIN ts : r.txid = TxOf(ts[i]).txid
  BY DEF FlattenInputs, FlattenOutputs
<1> DEFINE t == [height |-> h, hash |-> hash, txid |-> TxOf(ts[i]).txid, index |-> i - 1,
                 size |-> TxOf(ts[i]).size, weight |-> TxOf(ts[i]).weight,
                 vsize |-> vsizeFromWeight(TxOf(ts[i]).weight), fee |-> TxOf(ts[i]).fee,
                 coinbase |-> IsCoinbase(TxOf(ts[i]))]
<1>2. t \in FlattenTransactions(h, hash, ts)
  BY DEF FlattenTransactions
<1> QED
  BY <1>1, <1>2

\* What a derived file says about the raw block under it.
LEMMA DerivedFrom ==
    ASSUME NEW dirs, NEW files, FilesKept(dirs, files), NEW h \in Heights
    PROVE  /\ files["blocks"][h] # NoFile =>
                /\ files["blocks"][h] = dirs[h][BlockJson]
                /\ files["blocks"][h].hash \in Hashes
                /\ files["blocks"][h].reported # NoCount =>
                      /\ files["blocks"][h].reported \in Nat \ {0}
                      /\ files["blocks"][h].reported = Size[files["blocks"][h].hash]
                      /\ dirs[h][TxsJsonl] = BlockTxs(files["blocks"][h].hash)
           /\ files["transactions"][h] # NoFile =>
                /\ files["transactions"][h].hash = dirs[h][BlockJson].hash
                /\ files["transactions"][h].txs = dirs[h][TxsJsonl]
           /\ files["inputs"][h] # NoFile => files["inputs"][h] = dirs[h][TxsJsonl]
           /\ files["outputs"][h] # NoFile => files["outputs"][h] = dirs[h][TxsJsonl]
<1>1. \A d \in Datasets : files[d][h] # NoFile =>
        IsComplete(dirs[h]) /\ files[d][h] = RowsOf(d, dirs[h])
  BY DEF FilesKept
<1>2. CASE files["blocks"][h] # NoFile
  <2>1. IsComplete(dirs[h]) /\ files["blocks"][h] = dirs[h][BlockJson]
    BY <1>1, <1>2, DatasetNames DEF RowsOf, Rows
  <2>2. PICK f \in Fetches(h) : dirs[h] = Directory(f)
    BY <2>1 DEF FilesKept, IsComplete
  <2>3. /\ files["blocks"][h].hash \in Hashes
        /\ files["blocks"][h].reported # NoCount =>
             /\ files["blocks"][h].reported \in Nat \ {0}
             /\ files["blocks"][h].reported = Size[files["blocks"][h].hash]
    <3>1. PICK b \in HashesAt[h] :
            f \in { FetchOf(b, FirstTxs(b, n), r) : n \in 0..Size[b], r \in Reports(b) }
      BY DEF Fetches
    <3>2. PICK n \in 0..Size[b], r \in Reports(b) : f = FetchOf(b, FirstTxs(b, n), r)
      BY <3>1
    <3>3. dirs[h][BlockJson] = [hash |-> b, reported |-> r]
      BY <2>2, <3>2
         DEF Directory, Part, Contents, RequiredFiles, BlockJson, TxsJsonl, MetaJson, FetchOf
    <3>4. b \in Hashes /\ Size[b] \in Nat \ {0}
      BY HashesAssumption, SizeAssumption
    <3>5. r \in {Size[b], NoCount}
      BY DEF Reports
    <3> QED
      BY <2>1, <3>3, <3>4, <3>5
  <2>4. files["blocks"][h].reported # NoCount =>
          dirs[h][TxsJsonl] = BlockTxs(files["blocks"][h].hash)
    BY <2>1, <2>2, CompleteIsWhole
  <2> QED
    BY <1>1, <2>1, <2>3, <2>4, DatasetNames DEF RowsOf, Rows
<1>3. CASE files["blocks"][h] = NoFile
  BY <1>1, <1>3, DatasetNames DEF RowsOf, Rows
<1> QED
  BY <1>2, <1>3

\* A list of transactions has as many rows as entries: each tells its place.
LEMMA TransactionRows ==
    ASSUME NEW h, NEW hash, NEW ts, NEW n \in Nat, DOMAIN ts = 1..n
    PROVE  /\ IsFiniteSet(FlattenTransactions(h, hash, ts))
           /\ Cardinality(FlattenTransactions(h, hash, ts)) = n
<1> DEFINE row(i) == [height |-> h, hash |-> hash, txid |-> TxOf(ts[i]).txid, index |-> i - 1,
                      size |-> TxOf(ts[i]).size, weight |-> TxOf(ts[i]).weight,
                      vsize |-> vsizeFromWeight(TxOf(ts[i]).weight),
                      fee |-> TxOf(ts[i]).fee, coinbase |-> IsCoinbase(TxOf(ts[i]))]
           rows == FlattenTransactions(h, hash, ts)
           f == [i \in 1..n |-> row(i)]
<1>1. rows = {row(i) : i \in 1..n}
  BY DEF FlattenTransactions
<1>2. \A i, j \in 1..n : row(i) = row(j) => i = j
  <2> TAKE i, j \in 1..n
  <2> HAVE row(i) = row(j)
  <2>1. i - 1 = j - 1
    OBVIOUS
  <2> QED
    BY <2>1
<1> HIDE DEF row, rows
<1>3. f \in Bijection(1..n, rows)
  BY <1>1, <1>2 DEF Bijection, Injection, Surjection, IsInjective
<1>4. ExistsBijection(1..n, rows)
  BY <1>3, Fun_ExistsBij
<1>5. IsFiniteSet(1..n) /\ Cardinality(1..n) = n
  BY FS_Interval
<1> QED
  BY <1>4, <1>5, FS_Bijection DEF rows

\* Without deletions files only appear.
FilesGrow(dirs, files, dirs2, files2) ==
    /\ \A d \in Datasets, h \in Heights : files[d][h] # NoFile => files2[d][h] = files[d][h]
    /\ \A h \in Heights : dirs[h] # NoDir => dirs2[h] = dirs[h]

LEMMA FilesOnlyGrow ==
    ASSUME NEW dirs, NEW files, NEW dirs2, NEW files2, NEW rmRaw, NEW rmParquet,
           FilesTyped(dirs, files), FilesKept(dirs, files), ~rmRaw, ~rmParquet,
           FilesStep(dirs, files, dirs2, files2, rmRaw, rmParquet)
    PROVE  FilesGrow(dirs, files, dirs2, files2) /\ FilesKept(dirs2, files2)
<1>1. CASE \E h \in Heights :
              /\ files2 = files
              /\ dirs[h] # NoDir => DOMAIN dirs[h] = {}
              /\ \E f \in Fetches(h) : dirs2 = [dirs EXCEPT ![h] = Directory(f)]
  <2>1. PICK h \in Heights :
              /\ dirs[h] # NoDir => DOMAIN dirs[h] = {}
              /\ \E f \in Fetches(h) : dirs2 = [dirs EXCEPT ![h] = Directory(f)]
    BY <1>1
  <2>2. \A f \in Fetches(h) : DOMAIN Directory(f) # {}
    BY PartProperties DEF Directory, RequiredFiles
  <2>3. dirs[h] = NoDir
    BY <2>1, <2>2 DEF FilesKept
  <2>4. \A d \in Datasets : files[d][h] = NoFile
    BY <2>3 DEF FilesKept, IsComplete
  <2> QED
    BY <1>1, <2>1, <2>3, <2>4 DEF FilesTyped, FilesKept, FilesGrow
<1>2. CASE \E d \in Datasets, h \in Heights :
              /\ dirs2 = dirs
              /\ IsComplete(dirs[h])
              /\ files2 = [files EXCEPT ![d][h] = RowsOf(d, dirs[h])]
  BY <1>2 DEF FilesTyped, FilesKept, FilesGrow
<1> QED
  BY <1>1, <1>2 DEF FilesStep

-----------------------------------------------------------------------------
(* Checks that have passed stay passed.                                    *)

\* TxHasOutput is the last check that pins something down.
LEMMA AllPinned == ASSUME NEW n \in 13..NumChecks PROVE PinnedBy(n) = Datasets
<1>1. \A d \in Datasets : d \in PinnedBy(n)
  BY DatasetNames DEF PinnedBy
<1> QED
  BY <1>1 DEF PinnedBy

LEMMA PassedStays ==
    ASSUME NEW dirs, NEW files, NEW dirs2, NEW files2, FilesGrow(dirs, files, dirs2, files2),
           NEW w \in Windows, NEW n \in 0..NumChecks, Passed(files, n, w)
    PROVE  Passed(files2, n, w)
<1> SUFFICES ASSUME CountsKnown(files2, w)
             PROVE  /\ \A d \in PinnedBy(n) : w.lo..w.hi \subseteq Present(files2, d)
                    /\ \A m \in 1..n : Check(m, TablesOf(files2), w.lo, w.hi)
  BY DEF Passed
<1>1. w.lo \in Nat /\ w.hi \in Nat
  BY WindowsAssumption
<1>2. CountsKnown(files, w)
  BY DatasetNames DEF CountsKnown, FilesGrow, Present
<1>3. /\ \A d \in PinnedBy(n) : w.lo..w.hi \subseteq Present(files, d)
      /\ \A m \in 1..n : Check(m, TablesOf(files), w.lo, w.hi)
  BY <1>2 DEF Passed
<1>4. \A d \in PinnedBy(n) : w.lo..w.hi \subseteq Present(files2, d)
  BY <1>3 DEF FilesGrow, Present, PinnedBy
<1>5. \A d \in PinnedBy(n) : SameRows(d, TablesOf(files), TablesOf(files2), w.lo, w.hi)
  <2> TAKE d \in PinnedBy(n)
  <2>1. d \in Datasets
    BY DEF PinnedBy
  <2> QED
    BY <1>1, <1>3, <2>1, WindowStays DEF FilesGrow
<1>6. ASSUME NEW m \in 1..n PROVE Check(m, TablesOf(files2), w.lo, w.hi)
  <2>1. Check(m, TablesOf(files), w.lo, w.hi)
    BY <1>3
  <2>2. CASE m \in {1, 2, 3}
    <3>1. "blocks" \in PinnedBy(n)
      BY <2>2, DatasetNames DEF PinnedBy
    <3> QED
      BY <1>1, <1>5, <2>1, <2>2, <3>1, BlocksDecide
  <2>3. CASE m \in 4..11
    <3>1. "blocks" \in PinnedBy(n) /\ "transactions" \in PinnedBy(n)
      BY <2>3, DatasetNames DEF PinnedBy
    <3>2. m \in 1..11
      BY <2>3
    <3> QED
      BY <1>1, <1>5, <2>1, <3>1, <3>2, TransactionsDecide
  <2>4. CASE m = 12
    <3>1. {"transactions", "inputs"} \subseteq PinnedBy(n)
      BY <2>4, DatasetNames DEF PinnedBy
    <3>2. /\ In(TablesOf(files).transactions, w.lo, w.hi) =
                In(TablesOf(files2).transactions, w.lo, w.hi)
          /\ In(TablesOf(files).inputs, w.lo, w.hi) =
                In(TablesOf(files2).inputs, w.lo, w.hi)
      BY <1>5, <3>1 DEF SameRows
    <3> QED
      BY <2>1, <2>4, <3>2, Checks DEF TxHasInput
  <2>5. CASE m >= 13
    <3>1. n \in 13..NumChecks /\ m \in 1..NumChecks
      BY <2>5 DEF NumChecks
    <3>2. PinnedBy(n) = Datasets
      BY <3>1, AllPinned
    <3> QED
      BY <1>1, <1>5, <2>1, <3>1, <3>2, WindowDecides
  <2> QED
    BY <2>2, <2>3, <2>4, <2>5
<1> QED
  BY <1>4, <1>6

\* Once all partitions are known to be there, what is counted stays as it is.
LEMMA FiguresStay ==
    ASSUME NEW dirs, NEW files, NEW dirs2, NEW files2, FilesGrow(dirs, files, dirs2, files2),
           NEW w \in Windows, NEW n \in 13..NumChecks, Passed(files, n, w),
           CountsKnown(files2, w)
    PROVE  /\ InputFigures(TablesOf(files2), w.lo, w.hi) =
                InputFigures(TablesOf(files), w.lo, w.hi)
           /\ OutputFigures(TablesOf(files2), w.lo, w.hi) =
                OutputFigures(TablesOf(files), w.lo, w.hi)
<1>1. w.lo \in Nat /\ w.hi \in Nat
  BY WindowsAssumption
<1>2. CountsKnown(files, w)
  BY DatasetNames DEF CountsKnown, FilesGrow, Present
<1>3. \A d \in Datasets : w.lo..w.hi \subseteq Present(files, d)
  BY <1>2, AllPinned DEF Passed
<1>4. \A d \in Datasets : SameRows(d, TablesOf(files), TablesOf(files2), w.lo, w.hi)
  BY <1>1, <1>3, WindowStays DEF FilesGrow
<1> QED
  BY <1>1, <1>4, WindowIsCounted

-----------------------------------------------------------------------------
(* The figures at the border of the window add up.                         *)

\* In a window that passes, an internal input is matched with exactly one
\* output, and an input that is matched is internal.
LEMMA InsideIsSpent ==
    ASSUME NEW T, NEW lo, NEW hi,
           IsFiniteSet(In(T.inputs, lo, hi)), IsFiniteSet(In(T.outputs, lo, hi)),
           InternalInputsResolveUniquely(T, lo, hi), OutputsReferenceValidTx(T, lo, hi)
    PROVE  InputFigures(T, lo, hi).total - InputFigures(T, lo, hi).foreign =
           OutputFigures(T, lo, hi).total - OutputFigures(T, lo, hi).unspent
<1> DEFINE ins == OrdinaryInputs(T, lo, hi)
           outs == In(T.outputs, lo, hi)
           inside == {i \in ins : Internal(T, lo, hi, i)}
           spent == Spent(outs, ins)
           match(i) == {o \in outs : o.txid = i.prevTxid /\ o.index = i.prevVout}
           f == [i \in inside |-> <<CHOOSE o \in match(i) : TRUE, i>>]
<1>1. IsFiniteSet(ins)
  BY FS_Subset DEF OrdinaryInputs
<1>2. /\ inside = ins \ ForeignInputs(T, lo, hi)
      /\ ins \cap ForeignInputs(T, lo, hi) = ForeignInputs(T, lo, hi)
  BY DEF ForeignInputs
<1>3. Cardinality(inside) = InputFigures(T, lo, hi).total - InputFigures(T, lo, hi).foreign
  BY <1>1, <1>2, FS_Difference DEF InputFigures
<1>4. ASSUME NEW i \in inside PROVE \E o : match(i) = {o}
  <2>1. Cardinality(match(i)) = 1
    BY DEF InternalInputsResolveUniquely
  <2>2. IsFiniteSet(match(i))
    BY FS_Subset
  <2> QED
    BY <2>1, <2>2, FS_Singleton
<1>5. f \in Bijection(inside, spent)
  <2>1. f \in [inside -> spent]
    BY <1>4 DEF Spent
  <2>2. \A i, k \in inside : f[i] = f[k] => i = k
    OBVIOUS
  <2>3. ASSUME NEW oi \in spent PROVE \E i \in inside : f[i] = oi
    <3>1. /\ oi = <<oi[1], oi[2]>>
          /\ oi[1] \in outs /\ oi[2] \in ins
          /\ oi[2].prevTxid = oi[1].txid /\ oi[2].prevVout = oi[1].index
      BY DEF Spent
    <3>2. oi[2] \in inside
      BY <3>1 DEF OutputsReferenceValidTx, Internal
    <3>3. oi[1] \in match(oi[2])
      BY <3>1
    <3> QED
      BY <1>4, <3>1, <3>2, <3>3
  <2> QED
    BY <2>1, <2>2, <2>3 DEF Bijection, Injection, Surjection, IsInjective
<1>6. Cardinality(inside) = Cardinality(spent) /\ IsFiniteSet(spent)
  <2>1. IsFiniteSet(inside)
    BY <1>1, FS_Subset
  <2>2. ExistsBijection(inside, spent)
    BY <1>5, Fun_ExistsBij
  <2> QED
    BY <2>1, <2>2, FS_Bijection
<1>7. Cardinality(spent) \in Nat /\ Cardinality(Unspent(outs, ins)) \in Nat
  BY <1>6, FS_Subset, FS_CardinalityType DEF Unspent
<1> QED
  BY <1>3, <1>6, <1>7 DEF OutputFigures, JoinFigures

LEMMA ImageIsFinite ==
    ASSUME NEW f, IsFiniteSet(DOMAIN f)
    PROVE  IsFiniteSet({f[x] : x \in DOMAIN f})
<1> DEFINE g == [x \in DOMAIN f |-> f[x]]
<1>1. g \in Surjection(DOMAIN f, {f[x] : x \in DOMAIN f})
  BY DEF Surjection
<1> QED
  BY <1>1, FS_Surjection

\* The rows of one data.parquet.
LEMMA RowsAreFinite ==
    ASSUME NEW h, NEW d \in Datasets, NEW ts \in RowSet(d)
    PROVE  /\ d = "inputs" => IsFiniteSet(FlattenInputs(h, ts))
           /\ d = "outputs" => IsFiniteSet(FlattenOutputs(h, ts))
<1> SUFFICES ASSUME d \in {"inputs", "outputs"}
             PROVE  IsFiniteSet(FlattenInputs(h, ts)) /\ IsFiniteSet(FlattenOutputs(h, ts))
  OBVIOUS
<1>1. PICK g \in Heights : \E f \in Fetches(g) : ts = Contents(f, TxsJsonl)
  BY DEF RowSet, Rows, TxLists
<1>2. PICK f \in Fetches(g) : ts = Contents(f, TxsJsonl)
  BY <1>1
<1>0. PICK b \in HashesAt[g] :
        f \in {FetchOf(b, FirstTxs(b, n), r) : n \in 0..Size[b], r \in Reports(b)}
  BY DEF Fetches
<1>9. PICK n \in 0..Size[b], r \in Reports(b) : f = FetchOf(b, FirstTxs(b, n), r)
  BY <1>0
<1>3. ts = FirstTxs(b, n)
  BY <1>2, <1>9 DEF Contents, FetchOf, TxsJsonl, BlockJson, MetaJson
<1>4. b \in Hashes /\ Size[b] \in Nat /\ n \in Nat
  BY HashesAssumption, SizeAssumption
<1>5. IsFiniteSet(DOMAIN ts)
  BY <1>3, <1>4, FS_Interval DEF FirstTxs
<1>6. ASSUME NEW i \in DOMAIN ts
      PROVE  IsFiniteSet(DOMAIN TxOf(ts[i]).vin) /\ IsFiniteSet(DOMAIN TxOf(ts[i]).vout)
  <2>1. i \in 1..Size[b] /\ TxOf(ts[i]) = Tx[b][i]
    BY <1>3, <1>4 DEF FirstTxs, TxOf
  <2>2. /\ Len(Tx[b][i].vin) \in Nat /\ DOMAIN Tx[b][i].vin = 1..Len(Tx[b][i].vin)
        /\ Tx[b][i].vout \in Seq(Int)
    BY <1>4, <2>1, TxAssumption
  <2>3. Len(Tx[b][i].vout) \in Nat /\ DOMAIN Tx[b][i].vout = 1..Len(Tx[b][i].vout)
    BY <2>2
  <2>4. \A m \in Nat : IsFiniteSet(1..m)
    BY FS_Interval
  <2> QED
    BY <2>1, <2>2, <2>3, <2>4
<1>7. IsFiniteSet(FlattenInputs(h, ts))
  <2> DEFINE row(i, j) == [height |-> h, txid |-> TxOf(ts[i]).txid, index |-> j - 1,
                           prevTxid |-> TxOf(ts[i]).vin[j].txid,
                           prevVout |-> TxOf(ts[i]).vin[j].vout,
                           value |-> TxOf(ts[i]).vin[j].value,
                           coinbase |-> TxOf(ts[i]).vin[j].coinbase]
             rows == [i \in DOMAIN ts |-> {row(i, j) : j \in DOMAIN TxOf(ts[i]).vin}]
  <2>1. ASSUME NEW i \in DOMAIN ts PROVE IsFiniteSet(rows[i])
    <3> DEFINE k == [j \in DOMAIN TxOf(ts[i]).vin |-> row(i, j)]
    <3>1. rows[i] = {k[j] : j \in DOMAIN k}
      OBVIOUS
    <3>2. IsFiniteSet(DOMAIN k)
      BY <1>6
    <3> HIDE DEF k
    <3> QED
      BY <3>1, <3>2, ImageIsFinite
  <2>2. FlattenInputs(h, ts) = UNION {rows[i] : i \in DOMAIN rows}
    BY DEF FlattenInputs
  <2>3. IsFiniteSet(DOMAIN rows) /\ DOMAIN rows = DOMAIN ts
    BY <1>5
  <2> HIDE DEF rows
  <2>4. IsFiniteSet({rows[i] : i \in DOMAIN rows})
    BY <2>3, ImageIsFinite
  <2> QED
    BY <2>1, <2>2, <2>3, <2>4, FS_UNION
<1>8. IsFiniteSet(FlattenOutputs(h, ts))
  <2> DEFINE row(i, j) == [height |-> h, txid |-> TxOf(ts[i]).txid, index |-> j - 1,
                           value |-> TxOf(ts[i]).vout[j]]
             rows == [i \in DOMAIN ts |-> {row(i, j) : j \in DOMAIN TxOf(ts[i]).vout}]
  <2>1. ASSUME NEW i \in DOMAIN ts PROVE IsFiniteSet(rows[i])
    <3> DEFINE k == [j \in DOMAIN TxOf(ts[i]).vout |-> row(i, j)]
    <3>1. rows[i] = {k[j] : j \in DOMAIN k}
      OBVIOUS
    <3>2. IsFiniteSet(DOMAIN k)
      BY <1>6
    <3> HIDE DEF k
    <3> QED
      BY <3>1, <3>2, ImageIsFinite
  <2>2. FlattenOutputs(h, ts) = UNION {rows[i] : i \in DOMAIN rows}
    BY DEF FlattenOutputs
  <2>3. IsFiniteSet(DOMAIN rows) /\ DOMAIN rows = DOMAIN ts
    BY <1>5
  <2> HIDE DEF rows
  <2>4. IsFiniteSet({rows[i] : i \in DOMAIN rows})
    BY <2>3, ImageIsFinite
  <2> QED
    BY <2>1, <2>2, <2>3, <2>4, FS_UNION
<1> QED
  BY <1>7, <1>8

\* The rows of a window.
LEMMA WindowIsFinite ==
    ASSUME NEW dirs, NEW files, FilesTyped(dirs, files), NEW lo \in Nat, NEW hi \in Nat
    PROVE  /\ IsFiniteSet(In(TablesOf(files).transactions, lo, hi))
           /\ IsFiniteSet(In(TablesOf(files).inputs, lo, hi))
           /\ IsFiniteSet(In(TablesOf(files).outputs, lo, hi))
<1>1. IsFiniteSet(lo..hi)
  BY FS_Interval
<1>2. ASSUME NEW d \in {"inputs", "outputs"}, NEW h \in Present(files, d)
      PROVE  files[d][h] \in RowSet(d) /\ h \in Heights /\ d \in Datasets
  BY <1>2, DatasetNames DEF FilesTyped, Present
<1>3. IsFiniteSet(In(TablesOf(files).inputs, lo, hi))
  <2> DEFINE rows == [h \in (lo..hi) \cap Present(files, "inputs") |->
                        FlattenInputs(h, files["inputs"][h])]
  <2>1. ASSUME NEW r \in In(TablesOf(files).inputs, lo, hi)
        PROVE  \E h \in DOMAIN rows : r \in rows[h]
    <3>1. PICK h \in Present(files, "inputs") : r \in FlattenInputs(h, files["inputs"][h])
      BY DEF In, TablesOf
    <3>2. h \in lo..hi
      BY <3>1, RowHeights DEF In
    <3> QED
      BY <3>1, <3>2
  <2>2. IsFiniteSet(DOMAIN rows)
    BY <1>1, FS_Intersection
  <2>3. ASSUME NEW h \in DOMAIN rows PROVE IsFiniteSet(rows[h])
    BY <1>2, RowsAreFinite
  <2> HIDE DEF rows
  <2>4. IsFiniteSet({rows[h] : h \in DOMAIN rows})
    BY <2>2, ImageIsFinite
  <2>5. IsFiniteSet(UNION {rows[h] : h \in DOMAIN rows})
    BY <2>3, <2>4, FS_UNION
  <2> QED
    BY <2>1, <2>5, FS_Subset
<1>4. IsFiniteSet(In(TablesOf(files).outputs, lo, hi))
  <2> DEFINE rows == [h \in (lo..hi) \cap Present(files, "outputs") |->
                        FlattenOutputs(h, files["outputs"][h])]
  <2>1. ASSUME NEW r \in In(TablesOf(files).outputs, lo, hi)
        PROVE  \E h \in DOMAIN rows : r \in rows[h]
    <3>1. PICK h \in Present(files, "outputs") : r \in FlattenOutputs(h, files["outputs"][h])
      BY DEF In, TablesOf
    <3>2. h \in lo..hi
      BY <3>1, RowHeights DEF In
    <3> QED
      BY <3>1, <3>2
  <2>2. IsFiniteSet(DOMAIN rows)
    BY <1>1, FS_Intersection
  <2>3. ASSUME NEW h \in DOMAIN rows PROVE IsFiniteSet(rows[h])
    BY <1>2, RowsAreFinite
  <2> HIDE DEF rows
  <2>4. IsFiniteSet({rows[h] : h \in DOMAIN rows})
    BY <2>2, ImageIsFinite
  <2>5. IsFiniteSet(UNION {rows[h] : h \in DOMAIN rows})
    BY <2>3, <2>4, FS_UNION
  <2> QED
    BY <2>1, <2>5, FS_Subset
<1>5. IsFiniteSet(In(TablesOf(files).transactions, lo, hi))
  <2> DEFINE rows == [h \in (lo..hi) \cap Present(files, "transactions") |->
                        FlattenTransactions(h, files["transactions"][h].hash,
                                            files["transactions"][h].txs)]
  <2>1. ASSUME NEW r \in In(TablesOf(files).transactions, lo, hi)
        PROVE  \E h \in DOMAIN rows : r \in rows[h]
    <3>1. PICK h \in Present(files, "transactions") :
            r \in FlattenTransactions(h, files["transactions"][h].hash,
                                      files["transactions"][h].txs)
      BY DEF In, TablesOf
    <3>2. r.height = h
      BY <3>1 DEF FlattenTransactions
    <3>3. h \in lo..hi
      BY <3>2 DEF In
    <3> QED
      BY <3>1, <3>3
  <2>2. IsFiniteSet(DOMAIN rows)
    BY <1>1, FS_Intersection
  <2>3. ASSUME NEW h \in DOMAIN rows PROVE IsFiniteSet(rows[h])
    <3>1. files["transactions"][h] \in RowSet("transactions")
      BY DatasetNames DEF FilesTyped, Present
    <3>2. PICK b \in Hashes, n \in Nat : DOMAIN files["transactions"][h].txs = 1..n
      BY <3>1, RowSetParts, ListOfBlock
    <3> QED
      BY <3>2, TransactionRows
  <2> HIDE DEF rows
  <2>4. IsFiniteSet({rows[h] : h \in DOMAIN rows})
    BY <2>2, ImageIsFinite
  <2>5. IsFiniteSet(UNION {rows[h] : h \in DOMAIN rows})
    BY <2>3, <2>4, FS_UNION
  <2> QED
    BY <2>1, <2>5, FS_Subset
<1> QED
  BY <1>3, <1>4, <1>5

-----------------------------------------------------------------------------
(* A verdict of PASS.                                                      *)

LEMMA ClearedIsPassed ==
    ASSUME NEW files, NEW w \in Windows
    PROVE  Cleared(files, w) <=> Passed(files, NumChecks, w)
BY AllPinned DEF Cleared, Sound, PartitionsComplete, AllChecksPass, Passed, NumChecks

LEMMA ClearedStays ==
    ASSUME NEW dirs, NEW files, NEW dirs2, NEW files2, FilesGrow(dirs, files, dirs2, files2),
           NEW w \in Windows, Cleared(files, w)
    PROVE  Cleared(files2, w)
<1>1. NumChecks \in 0..NumChecks
  BY DEF NumChecks
<1>2. Passed(files2, NumChecks, w)
  BY <1>1, ClearedIsPassed, PassedStays
<1> QED
  BY <1>2, ClearedIsPassed

-----------------------------------------------------------------------------
(* Keys.                                                                   *)

\* In a list of one block a txid tells the position.
LEMMA TxidTellsPosition ==
    ASSUME NEW ts \in TxLists, NEW i \in DOMAIN ts, NEW j \in DOMAIN ts,
           TxOf(ts[i]).txid = TxOf(ts[j]).txid
    PROVE  i = j
<1>1. PICK b \in Hashes, n \in Nat :
        n <= Size[b] /\ DOMAIN ts = 1..n /\ \A k \in 1..n : ts[k] = <<b, k>>
  BY ListOfBlock
<1>2. Size[b] \in Nat
  BY SizeAssumption
<1>3. i \in 1..Size[b] /\ j \in 1..Size[b]
  BY <1>1, <1>2
<1>4. Tx[b][i].txid = Tx[b][j].txid
  BY <1>1 DEF TxOf
<1> QED
  BY <1>3, <1>4, TxidAssumption

\* Positions of inputs and outputs are numbers.
LEMMA Positions ==
    ASSUME NEW ts \in TxLists, NEW i \in DOMAIN ts
    PROVE  DOMAIN TxOf(ts[i]).vin \subseteq Nat /\ DOMAIN TxOf(ts[i]).vout \subseteq Nat
<1>1. PICK b \in Hashes, n \in Nat :
        n <= Size[b] /\ DOMAIN ts = 1..n /\ \A k \in 1..n : ts[k] = <<b, k>>
  BY ListOfBlock
<1>2. i \in 1..Size[b] /\ TxOf(ts[i]) = Tx[b][i]
  BY <1>1, SizeAssumption DEF TxOf
<1>3. /\ Tx[b][i].vout \in Seq(Int)
      /\ Len(Tx[b][i].vin) \in Nat /\ DOMAIN Tx[b][i].vin = 1..Len(Tx[b][i].vin)
  BY <1>2, TxAssumption
<1>4. DOMAIN Tx[b][i].vout = 1..Len(Tx[b][i].vout) /\ Len(Tx[b][i].vout) \in Nat
  BY <1>3
<1> QED
  BY <1>2, <1>3, <1>4

\* The rows of one data.parquet have different keys (DATASET_SCHEMAS).
LEMMA FileRowsKeyed ==
    ASSUME NEW d \in Datasets, NEW h, NEW file \in RowSet(d),
           NEW r \in FileRows(d, h, file), NEW s \in FileRows(d, h, file),
           Key(d, r) = Key(d, s)
    PROVE  r = s
<1>1. CASE d = "blocks"
  BY <1>1 DEF FileRows
<1>2. CASE d = "transactions"
  <2>1. file.txs \in TxLists
    BY <1>2, RowSetParts
  <2>2. PICK i \in DOMAIN file.txs, j \in DOMAIN file.txs :
          /\ r = [height |-> h, hash |-> file.hash, txid |-> TxOf(file.txs[i]).txid,
                  index |-> i - 1, size |-> TxOf(file.txs[i]).size,
                  weight |-> TxOf(file.txs[i]).weight,
                  vsize |-> vsizeFromWeight(TxOf(file.txs[i]).weight),
                  fee |-> TxOf(file.txs[i]).fee, coinbase |-> IsCoinbase(TxOf(file.txs[i]))]
          /\ s = [height |-> h, hash |-> file.hash, txid |-> TxOf(file.txs[j]).txid,
                  index |-> j - 1, size |-> TxOf(file.txs[j]).size,
                  weight |-> TxOf(file.txs[j]).weight,
                  vsize |-> vsizeFromWeight(TxOf(file.txs[j]).weight),
                  fee |-> TxOf(file.txs[j]).fee, coinbase |-> IsCoinbase(TxOf(file.txs[j]))]
    BY <1>2 DEF FileRows, FlattenTransactions
  <2>3. TxOf(file.txs[i]).txid = TxOf(file.txs[j]).txid
    BY <1>2, <2>2 DEF Key
  <2>4. i = j
    BY <2>1, <2>3, TxidTellsPosition
  <2> QED
    BY <2>2, <2>4
<1>3. CASE d = "inputs"
  <2>1. file \in TxLists
    BY <1>3, RowSetParts
  <2> DEFINE Row(i, k) == [height |-> h, txid |-> TxOf(file[i]).txid, index |-> k - 1,
                           prevTxid |-> TxOf(file[i]).vin[k].txid,
                           prevVout |-> TxOf(file[i]).vin[k].vout,
                           value |-> TxOf(file[i]).vin[k].value,
                           coinbase |-> TxOf(file[i]).vin[k].coinbase]
  <2>2. PICK i \in DOMAIN file : \E k \in DOMAIN TxOf(file[i]).vin : r = Row(i, k)
    BY <1>3 DEF FileRows, FlattenInputs
  <2>3. PICK k \in DOMAIN TxOf(file[i]).vin : r = Row(i, k)
    BY <2>2
  <2>4. PICK j \in DOMAIN file : \E m \in DOMAIN TxOf(file[j]).vin : s = Row(j, m)
    BY <1>3 DEF FileRows, FlattenInputs
  <2>5. PICK m \in DOMAIN TxOf(file[j]).vin : s = Row(j, m)
    BY <2>4
  <2>6. TxOf(file[i]).txid = TxOf(file[j]).txid /\ k - 1 = m - 1
    BY <1>3, <2>3, <2>5 DEF Key
  <2>7. i = j
    BY <2>1, <2>6, TxidTellsPosition
  <2>8. k \in Nat /\ m \in Nat
    BY <2>1, Positions
  <2> QED
    BY <2>3, <2>5, <2>6, <2>7, <2>8
<1>4. CASE d = "outputs"
  <2>1. file \in TxLists
    BY <1>4, RowSetParts
  <2> DEFINE Row(i, k) == [height |-> h, txid |-> TxOf(file[i]).txid, index |-> k - 1,
                           value |-> TxOf(file[i]).vout[k]]
  <2>2. PICK i \in DOMAIN file : \E k \in DOMAIN TxOf(file[i]).vout : r = Row(i, k)
    BY <1>4 DEF FileRows, FlattenOutputs
  <2>3. PICK k \in DOMAIN TxOf(file[i]).vout : r = Row(i, k)
    BY <2>2
  <2>4. PICK j \in DOMAIN file : \E m \in DOMAIN TxOf(file[j]).vout : s = Row(j, m)
    BY <1>4 DEF FileRows, FlattenOutputs
  <2>5. PICK m \in DOMAIN TxOf(file[j]).vout : s = Row(j, m)
    BY <2>4
  <2>6. TxOf(file[i]).txid = TxOf(file[j]).txid /\ k - 1 = m - 1
    BY <1>4, <2>3, <2>5 DEF Key
  <2>7. i = j
    BY <2>1, <2>6, TxidTellsPosition
  <2>8. k \in Nat /\ m \in Nat
    BY <2>1, Positions
  <2> QED
    BY <2>3, <2>5, <2>6, <2>7, <2>8
<1> QED
  BY <1>1, <1>2, <1>3, <1>4, DatasetNames

-----------------------------------------------------------------------------
(* MERGE.                                                                  *)

KeyedTable(d, T) == \A e, f \in T : Key(d, e.row) = Key(d, f.row) => e = f
KeyedRows(d, rows) == \A r, s \in rows : Key(d, r) = Key(d, s) => r = s

\* A table without a second copy of a row has as many entries as rows.
LEMMA EntriesCounted ==
    ASSUME NEW S, IsFiniteSet(Content(S)), \A e, f \in S : e.row = f.row => e = f
    PROVE  IsFiniteSet(S) /\ Cardinality(S) = Cardinality(Content(S))
<1> DEFINE g == [r \in Content(S) |-> CHOOSE e \in S : e.row = r]
<1>1. \A r \in Content(S) : g[r] \in S /\ g[r].row = r
  BY DEF Content
<1>2. \A e \in S : e.row \in Content(S) /\ g[e.row] = e
  BY <1>1 DEF Content
<1> HIDE DEF g
<1>3. DOMAIN g = Content(S) /\ g = [r \in Content(S) |-> g[r]]
  BY DEF g
<1>4. g \in Bijection(Content(S), S)
  BY <1>1, <1>2, <1>3 DEF Bijection, Injection, Surjection, IsInjective
<1> QED
  BY <1>4, Fun_ExistsBij, FS_Bijection

\* An entry after a MERGE is an old one that no row touches, or a row.
LEMMA MergedEntries ==
    ASSUME NEW d, NEW T, NEW rows, NEW e \in Merge(d, T, rows)
    PROVE  \/ e \in T /\ \A r \in rows : Key(d, e.row) # Key(d, r)
           \/ \E r \in rows : \E f \in Matches(d, T, r) : e = Entry(r, f.copy)
           \/ \E r \in rows : Matches(d, T, r) = {} /\ e = Entry(r, 1)
<1>1. CASE e \in Untouched(d, T, rows)
  BY <1>1 DEF Untouched
<1>2. CASE e \in Updated(d, T, rows)
  BY <1>2 DEF Updated
<1>3. CASE e \in Inserted(d, T, rows)
  BY <1>3 DEF Inserted
<1> QED
  BY <1>1, <1>2, <1>3 DEF Merge

\* WHEN MATCHED THEN UPDATE, WHEN NOT MATCHED THEN INSERT never makes a
\* second row of a key.
LEMMA MergeKeepsKeys ==
    ASSUME NEW d, NEW T, NEW rows, KeyedTable(d, T), KeyedRows(d, rows)
    PROVE  KeyedTable(d, Merge(d, T, rows))
<1> SUFFICES ASSUME NEW x \in Merge(d, T, rows), NEW y \in Merge(d, T, rows),
                    Key(d, x.row) = Key(d, y.row)
             PROVE  x = y
  BY DEF KeyedTable
<1>1. ASSUME NEW z \in Merge(d, T, rows)
      PROVE  \/ z \in T /\ \A r \in rows : Key(d, z.row) # Key(d, r)
             \/ \E r \in rows : /\ z.row = r
                                /\ \/ \E f \in Matches(d, T, r) : z = Entry(r, f.copy)
                                   \/ Matches(d, T, r) = {} /\ z = Entry(r, 1)
  BY <1>1, MergedEntries DEF Entry
<1>2. CASE x \in T /\ \A r \in rows : Key(d, x.row) # Key(d, r)
  BY <1>1, <1>2 DEF KeyedTable
<1>3. CASE y \in T /\ \A r \in rows : Key(d, y.row) # Key(d, r)
  BY <1>1, <1>3 DEF KeyedTable
<1>4. ASSUME NEW r \in rows, NEW s \in rows, x.row = r, y.row = s,
             \/ \E f \in Matches(d, T, r) : x = Entry(r, f.copy)
             \/ Matches(d, T, r) = {} /\ x = Entry(r, 1),
             \/ \E f \in Matches(d, T, s) : y = Entry(s, f.copy)
             \/ Matches(d, T, s) = {} /\ y = Entry(s, 1)
      PROVE  x = y
  <2>1. r = s
    BY <1>4 DEF KeyedRows
  <2>2. \A f, g \in Matches(d, T, r) : f = g
    BY DEF Matches, KeyedTable
  <2> QED
    BY <1>4, <2>1, <2>2
<1> QED
  BY <1>1, <1>2, <1>3, <1>4

LEMMA MergedContent ==
    ASSUME NEW d, NEW T, NEW rows
    PROVE  Content(Merge(d, T, rows)) \subseteq Content(T) \cup rows
BY MergedEntries DEF Content, Entry

-----------------------------------------------------------------------------
(* Data files and the rows that a MERGE brings.                            *)

LEMMA FileRowHeights ==
    ASSUME NEW d \in Datasets, NEW h, NEW file, NEW r \in FileRows(d, h, file)
    PROVE  r.height = h
<1>1. CASE d = "blocks"
  BY <1>1, RowHeights DEF FileRows
<1>2. CASE d = "transactions"
  BY <1>2, RowHeights DEF FileRows
<1>3. CASE d = "inputs"
  BY <1>3, RowHeights DEF FileRows
<1>4. CASE d = "outputs"
  BY <1>4, RowHeights DEF FileRows
<1> QED
  BY <1>1, <1>2, <1>3, <1>4, DatasetNames

\* The rows of a partition are in the view of its dataset.
LEMMA FileRowsSeen ==
    ASSUME NEW P, NEW d \in Datasets, NEW h \in Heights, P[d][h] # NoFile,
           NEW r \in FileRows(d, h, P[d][h])
    PROVE  r \in TablesOf(P)[d]
<1>1. h \in Present(P, d)
  BY DEF Present
<1>2. CASE d = "blocks"
  BY <1>1, <1>2 DEF FileRows, TablesOf
<1>3. CASE d = "transactions"
  BY <1>1, <1>3 DEF FileRows, TablesOf
<1>4. CASE d = "inputs"
  BY <1>1, <1>4 DEF FileRows, TablesOf
<1>5. CASE d = "outputs"
  BY <1>1, <1>5 DEF FileRows, TablesOf
<1> QED
  BY <1>2, <1>3, <1>4, <1>5, DatasetNames

\* In a range that cleared the gate no height takes rows from another.
LEMMA WindowKeyed ==
    ASSUME NEW P, NEW w \in Windows, CountsKnown(P, w), Cleared(P, w),
           NEW d \in Datasets,
           NEW g \in Heights, NEW h \in Heights, g \in w.lo..w.hi, h \in w.lo..w.hi,
           P[d][g] # NoFile, P[d][h] # NoFile,
           NEW r \in FileRows(d, g, P[d][g]), NEW s \in FileRows(d, h, P[d][h]),
           Key(d, r) = Key(d, s)
    PROVE  r = s
<1> DEFINE T == TablesOf(P)
<1>1. r \in In(T[d], w.lo, w.hi) /\ s \in In(T[d], w.lo, w.hi)
  BY FileRowsSeen, FileRowHeights DEF In
<1>2. AllChecksPass(T, w.lo, w.hi)
  BY DEF Cleared, Sound
<1> HIDE DEF T
<1>3. /\ TxidUnique(T, w.lo, w.hi)
      /\ InputIndexUnique(T, w.lo, w.hi)
      /\ OutputIndexUnique(T, w.lo, w.hi)
  BY <1>2, Checks DEF AllChecksPass, NumChecks
<1>4. CASE d = "blocks"
  <2>1. r = FlattenBlock(g, P["blocks"][g]) /\ s = FlattenBlock(h, P["blocks"][h])
    BY <1>4 DEF FileRows
  <2>2. r.height = s.height
    BY <1>4 DEF Key
  <2>3. g = h
    BY <2>2, FileRowHeights
  <2> QED
    BY <2>1, <2>3
<1>5. CASE d = "transactions"
  <2>1. r.txid = s.txid
    BY <1>5 DEF Key
  <2> QED
    BY <1>1, <1>3, <1>5, <2>1 DEF TxidUnique, Unique
<1>6. CASE d = "inputs"
  <2>1. r.txid = s.txid /\ r.index = s.index
    BY <1>6 DEF Key
  <2> QED
    BY <1>1, <1>3, <1>6, <2>1 DEF InputIndexUnique, Unique
<1>7. CASE d = "outputs"
  <2>1. r.txid = s.txid /\ r.index = s.index
    BY <1>7 DEF Key
  <2> QED
    BY <1>1, <1>3, <1>7, <2>1 DEF OutputIndexUnique, Unique
<1> QED
  BY <1>4, <1>5, <1>6, <1>7, DatasetNames

\* What a MERGE does for a row it brings, and to an entry it finds.
LEMMA MergeBrings ==
    ASSUME NEW d, NEW T, NEW rows, NEW r \in rows
    PROVE  \E e \in Merge(d, T, rows) : e.row = r
<1>1. CASE Matches(d, T, r) = {}
  <2>1. Entry(r, 1) \in Inserted(d, T, rows)
    BY <1>1 DEF Inserted
  <2> QED
    BY <2>1 DEF Merge, Entry
<1>2. CASE Matches(d, T, r) # {}
  <2>1. PICK e \in Matches(d, T, r) : TRUE
    BY <1>2
  <2>2. Entry(r, e.copy) \in Updated(d, T, rows)
    BY <2>1 DEF Updated
  <2> QED
    BY <2>2 DEF Merge, Entry
<1> QED
  BY <1>1, <1>2

LEMMA MergeKeeps ==
    ASSUME NEW d, NEW T, NEW rows, NEW e \in T
    PROVE  \/ e \in Merge(d, T, rows)
           \/ \E s \in rows : /\ Key(d, s) = Key(d, e.row)
                              /\ \E f \in Merge(d, T, rows) : f.row = s
BY MergeBrings DEF Merge, Untouched

\* The rows of a window that is complete are those of its partitions.
LEMMA WindowRows ==
    ASSUME NEW P, NEW d \in Datasets, NEW lo \in Nat, NEW hi \in Nat,
           lo..hi \subseteq Present(P, d)
    PROVE  \A r : r \in In(TablesOf(P)[d], lo, hi) <=>
                   \E h \in lo..hi : r \in FileRows(d, h, P[d][h])
<1>1. ASSUME NEW h \in lo..hi, NEW r \in FileRows(d, h, P[d][h])
      PROVE  r \in In(TablesOf(P)[d], lo, hi)
  BY FileRowsSeen, FileRowHeights DEF In, Present
<1>2. ASSUME NEW r \in In(TablesOf(P)[d], lo, hi)
      PROVE  \E h \in lo..hi : r \in FileRows(d, h, P[d][h])
  <2>1. r \in TablesOf(P)[d] /\ r.height \in lo..hi
    BY DEF In
  <2>2. \E h \in Present(P, d) : r \in FileRows(d, h, P[d][h])
    <3>1. CASE d = "blocks"
      BY <2>1, <3>1 DEF TablesOf, FileRows
    <3>2. CASE d = "transactions"
      BY <2>1, <3>2 DEF TablesOf, FileRows
    <3>3. CASE d = "inputs"
      BY <2>1, <3>3 DEF TablesOf, FileRows
    <3>4. CASE d = "outputs"
      BY <2>1, <3>4 DEF TablesOf, FileRows
    <3> QED
      BY <3>1, <3>2, <3>3, <3>4, DatasetNames
  <2> QED
    BY <2>1, <2>2, FileRowHeights
<1> QED
  BY <1>1, <1>2

=============================================================================
