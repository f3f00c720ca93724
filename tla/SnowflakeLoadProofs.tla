-------------------------- MODULE SnowflakeLoadProofs --------------------------
(***************************************************************************)
(* Proofs about SnowflakeLoad, for every set of heights, blocks,           *)
(* transactions, windows and loaders.                                      *)
(***************************************************************************)
EXTENDS SnowflakeLoad, TablesProofs

-----------------------------------------------------------------------------
(* The inductive invariant.                                                *)

\* GateContract and the stores under it have their own copies of what
\* Blocks and Partitions define.
LEMMA SameFileData ==
    /\ \A dir : Gate!Derived!IsComplete(dir) = IsComplete(dir)
    /\ \A d, dir : Gate!Derived!RowsOf(d, dir) = RowsOf(d, dir)
    /\ Gate!Derived!Datasets = Datasets
    /\ \A d : Gate!Derived!Before(d) = Before(d)
    /\ \A h : Gate!Derived!Store!Fetches(h) = Fetches(h)
    /\ \A f : Gate!Derived!Store!Directory(f) = Directory(f)
BY DEF Gate!Derived!IsComplete, Gate!Derived!CountsAgree, Gate!Derived!RequiredFiles,
       Gate!Derived!BlockJson, Gate!Derived!TxsJsonl, Gate!Derived!MetaJson,
       Gate!Derived!RowsOf, Gate!Derived!Rows, Gate!Derived!Datasets,
       Gate!Derived!DatasetOrder, Gate!Derived!Before, Gate!Derived!Store!Fetches,
       Gate!Derived!Store!FetchOf,
       Gate!Derived!Store!FirstTxs, Gate!Derived!Store!Reports,
       Gate!Derived!Store!Directory, Gate!Derived!Store!Part,
       Gate!Derived!Store!Contents, Gate!Derived!Store!RequiredFiles,
       Gate!Derived!Store!BlockJson, Gate!Derived!Store!TxsJsonl,
       Gate!Derived!Store!MetaJson,
       IsComplete, CountsAgree, RequiredFiles, BlockJson, TxsJsonl, MetaJson, RowsOf, Rows,
       Datasets, DatasetOrder, Before, Fetches, FetchOf, FirstTxs, Reports, Directory, Part,
       Contents

LEMMA DerivedSteps ==
    Gate!Derived!Next =>
        FilesStep(raw, part, raw', part', OperatorDeletes, ParquetDeleted)
BY SameFileData
   DEF FilesStep, Gate!Derived!Next, Gate!Derived!Derive, Gate!Derived!Remove,
       Gate!Derived!Store!Next, Gate!Derived!Store!Publish, Gate!Derived!Store!Free,
       Gate!Derived!Store!OperatorRemoves

LEMMA DatasetIsOne ==
    \A i \in 1..4 : DatasetOrder[i] \in Datasets
BY DEF Datasets

\* Where a running load is.
LEMMA Here ==
    ASSUME IInv, NEW l \in Loaders, pc[l] \in {"next"} \cup Statements
    PROVE  /\ at[l] \in window[l].lo..window[l].hi
           /\ at[l] \in Heights
           /\ at[l] \in Nat
           /\ Dataset(l) \in Datasets
           /\ window[l] \in Windows /\ window[l].lo \in Nat /\ window[l].hi \in Nat
<1>1. at[l] \in window[l].lo..window[l].hi /\ window[l] \in Windows /\ nth[l] \in 1..4
      /\ at[l] \in Nat
  BY DEF IInv, TypeOK
<1>2. /\ window[l].lo..window[l].hi \subseteq Heights
      /\ window[l].lo \in Nat /\ window[l].hi \in Nat
  BY <1>1, WindowsAssumption
<1>3. Dataset(l) \in Datasets
  BY <1>1, DatasetIsOne DEF Dataset
<1> QED
  BY <1>1, <1>2, <1>3

LEMMA InitIInv == Init => IInv /\ KeysUnique
<1> SUFFICES ASSUME Init PROVE IInv /\ KeysUnique
  OBVIOUS
<1>1. FilesTyped(raw, part)
  BY SameFileData
     DEF Init, FilesTyped, Gate!Init, Gate!Derived!Init
<1>2. at \in [Loaders -> Nat]
  BY WindowsAssumption DEF Init
<1>3. TypeOK
  BY <1>1 DEF Init, TypeOK, FilesTyped, Gate!Init, Content, Statements, Running
<1> QED
  BY <1>2, <1>3 DEF Init, IInv, Placed, KeysUnique, Unique

\* On to the next dataset or height, or to the end.
LEMMA AdvanceStep ==
    ASSUME IInv, NEW l \in Loaders, pc[l] \in {"next"} \cup Statements, NEW ok \in BOOLEAN,
           Advance(l, ok), UNCHANGED <<files, table, stage, window>>
    PROVE  IInv'
<1>1. /\ failed' = [failed EXCEPT ![l] = failed[l] \/ ~ok]
      /\ temp' = [temp EXCEPT ![l] = {}]
  BY DEF Advance, FailedSoFar
<1>2. /\ at' \in [Loaders -> Nat] /\ nth' \in [Loaders -> 1..4]
      /\ pc' \in [Loaders -> {"start"} \cup Running \cup Ended]
      /\ pc'[l] \in {"next", "exit0", "exit1"}
      /\ at'[l] \in window[l].lo..window[l].hi
      /\ \A u \in Loaders \ {l} : pc'[u] = pc[u] /\ at'[u] = at[u] /\ nth'[u] = nth[u]
  <2>1. CASE nth[l] < 4
    <3>1. nth' = [nth EXCEPT ![l] = nth[l] + 1] /\ at' = at /\ pc' = [pc EXCEPT ![l] = "next"]
      BY <2>1 DEF Advance, Goto
    <3>2. nth[l] + 1 \in 1..4
      BY <2>1 DEF IInv, TypeOK
    <3> QED
      BY <3>1, <3>2, Here DEF IInv, TypeOK, Running
  <2>2. CASE ~(nth[l] < 4) /\ MoreHeights(l)
    <3>1. /\ nth' = [nth EXCEPT ![l] = 1]
          /\ at' = [at EXCEPT ![l] = at[l] + 1]
          /\ pc' = [pc EXCEPT ![l] = "next"]
      BY <2>2 DEF Advance, Goto
    <3>2. at[l] + 1 \in window[l].lo..window[l].hi /\ at[l] + 1 \in Nat
      BY <2>2, Here DEF MoreHeights
    <3> QED
      BY <3>1, <3>2 DEF IInv, TypeOK, Running
  <2>3. CASE ~(nth[l] < 4) /\ ~MoreHeights(l)
    <3>1. /\ nth' = [nth EXCEPT ![l] = 1] /\ at' = at
          /\ \E exit \in {"exit0", "exit1"} : pc' = [pc EXCEPT ![l] = exit]
      BY <2>3 DEF Advance, Goto
    <3> QED
      BY <3>1, Here DEF IInv, TypeOK, Ended
  <2> QED
    BY <2>1, <2>2, <2>3
<1>3. \A u \in Loaders \ {l} : temp'[u] = temp[u]
  BY <1>1 DEF IInv, TypeOK
<1>4. temp'[l] = {}
  BY <1>1 DEF IInv, TypeOK
<1>5. TypeOK'
  BY <1>1, <1>2, <1>3, <1>4 DEF IInv, TypeOK, files
<1> QED
  BY <1>2, <1>3, <1>4, <1>5 DEF IInv, Placed, Dataset

\* A step that goes to another label, with nothing in the temporary table.
LEMMA MoveStep ==
    ASSUME IInv, NEW l \in Loaders, NEW label \in Running \cup Ended,
           Goto(l, label), UNCHANGED <<files, table, stage, window, at, nth, failed>>,
           UNCHANGED temp \/ temp' = [temp EXCEPT ![l] = {}],
           temp'[l] = {},
           label \in {"connect", "report"} => at[l] = window[l].lo /\ window[l].lo <= window[l].hi,
           label \in {"create", "copy"} => stage[Dataset(l)][at[l]] # NoFile,
           label \in {"next"} \cup Statements => at[l] \in window[l].lo..window[l].hi
    PROVE  IInv'
<1>1. pc' = [pc EXCEPT ![l] = label]
  BY DEF Goto
<1>2. \A u \in Loaders : temp'[u] = temp[u] \/ temp'[u] = {}
  BY DEF IInv, TypeOK
<1>3. TypeOK'
  BY <1>1, <1>2 DEF IInv, TypeOK, files
<1>4. at' \in [Loaders -> Nat]
  BY DEF IInv
<1>5. ASSUME NEW u \in Loaders \ {l} PROVE Placed(u)'
  <2>1. pc'[u] = pc[u]
    BY <1>1 DEF IInv, TypeOK
  <2>2. Placed(u)
    BY DEF IInv
  <2> QED
    BY <1>2, <2>1, <2>2 DEF Placed, Dataset
<1>6. Placed(l)'
  <2>1. pc'[l] = label /\ label # "start"
    BY <1>1 DEF IInv, TypeOK, Running, Statements, Ended
  <2> QED
    BY <2>1 DEF Placed, Dataset
<1> QED
  BY <1>3, <1>4, <1>5, <1>6 DEF IInv

LEMMA PutStep == ASSUME IInv, NEW l \in Loaders, Put(l) PROVE IInv'
<1>1. /\ part[Dataset(l)][at[l]] # NoFile
      /\ stage' = [stage EXCEPT ![Dataset(l)][at[l]] = part[Dataset(l)][at[l]]]
      /\ pc' = [pc EXCEPT ![l] = "create"] /\ pc[l] = "put"
      /\ UNCHANGED <<files, table, window, at, nth, temp, failed>>
  BY DEF Put, Goto
<1>2. Dataset(l) \in Datasets /\ at[l] \in Heights /\ at[l] \in window[l].lo..window[l].hi
  BY <1>1, Here DEF Statements
<1>3. part[Dataset(l)][at[l]] \in RowSet(Dataset(l))
  BY <1>1, <1>2 DEF IInv, TypeOK
<1>4. /\ DOMAIN stage' = Datasets
      /\ \A d \in Datasets : stage'[d] \in [Heights -> RowSet(d) \cup {NoFile}]
  BY <1>1, <1>2, <1>3 DEF IInv, TypeOK
<1>5. TypeOK'
  BY <1>1, <1>2, <1>4 DEF IInv, TypeOK, files, Running, Statements
<1>6. stage'[Dataset(l)][at[l]] # NoFile
  BY <1>1, <1>2 DEF IInv, TypeOK
<1>7. \A d \in Datasets, h \in Heights : stage[d][h] # NoFile => stage'[d][h] # NoFile
  BY <1>1, <1>2 DEF IInv, TypeOK
<1>8. ASSUME NEW u \in Loaders PROVE Placed(u)'
  <2>1. Placed(u)
    BY DEF IInv
  <2>2. CASE u = l
    BY <1>1, <1>6, <2>1, <2>2 DEF IInv, TypeOK, Placed, Dataset
  <2>3. CASE u # l
    <3>1. pc'[u] = pc[u]
      BY <1>1, <2>3 DEF IInv, TypeOK
    <3>2. pc[u] \in {"create", "copy"} => Dataset(u) \in Datasets /\ at[u] \in Heights
      BY Here DEF Statements
    <3> QED
      BY <1>1, <1>7, <2>1, <3>1, <3>2 DEF Placed, Dataset
  <2> QED
    BY <2>2, <2>3
<1> QED
  BY <1>1, <1>5, <1>8 DEF IInv

LEMMA CopyStep == ASSUME IInv, NEW l \in Loaders, CopyInto(l) PROVE IInv'
<1> DEFINE rows == FileRows(Dataset(l), at[l], stage[Dataset(l)][at[l]])
<1>1. /\ temp' = [temp EXCEPT ![l] = temp[l] \cup rows]
      /\ pc' = [pc EXCEPT ![l] = "merge"] /\ pc[l] = "copy"
      /\ UNCHANGED <<files, table, stage, window, at, nth, failed>>
  BY DEF CopyInto, Goto
<1>2. Dataset(l) \in Datasets /\ at[l] \in Heights /\ at[l] \in window[l].lo..window[l].hi
  BY <1>1, Here DEF Statements
<1>3. Placed(l)
  BY DEF IInv
<1>4. temp[l] = {} /\ stage[Dataset(l)][at[l]] # NoFile
  BY <1>1, <1>3 DEF Placed
<1>5. stage[Dataset(l)][at[l]] \in RowSet(Dataset(l))
  BY <1>2, <1>4 DEF IInv, TypeOK
<1>6. rows \subseteq RowsIn(Dataset(l))
  BY <1>2, <1>5 DEF RowsIn
<1>7. temp'[l] = rows /\ DOMAIN temp' = Loaders /\ \A u \in Loaders \ {l} : temp'[u] = temp[u]
  BY <1>1, <1>4 DEF IInv, TypeOK
<1>8. TypeOK'
  BY <1>1, <1>2, <1>6, <1>7 DEF IInv, TypeOK, files, Running, Statements, Dataset
<1>9. ASSUME NEW u \in Loaders PROVE Placed(u)'
  <2>1. Placed(u)
    BY DEF IInv
  <2>2. CASE u = l
    <3>1. pc'[u] = "merge"
      BY <1>1, <2>2 DEF IInv, TypeOK
    <3> QED
      BY <1>1, <1>5, <1>7, <2>2, <3>1 DEF Placed, Dataset
  <2>3. CASE u # l
    <3>1. pc'[u] = pc[u]
      BY <1>1, <2>3 DEF IInv, TypeOK
    <3> QED
      BY <1>1, <1>7, <2>1, <2>3, <3>1 DEF Placed, Dataset
  <2> QED
    BY <2>2, <2>3
<1> QED
  BY <1>1, <1>8, <1>9 DEF IInv

LEMMA MergeStep ==
    ASSUME IInv, KeysUnique, NEW l \in Loaders, MergeInto(l)
    PROVE  IInv' /\ KeysUnique'
<1> DEFINE d == Dataset(l)
<1>1. /\ table' = [table EXCEPT ![d] = Merge(d, table[d], temp[l])]
      /\ pc' = [pc EXCEPT ![l] = "drop"] /\ pc[l] = "merge"
      /\ UNCHANGED <<files, stage, window, at, nth, temp, failed>>
  BY DEF MergeInto, Goto
<1>2. d \in Datasets /\ at[l] \in Heights /\ at[l] \in window[l].lo..window[l].hi
  BY <1>1, Here DEF Statements
<1>3. temp[l] \subseteq RowsIn(d)
  BY DEF IInv, TypeOK, Dataset
<1>4. Content(Merge(d, table[d], temp[l])) \subseteq RowsIn(d)
  BY <1>2, <1>3, MergedContent DEF IInv, TypeOK
<1>5. KeyedRows(d, temp[l])
  <2>1. CASE temp[l] = {}
    BY <2>1 DEF KeyedRows
  <2>2. CASE temp[l] # {}
    <3>1. PICK file \in RowSet(d) : temp[l] = FileRows(d, at[l], file)
      BY <2>2 DEF IInv, Placed
    <3> QED
      BY <1>2, <3>1, FileRowsKeyed DEF KeyedRows
  <2> QED
    BY <2>1, <2>2
<1>6. KeyedTable(d, table[d])
  BY <1>2 DEF KeysUnique, Unique, KeyedTable
<1>7. KeyedTable(d, Merge(d, table[d], temp[l]))
  BY <1>5, <1>6, MergeKeepsKeys
<1> HIDE DEF d
<1>8. /\ DOMAIN table' = Datasets /\ table'[d] = Merge(d, table[d], temp[l])
      /\ \A e \in Datasets \ {d} : table'[e] = table[e]
  BY <1>1, <1>2 DEF IInv, TypeOK
<1>9. TypeOK'
  BY <1>1, <1>2, <1>4, <1>8 DEF IInv, TypeOK, files, Running, Statements
<1>10. ASSUME NEW u \in Loaders PROVE Placed(u)'
  <2>1. Placed(u)
    BY DEF IInv
  <2>2. pc'[u] = pc[u] \/ (pc[u] = "merge" /\ pc'[u] = "drop")
    BY <1>1 DEF IInv, TypeOK
  <2> QED
    BY <1>1, <2>1, <2>2 DEF Placed, Dataset
<1>11. KeysUnique'
  BY <1>7, <1>8 DEF KeysUnique, Unique, KeyedTable
<1> QED
  BY <1>1, <1>9, <1>10, <1>11 DEF IInv

\* The steps that only go to another label.
LEMMA QuietSteps ==
    ASSUME IInv, NEW l \in Loaders,
           \/ BadRange(l) \/ NoCredentials(l) \/ Start(l) \/ Connect(l) \/ ConnectFails(l)
           \/ ReadReport(l) \/ LocalFileExists(l) \/ CreateTemp(l) \/ Kill(l)
    PROVE  IInv'
<1>1. Placed(l) /\ l \in DOMAIN temp
  BY DEF IInv, TypeOK
<1>2. pc[l] \notin {"merge", "drop"} => temp[l] = {}
  BY <1>1 DEF Placed
<1>3. window[l] \in Windows /\ window[l].lo \in Nat /\ window[l].hi \in Nat
  BY WindowsAssumption DEF IInv, TypeOK
<1>4. CASE BadRange(l) \/ NoCredentials(l)
  BY <1>2, <1>4, MoveStep DEF BadRange, NoCredentials, Ended, Running, Statements
<1>5. CASE Start(l)
  BY <1>1, <1>2, <1>5, MoveStep DEF Start, Placed, Running, Statements
<1>6. CASE Connect(l) \/ ConnectFails(l)
  BY <1>1, <1>2, <1>6, MoveStep DEF Connect, ConnectFails, Placed, Running, Ended, Statements
<1>7. CASE ReadReport(l)
  <2>1. \E label \in {"next", "exit1", "exit2"} : Goto(l, label)
    BY <1>7 DEF ReadReport
  <2>2. at[l] \in window[l].lo..window[l].hi
    BY <1>1, <1>3, <1>7 DEF ReadReport, Placed
  <2> QED
    BY <1>2, <1>7, <2>1, <2>2, MoveStep DEF ReadReport, Running, Ended, Statements
<1>8. CASE LocalFileExists(l)
  <2>1. at[l] \in window[l].lo..window[l].hi
    BY <1>8, Here DEF LocalFileExists
  <2> QED
    BY <1>2, <1>8, <2>1, MoveStep DEF LocalFileExists, Running, Statements
<1>9. CASE CreateTemp(l)
  <2>1. at[l] \in window[l].lo..window[l].hi /\ stage[Dataset(l)][at[l]] # NoFile
    BY <1>1, <1>9, Here DEF CreateTemp, Placed, Statements
  <2>2. temp'[l] = {}
    BY <1>1, <1>9 DEF CreateTemp
  <2> QED
    BY <1>9, <2>1, <2>2, MoveStep DEF CreateTemp, Running, Statements
<1>10. CASE Kill(l)
  <2>1. temp'[l] = {}
    BY <1>1, <1>10 DEF Kill
  <2> QED
    BY <1>10, <2>1, MoveStep DEF Kill, Running, Ended, Statements
<1> QED
  BY <1>4, <1>5, <1>6, <1>7, <1>8, <1>9, <1>10

LEMMA NextIInv == IInv /\ KeysUnique /\ [Next]_vars => IInv' /\ KeysUnique'
<1> SUFFICES ASSUME IInv, KeysUnique, [Next]_vars PROVE IInv' /\ KeysUnique'
  OBVIOUS
<1>1. ASSUME UNCHANGED table PROVE KeysUnique'
  BY <1>1 DEF KeysUnique, Unique
<1>2. ASSUME NEW l \in Loaders, Step(l) \/ Kill(l)
      PROVE  IInv' /\ KeysUnique'
  <2>1. CASE \/ BadRange(l) \/ NoCredentials(l) \/ Start(l) \/ Connect(l) \/ ConnectFails(l)
             \/ ReadReport(l) \/ LocalFileExists(l) \/ CreateTemp(l) \/ Kill(l)
    <3>1. UNCHANGED table
      BY <2>1 DEF BadRange, NoCredentials, Start, Connect, ConnectFails, ReadReport,
                  LocalFileExists, CreateTemp, Kill
    <3> QED
      BY <1>1, <2>1, <3>1, QuietSteps
  <2>2. CASE LocalFileMissing(l)
    BY <1>1, <2>2, AdvanceStep DEF LocalFileMissing
  <2>3. CASE DropTemp(l)
    BY <1>1, <2>3, AdvanceStep DEF DropTemp, Statements
  <2>4. CASE StatementFails(l)
    BY <1>1, <2>4, AdvanceStep DEF StatementFails
  <2>5. CASE Put(l)
    BY <1>1, <2>5, PutStep DEF Put
  <2>6. CASE CopyInto(l)
    BY <1>1, <2>6, CopyStep DEF CopyInto
  <2>7. CASE MergeInto(l)
    BY <2>7, MergeStep
  <2> QED
    BY <1>2, <2>1, <2>2, <2>3, <2>4, <2>5, <2>6, <2>7 DEF Step
<1>3. CASE FilesChange
  <2>1. UNCHANGED <<table, stage, pc, window, at, nth, temp, failed>>
    BY <1>3 DEF FilesChange, local
  <2>2. CASE Gate!Derived!Next /\ UNCHANGED report
    <3>1. FilesTyped(raw, part)
      BY DEF IInv, TypeOK, FilesTyped
    <3>2. FilesTyped(raw', part')
      BY <2>2, <3>1, DerivedSteps, FilesStayTyped
    <3> QED
      BY <1>1, <2>1, <2>2, <3>2 DEF IInv, TypeOK, FilesTyped, Placed, Dataset
  <2>3. CASE \E w \in Windows, outcome \in Gate!Outcomes : Gate!Write(w, outcome)
    <3>1. UNCHANGED <<raw, part>> /\ report' \in [Windows -> {"none", "torn", "PASS", "FAIL"}]
      BY <2>3 DEF Gate!Write, Gate!Outcomes, IInv, TypeOK
    <3> QED
      BY <1>1, <2>1, <3>1 DEF IInv, TypeOK, Placed, Dataset
  <2> QED
    BY <1>3, <2>2, <2>3 DEF FilesChange, Gate!Next
<1>4. CASE UNCHANGED vars
  <2>1. UNCHANGED <<raw, part, report, table, stage, pc, window, at, nth, temp, failed>>
    BY <1>4 DEF vars, files, local
  <2> QED
    BY <1>1, <2>1 DEF IInv, TypeOK, Placed, Dataset
<1> QED
  BY <1>2, <1>3, <1>4 DEF Next

THEOREM InductiveInvariant == Spec => [](IInv /\ KeysUnique)
BY InitIInv, NextIInv, PTL DEF Spec

\* What a load holds, and what there is in the stage and in the tables,
\* are rows of files of the right dataset.
THEOREM TypeCorrect == Spec => []TypeOK
<1>1. IInv => TypeOK
  BY DEF IInv
<1> QED
  BY <1>1, InductiveInvariant, PTL

\* However many loads run, fail, are killed and are run again over one
\* stage, no table has two rows of a key (README.md:323-324).
THEOREM KeysStayUnique == Spec => []KeysUnique
BY InductiveInvariant, PTL

-----------------------------------------------------------------------------
(* Where nothing is deleted.                                               *)

\* GateContract has its own copies of the operators of QualityChecks.
LEMMA SameGateSums == \A rows : Gate!ValueOf(rows) = ValueOf(rows)
BY DEF ValueOf, Gate!ValueOf, MapThenSumSet, Gate!MapThenSumSet, MapThenFoldSet,
       Gate!MapThenFoldSet

LEMMA SameGateChecks == \A n, T, lo, hi : Gate!Check(n, T, lo, hi) <=> Check(n, T, lo, hi)
BY SameGateSums
   DEF Check, Gate!Check, HeightsPresent, Gate!HeightsPresent, NoDuplicateHeights,
       Gate!NoDuplicateHeights, NoDuplicateHashes, Gate!NoDuplicateHashes,
       TxCountMatches, Gate!TxCountMatches, ExactlyOneCoinbase, Gate!ExactlyOneCoinbase,
       BlockHeightHashAgree, Gate!BlockHeightHashAgree, ChainLinkageInternal,
       Gate!ChainLinkageInternal, TxidUnique, Gate!TxidUnique, TxReferencesLoadedBlock,
       Gate!TxReferencesLoadedBlock, TxIndexNonnegative, Gate!TxIndexNonnegative,
       TxIndexUniquePerBlock, Gate!TxIndexUniquePerBlock, TxHasInput, Gate!TxHasInput,
       TxHasOutput, Gate!TxHasOutput, OrdinaryTxNoCoinbaseInput,
       Gate!OrdinaryTxNoCoinbaseInput, InputIndexUnique, Gate!InputIndexUnique,
       OrdinaryInputsHavePrevRef, Gate!OrdinaryInputsHavePrevRef,
       PrevOutputValueNonnegative, Gate!PrevOutputValueNonnegative,
       InternalInputsResolveUniquely, Gate!InternalInputsResolveUniquely,
       OutputIndexUnique, Gate!OutputIndexUnique, OutputValueNonnegative,
       Gate!OutputValueNonnegative, OutputsReferenceValidTx,
       Gate!OutputsReferenceValidTx, FeeArithmetic, Gate!FeeArithmetic, FeesNonnegative,
       Gate!FeesNonnegative, SizePositive, Gate!SizePositive, WeightPositive,
       Gate!WeightPositive, VsizeFormula, Gate!VsizeFormula, WeightBoundedBySize,
       Gate!WeightBoundedBySize, In, Gate!In, Unique, Gate!Unique, OrdinaryInputs,
       Gate!OrdinaryInputs, Internal, Gate!Internal, InputsOf, Gate!InputsOf, OutputsOf,
       Gate!OutputsOf

LEMMA SameGateTables == \A P : Gate!TablesOf(P) = TablesOf(P)
BY DEF TablesOf, Gate!TablesOf, Present, Gate!Present, FlattenBlock, Gate!FlattenBlock,
       FlattenTransactions, Gate!FlattenTransactions, FlattenInputs, Gate!FlattenInputs,
       FlattenOutputs, Gate!FlattenOutputs, TxOf, Gate!TxOf, IsCoinbase, Gate!IsCoinbase,
       vsizeFromWeight, Gate!vsizeFromWeight

LEMMA SameGateCleared == \A P, w : Gate!Cleared(P, w) <=> Cleared(P, w)
<1>1. \A P, w : Gate!CountsKnown(P, w) <=> CountsKnown(P, w)
  BY DEF CountsKnown, Gate!CountsKnown, Present, Gate!Present
<1>2. \A P, w : Gate!PartitionsComplete(P, w) <=> PartitionsComplete(P, w)
  BY DEF PartitionsComplete, Gate!PartitionsComplete, Present, Gate!Present,
         Datasets, Gate!Datasets, DatasetOrder, Gate!DatasetOrder
<1>3. \A T, lo, hi : Gate!AllChecksPass(T, lo, hi) <=> AllChecksPass(T, lo, hi)
  BY SameGateChecks DEF AllChecksPass, Gate!AllChecksPass, NumChecks, Gate!NumChecks
<1> QED
  BY <1>1, <1>2, <1>3, SameGateTables DEF Cleared, Gate!Cleared, Sound, Gate!Sound

LEMMA AdvancePlaces ==
    ASSUME IInv, NEW l \in Loaders, NEW ok \in BOOLEAN, Advance(l, ok)
    PROVE  /\ pc'[l] \in {"next", "exit0", "exit1"}
           /\ \A u \in Loaders \ {l} : pc'[u] = pc[u] /\ at'[u] = at[u] /\ nth'[u] = nth[u]
                                       /\ temp'[u] = temp[u] /\ failed'[u] = failed[u]
           /\ failed'[l] = (failed[l] \/ ~ok)
           /\ pc'[l] = "exit0" => ~failed'[l]
<1>1. /\ failed' = [failed EXCEPT ![l] = failed[l] \/ ~ok]
      /\ temp' = [temp EXCEPT ![l] = {}]
  BY DEF Advance, FailedSoFar
<1>2. CASE nth[l] < 4
  BY <1>1, <1>2 DEF Advance, Goto, IInv, TypeOK
<1>3. CASE ~(nth[l] < 4) /\ MoreHeights(l)
  BY <1>1, <1>3 DEF Advance, Goto, IInv, TypeOK
<1>4. CASE ~(nth[l] < 4) /\ ~MoreHeights(l)
  BY <1>1, <1>4 DEF Advance, Goto, IInv, TypeOK
<1> QED
  BY <1>2, <1>3, <1>4

\* What a step does to the other loads.
LEMMA OthersStay ==
    ASSUME IInv, NEW l \in Loaders, Step(l) \/ Kill(l)
    PROVE  /\ UNCHANGED <<raw, part, report, window>>
           /\ \A u \in Loaders \ {l} : pc'[u] = pc[u] /\ at'[u] = at[u] /\ nth'[u] = nth[u]
                                       /\ temp'[u] = temp[u] /\ failed'[u] = failed[u]
<1>1. CASE BadRange(l) \/ NoCredentials(l) \/ Start(l) \/ Connect(l) \/ ConnectFails(l)
           \/ ReadReport(l)
  BY <1>1 DEF BadRange, NoCredentials, Start, Connect, ConnectFails, ReadReport, Goto,
              files, IInv, TypeOK
<1>2. CASE LocalFileMissing(l) \/ DropTemp(l) \/ StatementFails(l)
  BY <1>2, AdvancePlaces DEF LocalFileMissing, DropTemp, StatementFails, files
<1>3. CASE LocalFileExists(l) \/ Put(l) \/ CreateTemp(l) \/ CopyInto(l) \/ MergeInto(l)
           \/ Kill(l)
  BY <1>3 DEF LocalFileExists, Put, CreateTemp, CopyInto, MergeInto, Kill, Goto, files,
              IInv, TypeOK
<1> QED
  BY <1>1, <1>2, <1>3 DEF Step

LEMMA InitKept == Init => KeptInv
<1> SUFFICES ASSUME Init, ~OperatorDeletes, ~ParquetDeleted PROVE KeptInv
  BY DEF KeptInv
<1>1. FilesKept(raw, part)
  BY SameFileData, DatasetNames
     DEF Init, FilesKept, Gate!Init, Gate!Derived!Init
<1>2. \A w \in Windows : report[w] # "PASS"
  BY DEF Init, Gate!Init
<1> QED
  BY <1>1, <1>2 DEF Init, KeptInv, Statements

LEMMA NextKept == IInv /\ KeptInv /\ [Next]_vars => KeptInv'
<1> SUFFICES ASSUME IInv, KeptInv, [Next]_vars, ~OperatorDeletes, ~ParquetDeleted
             PROVE  KeptInv'
  BY DEF KeptInv
<1>0. /\ FilesTyped(raw, part)
      /\ FilesKept(raw, part)
      /\ \A w \in Windows : report[w] = "PASS" => Cleared(part, w)
      /\ \A d \in Datasets, h \in Heights : stage[d][h] # NoFile => part[d][h] = stage[d][h]
  BY DEF KeptInv, IInv, TypeOK, FilesTyped
<1> DEFINE Kept(l) ==
             /\ pc[l] \in {"next", "exit0"} \cup Statements => Cleared(part, window[l])
             /\ pc[l] = "merge" =>
                  /\ part[Dataset(l)][at[l]] # NoFile
                  /\ temp[l] = FileRows(Dataset(l), at[l], part[Dataset(l)][at[l]])
<1>1. \A l \in Loaders : Kept(l)
  BY DEF KeptInv
<1>2. ASSUME NEW l \in Loaders, Step(l) \/ Kill(l)
      PROVE  KeptInv'
  <2>1. /\ UNCHANGED <<raw, part, report, window>>
        /\ \A u \in Loaders \ {l} : pc'[u] = pc[u] /\ at'[u] = at[u] /\ nth'[u] = nth[u]
                                    /\ temp'[u] = temp[u] /\ failed'[u] = failed[u]
    BY <1>2, OthersStay
  <2>2. \A u \in Loaders \ {l} : Kept(u)'
    BY <1>1, <2>1 DEF Dataset
  <2>3. FilesKept(raw', part') /\ \A w \in Windows : report'[w] = "PASS" => Cleared(part', w)
    BY <1>0, <2>1
  <2>4. \A d \in Datasets, h \in Heights : stage'[d][h] # NoFile => part'[d][h] = stage'[d][h]
    <3>1. CASE UNCHANGED stage
      BY <1>0, <2>1, <3>1
    <3>2. CASE Put(l)
      <4>1. stage' = [stage EXCEPT ![Dataset(l)][at[l]] = part[Dataset(l)][at[l]]]
        BY <3>2 DEF Put
      <4>2. Dataset(l) \in Datasets /\ at[l] \in Heights
        BY <3>2, Here DEF Put, Statements
      <4> QED
        BY <1>0, <2>1, <4>1, <4>2 DEF IInv, TypeOK
    <3> QED
      BY <1>2, <3>1, <3>2
         DEF Step, BadRange, NoCredentials, Start, Connect, ConnectFails, ReadReport,
             LocalFileMissing, LocalFileExists, CreateTemp, CopyInto, MergeInto, DropTemp,
             StatementFails, Kill
  <2>5. Kept(l)'
    <3>1. CASE ReadReport(l)
      <4>1. pc' = [pc EXCEPT ![l] = IF report[window[l]] = "PASS" THEN "next"
                                    ELSE IF report[window[l]] = "torn" THEN "exit1" ELSE "exit2"]
        BY <3>1 DEF ReadReport, Goto, Passing
      <4>2. window[l] \in Windows
        BY DEF IInv, TypeOK
      <4>3. pc'[l] \in {"next", "exit1", "exit2"}
            /\ (pc'[l] = "next" => report[window[l]] = "PASS")
        BY <4>1 DEF IInv, TypeOK
      <4> QED
        BY <1>0, <2>1, <4>2, <4>3 DEF Statements
    <3>2. CASE BadRange(l) \/ NoCredentials(l) \/ Start(l) \/ Connect(l) \/ ConnectFails(l)
               \/ Kill(l)
      <4>1. pc'[l] \in {"exit2", "connect", "report", "exit1", "killed"}
        BY <3>2 DEF BadRange, NoCredentials, Start, Connect, ConnectFails, Kill, Goto,
                    IInv, TypeOK
      <4> QED
        BY <4>1 DEF Statements
    <3>3. CASE LocalFileMissing(l) \/ DropTemp(l) \/ StatementFails(l)
      <4>1. pc[l] \in {"next"} \cup Statements
            /\ \E ok \in BOOLEAN : Advance(l, ok)
        BY <3>3 DEF LocalFileMissing, DropTemp, StatementFails, Statements
      <4>2. pc'[l] \in {"next", "exit0", "exit1"}
        BY <4>1, AdvancePlaces
      <4> QED
        BY <1>1, <2>1, <4>1, <4>2
    <3>4. CASE LocalFileExists(l) \/ Put(l) \/ CreateTemp(l) \/ MergeInto(l)
      <4>1. pc[l] \in {"next"} \cup Statements /\ pc'[l] # "merge"
        BY <3>4 DEF LocalFileExists, Put, CreateTemp, MergeInto, Goto, Statements, IInv, TypeOK
      <4> QED
        BY <1>1, <2>1, <4>1
    <3>5. CASE CopyInto(l)
      <4>1. /\ pc[l] = "copy" /\ UNCHANGED <<at, nth, stage>>
            /\ temp' = [temp EXCEPT ![l] =
                  temp[l] \cup FileRows(Dataset(l), at[l], stage[Dataset(l)][at[l]])]
        BY <3>5 DEF CopyInto
      <4>2. Dataset(l) \in Datasets /\ at[l] \in Heights
        BY <4>1, Here DEF Statements
      <4>3. stage[Dataset(l)][at[l]] # NoFile /\ temp[l] = {}
        BY <4>1 DEF IInv, Placed
      <4>4. part[Dataset(l)][at[l]] = stage[Dataset(l)][at[l]]
        BY <1>0, <4>2, <4>3
      <4>5. temp'[l] = FileRows(Dataset(l), at[l], part[Dataset(l)][at[l]])
        BY <4>1, <4>3, <4>4 DEF IInv, TypeOK
      <4>6. Dataset(l)' = Dataset(l)
        BY <4>1 DEF Dataset
      <4>7. Cleared(part, window[l])
        BY <1>1, <4>1 DEF Statements
      <4> QED
        BY <2>1, <4>1, <4>3, <4>4, <4>5, <4>6, <4>7
    <3> QED
      BY <1>2, <3>1, <3>2, <3>3, <3>4, <3>5 DEF Step
  <2> QED
    BY <2>2, <2>3, <2>4, <2>5 DEF KeptInv
<1>3. CASE FilesChange
  <2>1. UNCHANGED <<table, stage, pc, window, at, nth, temp, failed>>
    BY <1>3 DEF FilesChange, local
  <2>2. CASE Gate!Derived!Next /\ UNCHANGED report
    <3>1. FilesGrow(raw, part, raw', part') /\ FilesKept(raw', part')
      BY <1>0, <2>2, DerivedSteps, FilesOnlyGrow
    <3>2. \A w \in Windows : Cleared(part, w) => Cleared(part', w)
      BY <3>1, ClearedStays
    <3>3. \A d \in Datasets, h \in Heights : stage[d][h] # NoFile => part'[d][h] = stage[d][h]
      BY <1>0, <3>1 DEF FilesGrow
    <3>4. ASSUME NEW l \in Loaders PROVE Kept(l)'
      <4>1. window[l] \in Windows
        BY DEF IInv, TypeOK
      <4>2. CASE pc[l] = "merge"
        <5>1. Dataset(l) \in Datasets /\ at[l] \in Heights
          BY <4>2, Here DEF Statements
        <5>2. part'[Dataset(l)][at[l]] = part[Dataset(l)][at[l]]
          BY <1>1, <3>1, <4>2, <5>1 DEF FilesGrow
        <5> QED
          BY <1>1, <2>1, <3>2, <4>1, <4>2, <5>2 DEF Dataset
      <4>3. CASE pc[l] # "merge"
        BY <1>1, <2>1, <3>2, <4>1, <4>3
      <4> QED
        BY <4>2, <4>3
    <3> QED
      BY <1>0, <2>1, <2>2, <3>1, <3>2, <3>3, <3>4 DEF KeptInv
  <2>3. CASE \E w \in Windows, outcome \in Gate!Outcomes : Gate!Write(w, outcome)
    <3>1. PICK w \in Windows, outcome \in Gate!Outcomes : Gate!Write(w, outcome)
      BY <2>3
    <3>2. /\ UNCHANGED <<raw, part>>
          /\ report' = [report EXCEPT ![w] = outcome]
          /\ outcome = "PASS" => Cleared(part, w)
      BY <3>1, SameGateCleared DEF Gate!Write
    <3>3. \A v \in Windows : report'[v] = "PASS" => Cleared(part', v)
      BY <1>0, <3>2 DEF IInv, TypeOK
    <3>4. \A l \in Loaders : Kept(l)'
      BY <1>1, <2>1, <3>2 DEF Dataset
    <3> QED
      BY <1>0, <2>1, <3>2, <3>3, <3>4 DEF KeptInv
  <2> QED
    BY <1>3, <2>2, <2>3 DEF FilesChange, Gate!Next
<1>4. CASE UNCHANGED vars
  <2>1. UNCHANGED <<raw, part, report, table, stage, pc, window, at, nth, temp, failed>>
    BY <1>4 DEF vars, files, local
  <2>2. \A l \in Loaders : Kept(l)'
    BY <1>1, <2>1 DEF Dataset
  <2> QED
    BY <1>0, <2>1, <2>2 DEF KeptInv
<1> QED
  BY <1>2, <1>3, <1>4 DEF Next

LEMMA KeptInvariant == Spec => []KeptInv
<1>1. Init => KeptInv
  BY InitKept
<1>2. IInv /\ KeptInv /\ [Next]_vars => KeptInv'
  BY NextKept
<1>3. Spec => []IInv
  BY InductiveInvariant, PTL
<1> QED
  BY <1>1, <1>2, <1>3, PTL DEF Spec

-----------------------------------------------------------------------------
(* The loads implement Warehouse, which has its own copies too.            *)

LEMMA SameRawSums == \A rows : RAW!ValueOf(rows) = ValueOf(rows)
BY DEF ValueOf, RAW!ValueOf, MapThenSumSet, RAW!MapThenSumSet, MapThenFoldSet,
       RAW!MapThenFoldSet

LEMMA SameRawChecks == \A n, T, lo, hi : RAW!Check(n, T, lo, hi) <=> Check(n, T, lo, hi)
BY SameRawSums
   DEF Check, RAW!Check, HeightsPresent, RAW!HeightsPresent, NoDuplicateHeights,
       RAW!NoDuplicateHeights, NoDuplicateHashes, RAW!NoDuplicateHashes,
       TxCountMatches, RAW!TxCountMatches, ExactlyOneCoinbase, RAW!ExactlyOneCoinbase,
       BlockHeightHashAgree, RAW!BlockHeightHashAgree, ChainLinkageInternal,
       RAW!ChainLinkageInternal, TxidUnique, RAW!TxidUnique, TxReferencesLoadedBlock,
       RAW!TxReferencesLoadedBlock, TxIndexNonnegative, RAW!TxIndexNonnegative,
       TxIndexUniquePerBlock, RAW!TxIndexUniquePerBlock, TxHasInput, RAW!TxHasInput,
       TxHasOutput, RAW!TxHasOutput, OrdinaryTxNoCoinbaseInput,
       RAW!OrdinaryTxNoCoinbaseInput, InputIndexUnique, RAW!InputIndexUnique,
       OrdinaryInputsHavePrevRef, RAW!OrdinaryInputsHavePrevRef,
       PrevOutputValueNonnegative, RAW!PrevOutputValueNonnegative,
       InternalInputsResolveUniquely, RAW!InternalInputsResolveUniquely,
       OutputIndexUnique, RAW!OutputIndexUnique, OutputValueNonnegative,
       RAW!OutputValueNonnegative, OutputsReferenceValidTx,
       RAW!OutputsReferenceValidTx, FeeArithmetic, RAW!FeeArithmetic, FeesNonnegative,
       RAW!FeesNonnegative, SizePositive, RAW!SizePositive, WeightPositive,
       RAW!WeightPositive, VsizeFormula, RAW!VsizeFormula, WeightBoundedBySize,
       RAW!WeightBoundedBySize, In, RAW!In, Unique, RAW!Unique, OrdinaryInputs,
       RAW!OrdinaryInputs, Internal, RAW!Internal, InputsOf, RAW!InputsOf, OutputsOf,
       RAW!OutputsOf

LEMMA SameRawTables == \A P : RAW!TablesOf(P) = TablesOf(P)
BY DEF TablesOf, RAW!TablesOf, Present, RAW!Present, FlattenBlock, RAW!FlattenBlock,
       FlattenTransactions, RAW!FlattenTransactions, FlattenInputs, RAW!FlattenInputs,
       FlattenOutputs, RAW!FlattenOutputs, TxOf, RAW!TxOf, IsCoinbase, RAW!IsCoinbase,
       vsizeFromWeight, RAW!vsizeFromWeight

LEMMA SameRawCleared == \A P, w : RAW!Cleared(P, w) <=> Cleared(P, w)
<1>1. \A P, w : RAW!CountsKnown(P, w) <=> CountsKnown(P, w)
  BY DEF CountsKnown, RAW!CountsKnown, Present, RAW!Present
<1>2. \A P, w : RAW!PartitionsComplete(P, w) <=> PartitionsComplete(P, w)
  BY DEF PartitionsComplete, RAW!PartitionsComplete, Present, RAW!Present,
         Datasets, RAW!Datasets, DatasetOrder, RAW!DatasetOrder
<1>3. \A T, lo, hi : RAW!AllChecksPass(T, lo, hi) <=> AllChecksPass(T, lo, hi)
  BY SameRawChecks DEF AllChecksPass, RAW!AllChecksPass, NumChecks, RAW!NumChecks
<1> QED
  BY <1>1, <1>2, <1>3, SameRawTables DEF Cleared, RAW!Cleared, Sound, RAW!Sound

LEMMA SameRawRows ==
    /\ RAW!Datasets = Datasets
    /\ \A d, h, file : RAW!FileRows(d, h, file) = FileRows(d, h, file)
    /\ \A d, T, rows : RAW!Merge(d, T, rows) = Merge(d, T, rows)
<1>1. RAW!Datasets = Datasets
  BY DEF Datasets, RAW!Datasets, DatasetOrder, RAW!DatasetOrder
<1>2. \A d, h, file : RAW!FileRows(d, h, file) = FileRows(d, h, file)
  BY DEF FileRows, RAW!FileRows, FlattenBlock, RAW!FlattenBlock,
         FlattenTransactions, RAW!FlattenTransactions, FlattenInputs, RAW!FlattenInputs,
         FlattenOutputs, RAW!FlattenOutputs, TxOf, RAW!TxOf, IsCoinbase, RAW!IsCoinbase,
         vsizeFromWeight, RAW!vsizeFromWeight
<1>3. \A d, row : RAW!Key(d, row) = Key(d, row)
  BY DEF Key, RAW!Key
<1>4. \A d, T, row : RAW!Matches(d, T, row) = Matches(d, T, row)
  BY <1>3 DEF Matches, RAW!Matches
<1>5. \A d, T, rows : /\ RAW!Updated(d, T, rows) = Updated(d, T, rows)
                      /\ RAW!Inserted(d, T, rows) = Inserted(d, T, rows)
                      /\ RAW!Untouched(d, T, rows) = Untouched(d, T, rows)
  BY <1>3, <1>4 DEF Updated, RAW!Updated, Inserted, RAW!Inserted, Untouched,
                    RAW!Untouched, Entry, RAW!Entry
<1>6. \A d, T, rows : RAW!Merge(d, T, rows) = Merge(d, T, rows)
  BY <1>5 DEF Merge, RAW!Merge
<1> QED
  BY <1>1, <1>2, <1>6

LEMMA SameRawFileData ==
    /\ \A dir : RAW!Derived!IsComplete(dir) = IsComplete(dir)
    /\ \A d, dir : RAW!Derived!RowsOf(d, dir) = RowsOf(d, dir)
    /\ RAW!Derived!Datasets = Datasets
    /\ \A d : RAW!Derived!Before(d) = Before(d)
    /\ \A h : RAW!Derived!Store!Fetches(h) = Fetches(h)
    /\ \A f : RAW!Derived!Store!Directory(f) = Directory(f)
BY DEF RAW!Derived!IsComplete, RAW!Derived!CountsAgree, RAW!Derived!RequiredFiles,
       RAW!Derived!BlockJson, RAW!Derived!TxsJsonl, RAW!Derived!MetaJson,
       RAW!Derived!RowsOf, RAW!Derived!Rows, RAW!Derived!Datasets,
       RAW!Derived!DatasetOrder, RAW!Derived!Before, RAW!Derived!Store!Fetches,
       RAW!Derived!Store!FetchOf,
       RAW!Derived!Store!FirstTxs, RAW!Derived!Store!Reports,
       RAW!Derived!Store!Directory, RAW!Derived!Store!Part,
       RAW!Derived!Store!Contents, RAW!Derived!Store!RequiredFiles,
       RAW!Derived!Store!BlockJson, RAW!Derived!Store!TxsJsonl,
       RAW!Derived!Store!MetaJson,
       IsComplete, CountsAgree, RequiredFiles, BlockJson, TxsJsonl, MetaJson, RowsOf, Rows,
       Datasets, DatasetOrder, Before, Fetches, FetchOf, FirstTxs, Reports, Directory, Part,
       Contents

LEMMA SameRawFileSteps == Gate!Derived!Next => RAW!Derived!Next
<1>1. ASSUME NEW d, NEW h, Gate!Derived!Derive(d, h) PROVE RAW!Derived!Derive(d, h)
  BY <1>1, SameFileData, SameRawFileData DEF Gate!Derived!Derive, RAW!Derived!Derive
<1>2. ASSUME NEW d, NEW h, Gate!Derived!Remove(d, h) PROVE RAW!Derived!Remove(d, h)
  BY <1>2 DEF Gate!Derived!Remove, RAW!Derived!Remove
<1>3. Gate!Derived!Store!Next => RAW!Derived!Store!Next
  BY SameFileData, SameRawFileData
     DEF Gate!Derived!Store!Next, Gate!Derived!Store!Publish, Gate!Derived!Store!Free,
         Gate!Derived!Store!OperatorRemoves,
         RAW!Derived!Store!Next, RAW!Derived!Store!Publish, RAW!Derived!Store!Free,
         RAW!Derived!Store!OperatorRemoves
<1> QED
  BY <1>1, <1>2, <1>3, SameFileData, SameRawFileData DEF Gate!Derived!Next, RAW!Derived!Next

\* Only a MERGE changes a table.
LEMMA TablesChange ==
    ASSUME NEW l \in Loaders, Step(l) \/ Kill(l)
    PROVE  MergeInto(l) \/ UNCHANGED table
BY DEF Step, BadRange, NoCredentials, Start, Connect, ConnectFails, ReadReport,
       LocalFileMissing, LocalFileExists, Put, CreateTemp, CopyInto, DropTemp,
       StatementFails, Kill

LEMMA StepImplementsWarehouse ==
    ASSUME IInv, KeptInv, [Next]_vars, ~OperatorDeletes, ~ParquetDeleted
    PROVE  [RAW!Next]_<<raw, part, table>>
<1>1. ASSUME NEW l \in Loaders, Step(l) \/ Kill(l)
      PROVE  UNCHANGED <<raw, part, table>> \/ \E d \in Datasets, h \in Heights : RAW!Upsert(d, h)
  <2>1. UNCHANGED <<raw, part>>
    BY <1>1, OthersStay
  <2>2. CASE MergeInto(l)
    <3>1. /\ pc[l] = "merge"
          /\ table' = [table EXCEPT ![Dataset(l)] =
                Merge(Dataset(l), table[Dataset(l)], temp[l])]
      BY <2>2 DEF MergeInto
    <3>2. /\ Dataset(l) \in Datasets /\ at[l] \in Heights
          /\ window[l] \in Windows /\ at[l] \in window[l].lo..window[l].hi
      BY <3>1, Here DEF Statements
    <3>3. /\ part[Dataset(l)][at[l]] # NoFile
          /\ temp[l] = FileRows(Dataset(l), at[l], part[Dataset(l)][at[l]])
          /\ Cleared(part, window[l])
      BY <3>1 DEF KeptInv, Statements
    <3>4. RAW!Upsert(Dataset(l), at[l])
      BY <2>1, <3>1, <3>2, <3>3, SameRawCleared, SameRawRows DEF RAW!Upsert
    <3> QED
      BY <3>2, <3>4
  <2> QED
    BY <1>1, <2>1, <2>2, TablesChange
<1>2. FilesChange => RAW!Next \/ UNCHANGED <<raw, part, table>>
  BY SameRawFileSteps DEF FilesChange, Gate!Next, Gate!Write, RAW!Next
<1>3. UNCHANGED vars => UNCHANGED <<raw, part, table>>
  BY DEF vars, files
<1> QED
  BY <1>1, <1>2, <1>3, SameRawRows DEF Next, RAW!Next

\* Where nobody deletes files, five statements over a shared stage are one
\* upsert of one partition of a range that is cleared at that moment.
THEOREM RefinesWarehouse ==
    ASSUME ~OperatorDeletes, ~ParquetDeleted PROVE Spec => ImplementsWarehouse
<1>1. Init => RAW!Init
  BY SameRawRows, SameRawFileData, SameFileData
     DEF Init, Gate!Init, Gate!Derived!Init, RAW!Init, RAW!Derived!Init
<1>2. IInv /\ KeptInv /\ [Next]_vars => [RAW!Next]_<<raw, part, table>>
  BY StepImplementsWarehouse
<1>3. Spec => [](IInv /\ KeptInv)
  BY InductiveInvariant, KeptInvariant, PTL
<1> QED
  BY <1>1, <1>2, <1>3, PTL DEF Spec, ImplementsWarehouse, RAW!Spec

-----------------------------------------------------------------------------
(* Exit status 0.                                                          *)

\* A row that is in the warehouse stays there, or is replaced from outside
\* the range.
LEMMA StaysInWarehouse ==
    ASSUME IInv, KeptInv, ~OperatorDeletes, ~ParquetDeleted,
           NEW u \in Loaders, MergeInto(u), NEW w \in Windows,
           CountsKnown(part, w), Cleared(part, w),
           NEW d \in Datasets, NEW h \in w.lo..w.hi, part[d][h] # NoFile,
           NEW r \in FileRows(d, h, part[d][h]), InWarehouse(d, r, w)
    PROVE  InWarehouse(d, r, w)'
<1>1. /\ pc[u] = "merge"
      /\ table' = [table EXCEPT ![Dataset(u)] = Merge(Dataset(u), table[Dataset(u)], temp[u])]
  BY DEF MergeInto
<1>2. Dataset(u) \in Datasets /\ at[u] \in Heights /\ at[u] \in Nat
  BY <1>1, Here DEF Statements
<1>3. /\ part[Dataset(u)][at[u]] # NoFile
      /\ temp[u] = FileRows(Dataset(u), at[u], part[Dataset(u)][at[u]])
  BY <1>1 DEF KeptInv
<1>4. h \in Heights
  BY WindowsAssumption
<1>5. PICK e \in table[d] : Key(d, e.row) = Key(d, r) /\ (e.row = r \/ e.row.height \notin w.lo..w.hi)
  BY DEF InWarehouse
<1>6. CASE d # Dataset(u)
  <2>1. table'[d] = table[d]
    BY <1>1, <1>6 DEF IInv, TypeOK
  <2> QED
    BY <1>5, <2>1 DEF InWarehouse
<1>7. CASE d = Dataset(u)
  <2>1. table'[d] = Merge(d, table[d], temp[u])
    BY <1>1, <1>2, <1>7 DEF IInv, TypeOK
  <2>2. CASE e \in table'[d]
    BY <1>5, <2>2 DEF InWarehouse
  <2>3. ASSUME NEW s \in temp[u], NEW f \in table'[d], Key(d, s) = Key(d, e.row), f.row = s
        PROVE  InWarehouse(d, r, w)'
    <3>1. s.height = at[u]
      BY <1>2, <1>3, <2>3, FileRowHeights
    <3>2. at[u] \in w.lo..w.hi => s = r
      BY <1>2, <1>3, <1>4, <1>5, <1>7, <2>3, WindowKeyed
    <3> QED
      BY <1>5, <2>3, <3>1, <3>2 DEF InWarehouse
  <2> QED
    BY <2>1, <2>2, <2>3, MergeKeeps
<1> QED
  BY <1>6, <1>7

LEMMA PartitionStaysLoaded ==
    ASSUME IInv, KeptInv, ~OperatorDeletes, ~ParquetDeleted, UNCHANGED <<raw, part>>,
           NEW u \in Loaders, MergeInto(u) \/ UNCHANGED table, NEW w \in Windows,
           CountsKnown(part, w), Cleared(part, w),
           NEW d \in Datasets, NEW h \in w.lo..w.hi, PartitionLoaded(d, h, w)
    PROVE  PartitionLoaded(d, h, w)'
<1>1. part[d][h] # NoFile /\ \A r \in FileRows(d, h, part[d][h]) : InWarehouse(d, r, w)
  BY DEF PartitionLoaded
<1>2. CASE UNCHANGED table
  BY <1>1, <1>2 DEF PartitionLoaded, InWarehouse
<1>3. CASE MergeInto(u)
  BY <1>1, <1>3, StaysInWarehouse DEF PartitionLoaded
<1> QED
  BY <1>2, <1>3

LEMMA InitLoaded == Init => LoadedInv
BY DEF Init, LoadedInv, Loaded, Statements

\* A load that another one's step leaves where it is.
LEMMA OtherStaysLoaded ==
    ASSUME IInv, KeptInv, ~OperatorDeletes, ~ParquetDeleted,
           NEW u \in Loaders, MergeInto(u) \/ UNCHANGED table, UNCHANGED <<raw, part, window>>,
           NEW l \in Loaders, Loaded(l), pc'[l] = pc[l], at'[l] = at[l], nth'[l] = nth[l],
           failed'[l] = failed[l]
    PROVE  Loaded(l)'
<1>1. window[l] \in Windows
  BY DEF IInv, TypeOK
<1>2. ASSUME pc[l] \in {"next", "exit0"} \cup Statements, ~failed[l],
             CountsKnown(part, window[l]), NEW i \in 1..4, NEW h \in window[l].lo..window[l].hi,
             Done(l, i, h)
      PROVE  PartitionLoaded(DatasetOrder[i], h, window[l])'
  <2>1. PartitionLoaded(DatasetOrder[i], h, window[l])
    BY <1>2 DEF Loaded
  <2>2. Cleared(part, window[l])
    BY <1>2 DEF KeptInv
  <2>3. PICK w \in Windows : w = window[l] /\ w = window'[l]
    BY <1>1
  <2>4. PartitionLoaded(DatasetOrder[i], h, w)'
    BY <1>2, <2>1, <2>2, <2>3, DatasetIsOne, PartitionStaysLoaded
  <2> QED
    BY <2>3, <2>4 DEF PartitionLoaded, InWarehouse
<1> QED
  BY <1>2 DEF Loaded, Done

\* A load that goes on with the tables as they are: all it is through with
\* it was through with before.
LEMMA ThroughWith ==
    ASSUME NEW l \in Loaders, Loaded(l), UNCHANGED <<raw, part, table, window>>,
           pc[l] \in {"next"} \cup Statements,
           failed[l] => failed'[l],
           pc'[l] \notin {"start", "connect", "report"}, pc'[l] = "exit0" => ~failed'[l],
           ~failed'[l] /\ pc'[l] \in {"next", "exit0"} \cup Statements =>
               \A i \in 1..4, h \in window[l].lo..window[l].hi : Done(l, i, h)' => Done(l, i, h)
    PROVE  Loaded(l)'
<1>1. ASSUME pc'[l] \in {"next", "exit0"} \cup Statements, ~failed'[l],
             CountsKnown(part, window[l]), NEW i \in 1..4, NEW h \in window[l].lo..window[l].hi,
             Done(l, i, h)'
      PROVE  PartitionLoaded(DatasetOrder[i], h, window[l])'
  <2>1. Done(l, i, h) /\ ~failed[l]
    BY <1>1
  <2>2. PartitionLoaded(DatasetOrder[i], h, window[l])
    BY <1>1, <2>1 DEF Loaded
  <2> QED
    BY <2>2 DEF PartitionLoaded, InWarehouse
<1> QED
  BY <1>1 DEF Loaded

LEMMA DropTempLoaded ==
    ASSUME IInv, NEW l \in Loaders, Loaded(l), DropTemp(l)
    PROVE  Loaded(l)'
<1>1. pc[l] = "drop" /\ Advance(l, TRUE) /\ UNCHANGED <<raw, part, table, window>>
  BY DEF DropTemp, files
<1>2. /\ pc'[l] \in {"next", "exit0", "exit1"}
      /\ failed[l] => failed'[l]
      /\ pc'[l] = "exit0" => ~failed'[l]
  <2>1. TRUE \in BOOLEAN /\ pc[l] \in {"next"} \cup Statements
    BY <1>1 DEF Statements
  <2> QED
    BY <1>1, <2>1, AdvancePlaces
<1>3. /\ at[l] \in Nat /\ window[l].lo \in Nat /\ window[l].hi \in Nat
      /\ at[l] \in window[l].lo..window[l].hi
  BY <1>1, Here DEF Statements
<1>4. nth[l] \in 1..4
  BY DEF IInv, TypeOK
<1>5. ASSUME pc'[l] \in {"next", "exit0"} \cup Statements, ~failed'[l],
             NEW i \in 1..4, NEW h \in window[l].lo..window[l].hi, Done(l, i, h)'
      PROVE  Done(l, i, h)
  <2>1. CASE nth[l] < 4
    <3>1. pc'[l] = "next" /\ at'[l] = at[l] /\ nth'[l] = nth[l] + 1
      BY <1>1, <2>1 DEF Advance, Goto, IInv, TypeOK
    <3>2. h < at[l] \/ (h = at[l] /\ i < nth[l] + 1)
      BY <1>5, <3>1 DEF Done
    <3> QED
      BY <1>1, <1>3, <1>4, <3>2 DEF Done
  <2>2. CASE ~(nth[l] < 4) /\ MoreHeights(l)
    <3>1. pc'[l] = "next" /\ at'[l] = at[l] + 1 /\ nth'[l] = 1
      BY <1>1, <2>2 DEF Advance, Goto, IInv, TypeOK
    <3>2. h < at[l] + 1
      BY <1>5, <3>1 DEF Done
    <3>3. i <= nth[l]
      BY <1>4, <2>2
    <3>4. h < at[l] \/ h = at[l]
      BY <1>3, <3>2
    <3>5. i < nth[l] \/ i = nth[l]
      BY <1>4, <3>3
    <3> QED
      BY <1>1, <3>4, <3>5 DEF Done
  <2>3. CASE ~(nth[l] < 4) /\ ~MoreHeights(l)
    <3>1. h < at[l] \/ h = at[l]
      BY <1>3, <2>3 DEF MoreHeights
    <3>2. i < nth[l] \/ i = nth[l]
      BY <1>4, <2>3
    <3> QED
      BY <1>1, <3>1, <3>2 DEF Done
  <2> QED
    BY <2>1, <2>2, <2>3
<1> QED
  BY <1>1, <1>2, <1>5, ThroughWith DEF Statements

LEMMA MergeLoaded ==
    ASSUME IInv, KeptInv, ~OperatorDeletes, ~ParquetDeleted,
           NEW l \in Loaders, Loaded(l), MergeInto(l)
    PROVE  Loaded(l)'
<1>1. /\ pc[l] = "merge" /\ pc'[l] = "drop"
      /\ UNCHANGED <<raw, part, window, at, nth, failed>>
      /\ table' = [table EXCEPT ![Dataset(l)] = Merge(Dataset(l), table[Dataset(l)], temp[l])]
  BY DEF MergeInto, Goto, files, IInv, TypeOK
<1>2. /\ Dataset(l) \in Datasets /\ at[l] \in Heights
      /\ window[l] \in Windows /\ at[l] \in window[l].lo..window[l].hi
  BY <1>1, Here DEF Statements
<1>3. /\ part[Dataset(l)][at[l]] # NoFile
      /\ temp[l] = FileRows(Dataset(l), at[l], part[Dataset(l)][at[l]])
      /\ Cleared(part, window[l])
  BY <1>1 DEF KeptInv, Statements
<1>4. table'[Dataset(l)] = Merge(Dataset(l), table[Dataset(l)], temp[l])
  BY <1>1, <1>2 DEF IInv, TypeOK
<1>5. ASSUME ~failed'[l], CountsKnown(part, window[l]),
             NEW i \in 1..4, NEW h \in window[l].lo..window[l].hi, Done(l, i, h)'
      PROVE  PartitionLoaded(DatasetOrder[i], h, window[l])'
  <2>1. CASE h = at[l] /\ i = nth[l]
    <3>1. \A r \in temp[l] : \E e \in table'[Dataset(l)] : e.row = r
      BY <1>4, MergeBrings
    <3> QED
      BY <1>1, <1>3, <2>1, <3>1 DEF PartitionLoaded, InWarehouse, Dataset
  <2>2. CASE ~(h = at[l] /\ i = nth[l])
    <3>1. Done(l, i, h)
      BY <1>1, <1>5, <2>2 DEF Done
    <3>2. PartitionLoaded(DatasetOrder[i], h, window[l])
      BY <1>1, <1>5, <3>1 DEF Loaded, Statements
    <3>3. PICK w \in Windows : w = window[l] /\ w = window'[l]
      BY <1>1, <1>2
    <3>4. PartitionLoaded(DatasetOrder[i], h, w)'
      BY <1>1, <1>3, <1>5, <3>2, <3>3, DatasetIsOne, PartitionStaysLoaded
    <3> QED
      BY <3>3, <3>4 DEF PartitionLoaded, InWarehouse
  <2> QED
    BY <2>1, <2>2
<1> QED
  BY <1>1, <1>5 DEF Loaded

LEMMA OwnStepLoaded ==
    ASSUME IInv, KeptInv, ~OperatorDeletes, ~ParquetDeleted,
           NEW l \in Loaders, Loaded(l), Step(l) \/ Kill(l)
    PROVE  Loaded(l)'
<1>1. CASE BadRange(l) \/ NoCredentials(l) \/ ConnectFails(l) \/ Kill(l)
  <2>1. pc'[l] \in {"exit1", "exit2", "killed"}
    BY <1>1 DEF BadRange, NoCredentials, ConnectFails, Kill, Goto, IInv, TypeOK
  <2> QED
    BY <2>1 DEF Loaded, Statements
<1>2. CASE Start(l) \/ Connect(l)
  <2>1. pc'[l] \in {"connect", "report"} /\ pc[l] \in {"start", "connect"} /\ UNCHANGED nth
    BY <1>2 DEF Start, Connect, Goto, IInv, TypeOK
  <2> QED
    BY <2>1 DEF Loaded, Statements
<1>3. CASE ReadReport(l)
  <2>1. pc[l] = "report" /\ pc'[l] \in {"next", "exit1", "exit2"} /\ UNCHANGED <<window, at, nth>>
    BY <1>3 DEF ReadReport, Goto, IInv, TypeOK
  <2>2. at[l] = window[l].lo /\ nth[l] = 1
    BY <2>1 DEF IInv, Placed, Loaded
  <2>3. window[l] \in Windows /\ window[l].lo \in Nat /\ window[l].hi \in Nat
    BY WindowsAssumption DEF IInv, TypeOK
  <2>4. \A i \in 1..4, h \in window[l].lo..window[l].hi : ~Done(l, i, h)'
    BY <2>1, <2>2, <2>3 DEF Done
  <2> QED
    BY <2>1, <2>4 DEF Loaded
<1>4. CASE LocalFileMissing(l) \/ StatementFails(l)
  <2>1. pc[l] \in {"next"} \cup Statements /\ Advance(l, FALSE)
    BY <1>4 DEF LocalFileMissing, StatementFails
  <2>2. failed'[l] /\ pc'[l] \in {"next", "exit1"}
    BY <2>1, AdvancePlaces
  <2> QED
    BY <2>2 DEF Loaded
<1>5. CASE LocalFileExists(l) \/ Put(l) \/ CreateTemp(l) \/ CopyInto(l)
  <2>1. /\ pc[l] \in {"next", "put", "create", "copy"}
        /\ pc'[l] \in {"put", "create", "copy", "merge"}
        /\ UNCHANGED <<raw, part, table, window, at, nth, failed>>
    BY <1>5 DEF LocalFileExists, Put, CreateTemp, CopyInto, Goto, files, IInv, TypeOK
  <2>2. \A i, h : Done(l, i, h)' => Done(l, i, h)
    BY <2>1 DEF Done
  <2> QED
    BY <2>1, <2>2, ThroughWith DEF Statements
<1> QED
  BY <1>1, <1>2, <1>3, <1>4, <1>5, DropTempLoaded, MergeLoaded DEF Step

LEMMA NextLoaded == IInv /\ KeptInv /\ LoadedInv /\ [Next]_vars => LoadedInv'
<1> SUFFICES ASSUME IInv, KeptInv, LoadedInv, [Next]_vars, ~OperatorDeletes, ~ParquetDeleted,
                    NEW l \in Loaders
             PROVE  Loaded(l)'
  BY DEF LoadedInv
<1>0. Loaded(l)
  BY DEF LoadedInv
<1>1. ASSUME NEW u \in Loaders, Step(u) \/ Kill(u)
      PROVE  Loaded(l)'
  <2>1. CASE u = l
    BY <1>0, <1>1, <2>1, OwnStepLoaded
  <2>2. CASE u # l
    <3>1. /\ UNCHANGED <<raw, part, window>>
          /\ pc'[l] = pc[l] /\ at'[l] = at[l] /\ nth'[l] = nth[l] /\ failed'[l] = failed[l]
      BY <1>1, <2>2, OthersStay
    <3>2. MergeInto(u) \/ UNCHANGED table
      BY <1>1, TablesChange
    <3> QED
      BY <1>0, <3>1, <3>2, OtherStaysLoaded
  <2> QED
    BY <2>1, <2>2
<1>2. ASSUME UNCHANGED <<table, pc, window, at, nth, failed>>,
             \A d \in Datasets, h \in Heights : part[d][h] # NoFile => part'[d][h] = part[d][h]
      PROVE  Loaded(l)'
  <2>1. /\ window[l] \in Windows
        /\ window[l].lo..window[l].hi \subseteq Heights
    BY WindowsAssumption DEF IInv, TypeOK
  <2>2. CountsKnown(part', window[l]) => CountsKnown(part, window[l])
    BY <1>2, <2>1, DatasetNames DEF CountsKnown, Present
  <2>3. \A d \in Datasets, h \in Heights :
          PartitionLoaded(d, h, window[l]) => PartitionLoaded(d, h, window[l])'
    BY <1>2 DEF PartitionLoaded, InWarehouse
  <2>4. \A i \in 1..4 : \A h : Done(l, i, h)' => Done(l, i, h)
    BY <1>2 DEF Done
  <2> QED
    BY <1>0, <1>2, <2>1, <2>2, <2>3, <2>4, DatasetIsOne DEF Loaded
<1>3. CASE FilesChange
  <2>1. UNCHANGED <<table, pc, window, at, nth, failed>>
    BY <1>3 DEF FilesChange, local
  <2>2. CASE Gate!Derived!Next
    <3>1. FilesTyped(raw, part) /\ FilesKept(raw, part)
      BY DEF KeptInv, IInv, TypeOK, FilesTyped
    <3>2. FilesGrow(raw, part, raw', part')
      BY <2>2, <3>1, DerivedSteps, FilesOnlyGrow
    <3> QED
      BY <1>2, <2>1, <3>2 DEF FilesGrow
  <2>3. CASE UNCHANGED part
    BY <1>2, <2>1, <2>3
  <2> QED
    BY <1>3, <2>2, <2>3 DEF FilesChange, Gate!Next, Gate!Write
<1>4. CASE UNCHANGED vars
  BY <1>2, <1>4 DEF vars, files, local
<1> QED
  BY <1>1, <1>3, <1>4 DEF Next

LEMMA LoadedInvariant == Spec => []LoadedInv
<1>1. Init => LoadedInv
  BY InitLoaded
<1>2. IInv /\ KeptInv /\ LoadedInv /\ [Next]_vars => LoadedInv'
  BY NextLoaded
<1>3. Spec => [](IInv /\ KeptInv)
  BY InductiveInvariant, KeptInvariant, PTL
<1> QED
  BY <1>1, <1>2, <1>3, PTL DEF Spec

\* Exit status 0 means that every row of every partition of the range is in
\* the warehouse, whatever other loads did to the same stage and tables
\* (load_snowflake.py, main; load_height_range).
THEOREM ExitZeroIsLoaded == Spec => []ExitZeroMeansLoaded
<1>1. LoadedInv => ExitZeroMeansLoaded
  <2> SUFFICES ASSUME LoadedInv, ~OperatorDeletes, ~ParquetDeleted,
                      NEW l \in Loaders, pc[l] = "exit0", CountsKnown(part, window[l]),
                      NEW d \in Datasets, NEW h \in window[l].lo..window[l].hi
               PROVE  PartitionLoaded(d, h, window[l])
    BY DEF ExitZeroMeansLoaded
  <2>1. PICK i \in 1..4 : d = DatasetOrder[i]
    BY DEF Datasets
  <2> QED
    BY <2>1 DEF LoadedInv, Loaded, Done
<1> QED
  BY <1>1, LoadedInvariant, PTL

-----------------------------------------------------------------------------
(* Every load runs out of steps.                                           *)

\* While it is at a file a load has between one and six steps left there.
LEMMA AtFileSteps ==
    ASSUME IInv, NEW l \in Loaders, pc[l] \in {"next"} \cup Statements
    PROVE  /\ StepsAtFile(l) \in 1..6
           /\ HeightsLeft(l) \in Nat \ {0}
           /\ nth[l] \in 1..4
           /\ StepsLeft(l) = 24 * (HeightsLeft(l) - 1) + 6 * (4 - nth[l]) + StepsAtFile(l)
<1>1. StepsAtFile(l) \in 1..6
  BY DEF StepsAtFile, Statements
<1>2. HeightsLeft(l) \in Nat \ {0} /\ nth[l] \in 1..4
  BY Here DEF HeightsLeft, IInv, TypeOK
<1> QED
  BY <1>1, <1>2 DEF StepsLeft, Statements, Ended

\* From a statement to the next one of the same file.
LEMMA NextStatementTakesStep ==
    ASSUME IInv, NEW l \in Loaders, UNCHANGED <<window, at, nth>>,
           pc[l] \in {"next"} \cup Statements, pc'[l] \in Statements,
           StepsAtFile(l)' \in 1..(StepsAtFile(l) - 1)
    PROVE  StepsLeft(l)' \in 0..(StepsLeft(l) - 1)
<1>1. HeightsLeft(l)' = HeightsLeft(l)
  BY DEF HeightsLeft
<1>2. StepsLeft(l)' = 24 * (HeightsLeft(l) - 1) + 6 * (4 - nth[l]) + StepsAtFile(l)'
  BY <1>1 DEF StepsLeft, Statements, Ended
<1> QED
  BY <1>2, AtFileSteps

\* From a file to the next one, or to the end.
LEMMA AdvanceTakesStep ==
    ASSUME IInv, NEW l \in Loaders, pc[l] \in {"next"} \cup Statements,
           NEW ok \in BOOLEAN, Advance(l, ok), UNCHANGED window
    PROVE  StepsLeft(l)' \in 0..(StepsLeft(l) - 1)
<1> DEFINE n == HeightsLeft(l)
<1>0. /\ n \in Nat \ {0} /\ nth[l] \in 1..4 /\ StepsLeft(l) \in Nat
      /\ StepsLeft(l) >= 24 * (n - 1) + 6 * (4 - nth[l]) + 1
      /\ at[l] \in Nat /\ window[l].hi \in Nat /\ at[l] <= window[l].hi
      /\ DOMAIN pc = Loaders /\ DOMAIN at = Loaders /\ DOMAIN nth = Loaders
  BY AtFileSteps, Here DEF IInv, TypeOK
<1>1. CASE nth[l] < 4
  <2>1. pc'[l] = "next" /\ nth'[l] = nth[l] + 1 /\ at' = at
    BY <1>0, <1>1 DEF Advance, Goto
  <2>2. HeightsLeft(l)' = n /\ StepsAtFile(l)' = 6
    BY <2>1 DEF HeightsLeft, StepsAtFile
  <2>3. StepsLeft(l)' = 24 * (n - 1) + 6 * (4 - (nth[l] + 1)) + 6
    BY <2>1, <2>2 DEF StepsLeft, Statements, Ended
  <2> QED
    BY <1>0, <1>1, <2>3
<1>2. CASE ~(nth[l] < 4) /\ MoreHeights(l)
  <2>1. pc'[l] = "next" /\ nth'[l] = 1 /\ at'[l] = at[l] + 1
    BY <1>0, <1>2 DEF Advance, Goto
  <2>2. HeightsLeft(l)' = n - 1 /\ n > 1
    BY <1>0, <1>2, <2>1 DEF MoreHeights, HeightsLeft
  <2>3. StepsAtFile(l)' = 6
    BY <2>1 DEF StepsAtFile
  <2>4. StepsLeft(l)' = 24 * (n - 1 - 1) + 6 * (4 - 1) + 6
    BY <2>1, <2>2, <2>3 DEF StepsLeft, Statements, Ended
  <2>5. nth[l] = 4
    BY <1>0, <1>2
  <2> QED
    BY <1>0, <2>2, <2>4, <2>5
<1>3. CASE ~(nth[l] < 4) /\ ~MoreHeights(l)
  <2>1. pc'[l] \in {"exit0", "exit1"}
    BY <1>0, <1>3 DEF Advance, Goto
  <2>2. StepsLeft(l)' = 0
    BY <2>1 DEF StepsLeft, Statements, Ended
  <2> QED
    BY <1>0, <2>2
<1> QED
  BY <1>1, <1>2, <1>3

LEMMA OwnStepTakesStep ==
    ASSUME IInv, NEW l \in Loaders, Step(l) \/ Kill(l)
    PROVE  StepsLeft(l)' \in 0..(StepsLeft(l) - 1)
<1> DEFINE n == HeightsLeft(l)
<1>0. /\ n \in Nat
      /\ DOMAIN pc = Loaders
      /\ pc[l] \in {"next"} \cup Statements => StepsLeft(l) \in Nat \ {0}
      /\ window[l].lo \in Nat /\ window[l].hi \in Nat /\ at[l] \in Nat
  <2>1. window[l].lo \in Nat /\ window[l].hi \in Nat /\ at[l] \in Nat
    BY WindowsAssumption DEF IInv, TypeOK
  <2> QED
    BY <2>1, AtFileSteps DEF HeightsLeft, IInv, TypeOK
<1>1. ASSUME UNCHANGED <<window, at>> PROVE HeightsLeft(l)' = n
  BY <1>1 DEF HeightsLeft
<1>2. CASE BadRange(l) \/ NoCredentials(l) \/ ConnectFails(l) \/ Kill(l)
  <2>1. pc[l] \in {"start"} \cup Running /\ pc'[l] \in Ended
    BY <1>0, <1>2 DEF BadRange, NoCredentials, ConnectFails, Kill, Goto, Running, Ended
  <2>2. StepsLeft(l)' = 0
    BY <2>1 DEF StepsLeft, Statements, Ended
  <2>3. StepsLeft(l) \in Nat \ {0}
    <3>1. CASE pc[l] \in {"next"} \cup Statements
      BY <1>0, <3>1
    <3>2. CASE pc[l] \in {"start", "connect", "report"}
      BY <1>0, <3>2 DEF StepsLeft, Statements, Ended
    <3> QED BY <2>1, <3>1, <3>2 DEF Running
  <2> QED BY <2>2, <2>3
<1>3. CASE Start(l) \/ Connect(l)
  <2>1. /\ \/ pc[l] = "start" /\ pc'[l] = "connect"
           \/ pc[l] = "connect" /\ pc'[l] = "report"
        /\ UNCHANGED <<window, at>>
    BY <1>0, <1>3 DEF Start, Connect, Goto
  <2>2. HeightsLeft(l)' = n
    BY <1>1, <2>1
  <2> QED
    BY <1>0, <2>1, <2>2 DEF StepsLeft, Statements, Ended
<1>4. CASE ReadReport(l)
  <2>1. /\ pc[l] = "report" /\ pc'[l] \in {"next", "exit1", "exit2"}
        /\ UNCHANGED <<window, at, nth>>
    BY <1>0, <1>4 DEF ReadReport, Goto
  <2>2. StepsLeft(l) = 24 * n + 1
    BY <2>1 DEF StepsLeft, Statements, Ended
  <2>3. CASE pc'[l] = "next"
    <3>1. HeightsLeft(l)' = n /\ nth[l] \in 1..4 /\ n \in Nat \ {0}
      BY <1>0, <1>1, <2>1 DEF HeightsLeft, IInv, TypeOK, Placed
    <3>2. StepsAtFile(l)' = 6
      BY <2>3 DEF StepsAtFile
    <3>3. StepsLeft(l)' = 24 * (n - 1) + 6 * (4 - nth[l]) + 6
      BY <2>1, <2>3, <3>1, <3>2 DEF StepsLeft, Statements, Ended
    <3> QED BY <2>2, <3>1, <3>3
  <2>4. CASE pc'[l] \in {"exit1", "exit2"}
    <3>1. StepsLeft(l)' = 0
      BY <2>4 DEF StepsLeft, Statements, Ended
    <3> QED BY <1>0, <2>2, <3>1
  <2> QED BY <2>1, <2>3, <2>4
<1>5. CASE LocalFileExists(l) \/ Put(l) \/ CreateTemp(l) \/ CopyInto(l) \/ MergeInto(l)
  <2>1. /\ UNCHANGED <<window, at, nth>>
        /\ \/ pc[l] = "next" /\ pc'[l] = "put"
           \/ pc[l] = "put" /\ pc'[l] = "create"
           \/ pc[l] = "create" /\ pc'[l] = "copy"
           \/ pc[l] = "copy" /\ pc'[l] = "merge"
           \/ pc[l] = "merge" /\ pc'[l] = "drop"
    BY <1>0, <1>5 DEF LocalFileExists, Put, CreateTemp, CopyInto, MergeInto, Goto
  <2>2. StepsAtFile(l)' \in 1..(StepsAtFile(l) - 1)
    BY <2>1 DEF StepsAtFile
  <2> QED
    BY <2>1, <2>2, NextStatementTakesStep DEF Statements
<1>6. CASE LocalFileMissing(l) \/ DropTemp(l) \/ StatementFails(l)
  <2>1. pc[l] \in {"next"} \cup Statements /\ UNCHANGED window
    BY <1>6 DEF LocalFileMissing, DropTemp, StatementFails, Statements
  <2>2. \E ok \in BOOLEAN : Advance(l, ok)
    BY <1>6 DEF LocalFileMissing, DropTemp, StatementFails
  <2> QED
    BY <2>1, <2>2, AdvanceTakesStep
<1> QED
  BY <1>2, <1>3, <1>4, <1>5, <1>6 DEF Step

\* A load is through after twenty-four steps for each height of its range
\* and three more, whatever fails, changes or runs beside it.
THEOREM StepsAreBounded == Spec => StepsRunOut
<1>1. IInv /\ [Next]_vars =>
        [\A l \in Loaders : IF own(l)' = own(l) THEN StepsLeft(l)' = StepsLeft(l)
                            ELSE StepsLeft(l)' \in 0..(StepsLeft(l) - 1)]_vars
  <2> SUFFICES ASSUME IInv, Next, NEW l \in Loaders
               PROVE  IF own(l)' = own(l) THEN StepsLeft(l)' = StepsLeft(l)
                      ELSE StepsLeft(l)' \in 0..(StepsLeft(l) - 1)
    OBVIOUS
  <2>1. CASE own(l)' = own(l)
    BY <2>1 DEF own, StepsLeft, StepsAtFile, HeightsLeft
  <2>2. CASE own(l)' # own(l)
    <3>1. ~UNCHANGED local
      BY <2>2 DEF own, local
    <3>2. ASSUME NEW u \in Loaders \ {l}, Step(u) \/ Kill(u) PROVE FALSE
      BY <2>2, <3>2, OthersStay DEF own
    <3>3. Step(l) \/ Kill(l)
      BY <3>1, <3>2 DEF Next, FilesChange
    <3> QED BY <2>2, <3>3, OwnStepTakesStep
  <2> QED BY <2>1, <2>2
<1> QED
  BY <1>1, InductiveInvariant, PTL DEF StepsRunOut, Spec

=============================================================================
