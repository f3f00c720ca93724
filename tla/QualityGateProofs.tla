--------------------------- MODULE QualityGateProofs ---------------------------
(***************************************************************************)
(* Proofs about QualityGate, for every set of heights, blocks,             *)
(* transactions, windows and validators.                                   *)
(***************************************************************************)
EXTENDS QualityGate, TablesProofs

\* "Loaded window always means exactly that range" (validate.py:8-10).
THEOREM VerdictsIgnoreTheRest == Spec => []VerdictIgnoresTheRest
<1>1. VerdictIgnoresTheRest
  <2> SUFFICES ASSUME NEW w \in Windows
               PROVE  LET T == TablesOf(part)
                          U == [d \in Datasets |-> In(T[d], w.lo, w.hi)]
                      IN  AllChecksPass(T, w.lo, w.hi) <=> AllChecksPass(U, w.lo, w.hi)
    BY DEF VerdictIgnoresTheRest
  <2> DEFINE T == TablesOf(part)
             U == [d \in Datasets |-> In(T[d], w.lo, w.hi)]
  <2>1. w.lo \in Nat /\ w.hi \in Nat
    BY WindowsAssumption
  <2>2. \A d \in Datasets : SameRows(d, T, U, w.lo, w.hi) /\ SameRows(d, U, T, w.lo, w.hi)
    BY DEF SameRows, In
  <2> HIDE DEF T, U
  <2>3. \A n \in 1..NumChecks : Check(n, T, w.lo, w.hi) <=> Check(n, U, w.lo, w.hi)
    BY <2>1, <2>2, WindowDecides
  <2> QED
    BY <2>3 DEF AllChecksPass, T, U
<1> QED
  BY <1>1, PTL

-----------------------------------------------------------------------------
(* What happens to the files.                                              *)

LEMMA SameDerived ==
    /\ \A dir : Derived!IsComplete(dir) = IsComplete(dir)
    /\ \A d, dir : Derived!RowsOf(d, dir) = RowsOf(d, dir)
    /\ Derived!Datasets = Datasets
    /\ \A d : Derived!Before(d) = Before(d)
    /\ \A h : Derived!Store!Fetches(h) = Fetches(h)
    /\ \A f : Derived!Store!Directory(f) = Directory(f)
BY DEF Derived!IsComplete, Derived!CountsAgree, Derived!RequiredFiles, Derived!BlockJson,
       Derived!TxsJsonl, Derived!MetaJson, Derived!RowsOf, Derived!Rows, Derived!Datasets,
       Derived!DatasetOrder, Derived!Before,
       Derived!Store!Fetches, Derived!Store!FetchOf, Derived!Store!FirstTxs,
       Derived!Store!Reports, Derived!Store!Directory, Derived!Store!Part,
       Derived!Store!Contents, Derived!Store!RequiredFiles, Derived!Store!BlockJson,
       Derived!Store!TxsJsonl, Derived!Store!MetaJson,
       IsComplete, CountsAgree, RequiredFiles, BlockJson, TxsJsonl, MetaJson, RowsOf, Rows,
       Datasets, DatasetOrder, Before, Fetches, FetchOf, FirstTxs, Reports, Directory, Part,
       Contents

\* A step of the files changes one directory or one data.parquet.
LEMMA DerivedSteps ==
    Derived!Next => FilesStep(raw, part, raw', part', OperatorDeletes, ParquetDeleted)
BY SameDerived
   DEF FilesStep, Derived!Next, Derived!Derive, Derived!Remove, Derived!Store!Next,
       Derived!Store!Publish, Derived!Store!Free, Derived!Store!OperatorRemoves

-----------------------------------------------------------------------------
(* The inductive invariant.                                                *)

\* A complete directory holds one fetch of its height, and so does what is
\* computed from it.
LEMMA PartsStayPlaced ==
    ASSUME FilesTyped(raw, part), PartsPlaced,
           FilesStep(raw, part, raw', part', OperatorDeletes, ParquetDeleted)
    PROVE  PartsPlaced'
<1>1. ASSUME NEW d \in Datasets, NEW h \in Heights,
             IsComplete(raw[h]), part' = [part EXCEPT ![d][h] = RowsOf(d, raw[h])]
      PROVE  PartsPlaced'
  <2>1. PICK f \in Fetches(h), names \in SUBSET RequiredFiles : raw[h] = Part(f, names)
    BY <1>1 DEF FilesTyped, DirectoriesAt, IsComplete
  <2>2. names = RequiredFiles
    BY <1>1, <2>1 DEF IsComplete, Part
  <2>3. RowsOf(d, raw[h]) = RowsOf(d, Directory(f))
    BY <2>1, <2>2 DEF Directory
  <2> QED
    BY <1>1, <2>3 DEF PartsPlaced, FilesTyped
<1>2. ASSUME NEW d \in Datasets, NEW h \in Heights, part' = [part EXCEPT ![d][h] = NoFile]
      PROVE  PartsPlaced'
  BY <1>2 DEF PartsPlaced, FilesTyped
<1>3. CASE part' = part
  BY <1>3 DEF PartsPlaced
<1> QED
  BY <1>1, <1>2, <1>3 DEF FilesStep

LEMMA InitIInv == Init => IInv
<1> SUFFICES ASSUME Init PROVE IInv
  OBVIOUS
<1>1. FilesTyped(raw, part) /\ PartsPlaced
  BY SameDerived
     DEF Init, FilesTyped, PartsPlaced, Gate!Init, Gate!Derived!Init, Gate!Derived!Datasets,
         Gate!Derived!DatasetOrder, Datasets, DatasetOrder
<1> QED
  BY <1>1 DEF Init, IInv, TypeOK, FilesTyped, Gate!Init, NumChecks, NoFigures, Checking

LEMMA NextIInv == IInv /\ [Next]_vars => IInv'
<1> SUFFICES ASSUME IInv, [Next]_vars PROVE IInv'
  OBVIOUS
<1>1. FilesTyped(raw, part)
  BY DEF IInv, TypeOK, FilesTyped
<1>2. ASSUME NEW v \in Validators,
             BadRange(v) \/ Connect(v) \/ RunCheck(v) \/ CountInputs(v)
             \/ CountOutputs(v) \/ Raise(v) \/ OpenReport(v) \/ WriteReport(v) \/ Kill(v)
      PROVE  IInv'
  <2>0. FilesTyped(raw', part') /\ PartsPlaced'
    BY <1>1, <1>2
       DEF FilesTyped, IInv, PartsPlaced, files, BadRange, Connect, RunCheck, CountInputs, CountOutputs, Raise,
           OpenReport, WriteReport, Kill
  <2> USE DEF IInv, TypeOK, FilesTyped, Goto, Ended, Checking, NumChecks, BeforeForeign
  <2>1. CASE BadRange(v)
    BY <2>0, <2>1 DEF BadRange
  <2>2. CASE Connect(v)
    BY <2>0, <2>2 DEF Connect
  <2>3. CASE RunCheck(v)
    BY <2>0, <2>3 DEF RunCheck
  <2>4. CASE CountInputs(v)
    BY <2>0, <2>4 DEF CountInputs
  <2>5. CASE CountOutputs(v)
    BY <2>0, <2>5 DEF CountOutputs
  <2>6. CASE Raise(v)
    BY <2>0, <2>6 DEF Raise, End, NoFigures
  <2>7. CASE OpenReport(v)
    BY <2>0, <2>7 DEF OpenReport
  <2>8. CASE WriteReport(v)
    BY <2>0, <2>8 DEF WriteReport, Status, End, NoFigures
  <2>9. CASE Kill(v)
    BY <2>0, <2>9 DEF Kill, End, NoFigures
  <2> QED
    BY <1>2, <2>1, <2>2, <2>3, <2>4, <2>5, <2>6, <2>7, <2>8, <2>9
<1>3. CASE FilesChange
  <2>1. FilesTyped(raw', part') /\ PartsPlaced'
    BY <1>1, <1>3, DerivedSteps, FilesStayTyped, PartsStayPlaced DEF FilesChange, IInv
  <2> QED
    BY <1>3, <2>1 DEF FilesChange, local, IInv, TypeOK, FilesTyped
<1>4. CASE UNCHANGED vars
  BY <1>4 DEF vars, files, local, IInv, TypeOK, PartsPlaced
<1> QED
  BY <1>2, <1>3, <1>4 DEF Next

THEOREM InductiveInvariant == Spec => []IInv
BY InitIInv, NextIInv, PTL DEF Spec

\* Types of the validators' variables, and of the files under them.
THEOREM TypeCorrect == Spec => []TypeOK
<1>1. IInv => TypeOK
  BY DEF IInv
<1> QED
  BY <1>1, InductiveInvariant, PTL

-----------------------------------------------------------------------------
(* What the checks pin down.                                               *)

\* HeightsPresent pins the blocks down.
LEMMA BlocksPinned ==
    ASSUME NEW w \in Windows, HeightsPresent(TablesOf(part), w.lo, w.hi)
    PROVE  w.lo..w.hi \subseteq Present(part, "blocks")
<1> SUFFICES ASSUME NEW h \in w.lo..w.hi PROVE h \in Present(part, "blocks")
  OBVIOUS
<1>1. PICK b \in TablesOf(part).blocks : b.height = h
  BY DEF HeightsPresent
<1>2. PICK g \in Present(part, "blocks") : b = FlattenBlock(g, part["blocks"][g])
  BY DEF TablesOf
<1> QED
  BY <1>1, <1>2 DEF FlattenBlock

TransactionsAt(h, w) ==
    {t \in In(TablesOf(part).transactions, w.lo, w.hi) : t.height = h}

\* TxCountMatches pins the transactions down: no block is empty.
LEMMA TransactionsPinned ==
    ASSUME FilesKept(raw, part), NEW w \in Windows, CountsKnown(part, w),
           w.lo..w.hi \subseteq Present(part, "blocks"),
           TxCountMatches(TablesOf(part), w.lo, w.hi), NEW h \in w.lo..w.hi
    PROVE  /\ h \in Present(part, "transactions")
           /\ TransactionsAt(h, w) # {}
<1> DEFINE b == FlattenBlock(h, part["blocks"][h])
<1>1. h \in Heights /\ part["blocks"][h] # NoFile
  BY DEF Present
<1>2. part["blocks"][h].reported \in Nat \ {0}
  BY <1>1, DerivedFrom DEF CountsKnown
<1>3. b \in In(TablesOf(part).blocks, w.lo, w.hi) /\ b.count = part["blocks"][h].reported
  BY DEF In, TablesOf, FlattenBlock
<1>4. b.height = h
  BY DEF FlattenBlock
<1> HIDE DEF b
<1>5. Cardinality(TransactionsAt(h, w)) = part["blocks"][h].reported
  BY <1>2, <1>3, <1>4, NoCountAssumption DEF TxCountMatches, TransactionsAt
<1>6. TransactionsAt(h, w) # {}
  BY <1>2, <1>5, FS_EmptySet
<1>7. PICK t \in TablesOf(part).transactions : t.height = h
  BY <1>6 DEF TransactionsAt, In
<1>8. PICK g \in Present(part, "transactions") :
        t \in FlattenTransactions(g, part["transactions"][g].hash, part["transactions"][g].txs)
  BY DEF TablesOf
<1>9. t.height = g
  BY <1>8 DEF FlattenTransactions
<1> QED
  BY <1>6, <1>7, <1>8, <1>9

\* TxHasInput pins the inputs down: each height has a transaction, and by
\* TxidUnique its inputs can only be its own.
LEMMA InputsPinned ==
    ASSUME FilesKept(raw, part), NEW w \in Windows, NEW h \in w.lo..w.hi,
           w.lo..w.hi \subseteq Present(part, "transactions"),
           TransactionsAt(h, w) # {},
           TxidUnique(TablesOf(part), w.lo, w.hi),
           TxHasInput(TablesOf(part), w.lo, w.hi)
    PROVE  h \in Present(part, "inputs")
<1>1. PICK t \in In(TablesOf(part).transactions, w.lo, w.hi) : t.height = h
  BY DEF TransactionsAt
<1>2. ASSUME NEW u \in TablesOf(part).transactions, u.txid = t.txid, u.height \in w.lo..w.hi
      PROVE  u.height = h
  BY <1>1, <1>2 DEF TxidUnique, Unique, In
<1>3. PICK i \in In(TablesOf(part).inputs, w.lo, w.hi) : i.txid = t.txid
  BY DEF TxHasInput
<1>4. PICK g \in Present(part, "inputs") : i \in FlattenInputs(g, part["inputs"][g])
  BY DEF TablesOf, In
<1>5. g \in w.lo..w.hi /\ g \in Heights
  BY <1>4 DEF In, Present, FlattenInputs
<1>6. part["inputs"][g] = part["transactions"][g].txs
  BY <1>4, <1>5, DerivedFrom DEF Present
<1>7. i \in FlattenInputs(g, part["transactions"][g].txs)
  BY <1>4, <1>6
<1>8. PICK u \in FlattenTransactions(g, part["transactions"][g].hash,
                                     part["transactions"][g].txs) :
        u.txid = i.txid /\ u.height = g
  BY <1>7, RowsOfOneList
<1>9. u \in TablesOf(part).transactions
  BY <1>5, <1>8 DEF TablesOf
<1> QED
  BY <1>2, <1>3, <1>4, <1>5, <1>8, <1>9

\* And TxHasOutput the outputs.
LEMMA OutputsPinned ==
    ASSUME FilesKept(raw, part), NEW w \in Windows, NEW h \in w.lo..w.hi,
           w.lo..w.hi \subseteq Present(part, "transactions"),
           TransactionsAt(h, w) # {},
           TxidUnique(TablesOf(part), w.lo, w.hi),
           TxHasOutput(TablesOf(part), w.lo, w.hi)
    PROVE  h \in Present(part, "outputs")
<1>1. PICK t \in In(TablesOf(part).transactions, w.lo, w.hi) : t.height = h
  BY DEF TransactionsAt
<1>2. ASSUME NEW u \in TablesOf(part).transactions, u.txid = t.txid, u.height \in w.lo..w.hi
      PROVE  u.height = h
  BY <1>1, <1>2 DEF TxidUnique, Unique, In
<1>3. PICK o \in In(TablesOf(part).outputs, w.lo, w.hi) : o.txid = t.txid
  BY DEF TxHasOutput
<1>4. PICK g \in Present(part, "outputs") : o \in FlattenOutputs(g, part["outputs"][g])
  BY DEF TablesOf, In
<1>5. g \in w.lo..w.hi /\ g \in Heights
  BY <1>4 DEF In, Present, FlattenOutputs
<1>6. part["outputs"][g] = part["transactions"][g].txs
  BY <1>4, <1>5, DerivedFrom DEF Present
<1>7. o \in FlattenOutputs(g, part["transactions"][g].txs)
  BY <1>4, <1>6
<1>8. PICK u \in FlattenTransactions(g, part["transactions"][g].hash,
                                     part["transactions"][g].txs) :
        u.txid = o.txid /\ u.height = g
  BY <1>7, RowsOfOneList
<1>9. u \in TablesOf(part).transactions
  BY <1>5, <1>8 DEF TablesOf
<1> QED
  BY <1>2, <1>3, <1>4, <1>5, <1>8, <1>9

-----------------------------------------------------------------------------
(* The invariant behind PassHoldsOfTheData.                                *)

\* One more check has passed.
LEMMA OneMoreCheck ==
    ASSUME FilesKept(raw, part), NEW w \in Windows, NEW n \in 1..NumChecks,
           Passed(part, n - 1, w), Check(n, TablesOf(part), w.lo, w.hi)
    PROVE  Passed(part, n, w)
<1> DEFINE T == TablesOf(part)
<1> SUFFICES ASSUME CountsKnown(part, w)
             PROVE  /\ \A d \in PinnedBy(n) : w.lo..w.hi \subseteq Present(part, d)
                    /\ \A m \in 1..n : Check(m, T, w.lo, w.hi)
  BY DEF Passed
<1> HIDE DEF T
<1>1. /\ \A d \in PinnedBy(n - 1) : w.lo..w.hi \subseteq Present(part, d)
      /\ \A m \in 1..(n - 1) : Check(m, T, w.lo, w.hi)
  BY DEF Passed, T
<1>2. \A m \in 1..n : Check(m, T, w.lo, w.hi)
  BY <1>1 DEF T, NumChecks
<1>3. CASE n = 1
  <2>1. HeightsPresent(T, w.lo, w.hi)
    BY <1>2, <1>3, Checks
  <2>2. w.lo..w.hi \subseteq Present(part, "blocks")
    BY <2>1, BlocksPinned DEF T
  <2> QED
    BY <1>2, <1>3, <2>2 DEF PinnedBy
<1>4. CASE n \notin {1, 4, 12, 13}
  <2>1. PinnedBy(n) = PinnedBy(n - 1)
    BY <1>4 DEF PinnedBy, NumChecks
  <2> QED
    BY <1>1, <1>2, <2>1
<1>5. ASSUME n >= 4
      PROVE  \A h \in w.lo..w.hi : h \in Present(part, "transactions") /\ TransactionsAt(h, w) # {}
  <2>1. TxCountMatches(T, w.lo, w.hi)
    BY <1>2, <1>5, Checks
  <2>2. "blocks" \in PinnedBy(n - 1)
    BY <1>5, DatasetNames DEF PinnedBy, NumChecks
  <2> QED
    BY <1>1, <2>1, <2>2, TransactionsPinned DEF T
<1>6. CASE n = 4
  <2>1. PinnedBy(n) = PinnedBy(n - 1) \cup {"transactions"}
    BY <1>6, DatasetNames DEF PinnedBy
  <2>2. w.lo..w.hi \subseteq Present(part, "transactions")
    BY <1>5, <1>6
  <2> QED
    BY <1>1, <1>2, <2>1, <2>2
<1>7. ASSUME n \in {12, 13} PROVE w.lo..w.hi \subseteq Present(part, "inputs")
  <2>1. TxidUnique(T, w.lo, w.hi) /\ TxHasInput(T, w.lo, w.hi)
    BY <1>2, <1>7, Checks
  <2> QED
    BY <1>5, <1>7, <2>1, InputsPinned DEF T
<1>8. CASE n = 12
  <2>1. PinnedBy(n) = PinnedBy(n - 1) \cup {"inputs"}
    BY <1>8, DatasetNames DEF PinnedBy
  <2> QED
    BY <1>1, <1>2, <1>7, <1>8, <2>1
<1>9. CASE n = 13
  <2>1. TxidUnique(T, w.lo, w.hi) /\ TxHasOutput(T, w.lo, w.hi)
    BY <1>2, <1>9, Checks
  <2>2. w.lo..w.hi \subseteq Present(part, "outputs")
    BY <1>5, <1>9, <2>1, OutputsPinned DEF T
  <2>3. PinnedBy(n) = PinnedBy(n - 1) \cup {"outputs"}
    BY <1>9, DatasetNames DEF PinnedBy
  <2> QED
    BY <1>1, <1>2, <2>2, <2>3
<1> QED
  BY <1>3, <1>4, <1>6, <1>8, <1>9

\* Before the first check nothing is claimed.
LEMMA NothingPassed == ASSUME NEW P, NEW w PROVE Passed(P, 0, w)
BY DEF Passed, PinnedBy

LEMMA InitKept == Init => KeptInv
<1> SUFFICES ASSUME Init, ~OperatorDeletes, ~ParquetDeleted PROVE KeptInv
  BY DEF KeptInv
<1>1. FilesKept(raw, part)
  BY SameDerived, DatasetNames
     DEF Init, FilesKept, Gate!Init, Gate!Derived!Init, Gate!Derived!Datasets,
         Gate!Derived!DatasetOrder, Datasets, DatasetOrder
<1>2. \A v \in Validators : Passed(part, nth[v] - 1, window[v])
  BY NothingPassed DEF Init
<1>3. \A w \in Windows : report[w] # "PASS"
  BY DEF Init, Gate!Init
<1> QED
  BY <1>1, <1>2, <1>3 DEF KeptInv

LEMMA NextKept == IInv /\ KeptInv /\ [Next]_vars => KeptInv'
<1> SUFFICES ASSUME IInv, KeptInv, [Next]_vars, ~OperatorDeletes, ~ParquetDeleted
             PROVE  /\ FilesKept(raw', part')
                    /\ \A v \in Validators : ~failed'[v] => Passed(part', nth'[v] - 1, window'[v])
                    /\ \A w \in Windows : report'[w] = "PASS" => Cleared(part', w)
  BY DEF KeptInv
<1>0. /\ FilesTyped(raw, part)
      /\ FilesKept(raw, part)
      /\ \A v \in Validators : ~failed[v] => Passed(part, nth[v] - 1, window[v])
      /\ \A w \in Windows : report[w] = "PASS" => Cleared(part, w)
  BY DEF KeptInv, IInv, TypeOK, FilesTyped
<1>1. ASSUME NEW v \in Validators,
             BadRange(v) \/ Connect(v) \/ RunCheck(v) \/ CountInputs(v)
             \/ CountOutputs(v) \/ Raise(v) \/ OpenReport(v) \/ WriteReport(v) \/ Kill(v)
      PROVE  /\ FilesKept(raw', part')
             /\ \A u \in Validators : ~failed'[u] => Passed(part', nth'[u] - 1, window'[u])
             /\ \A w \in Windows : report'[w] = "PASS" => Cleared(part', w)
  <2>0. UNCHANGED <<raw, part, window>>
    BY <1>1 DEF files, BadRange, Connect, RunCheck, CountInputs, CountOutputs, Raise,
                OpenReport, WriteReport, Kill
  <2>1. FilesKept(raw', part')
    BY <1>0, <2>0 DEF FilesKept
  <2>2. CASE BadRange(v) \/ Connect(v) \/ CountInputs(v) \/ CountOutputs(v)
    BY <1>0, <2>0, <2>1, <2>2 DEF BadRange, Connect, CountInputs, CountOutputs
  <2>3. CASE RunCheck(v)
    <3>1. /\ nth' = [nth EXCEPT ![v] = @ + 1]
          /\ failed' = [failed EXCEPT ![v] =
                @ \/ ~Check(nth[v], TablesOf(part), window[v].lo, window[v].hi)]
          /\ UNCHANGED report
      BY <2>3 DEF RunCheck, InOrder
    <3>2. nth[v] \in 1..NumChecks /\ window[v] \in Windows
      BY <2>3 DEF RunCheck, IInv, TypeOK, NumChecks
    <3>3. ASSUME ~failed'[v] PROVE Passed(part, nth[v], window[v])
      <4>1. ~failed[v] /\ Check(nth[v], TablesOf(part), window[v].lo, window[v].hi)
        BY <3>1, <3>3 DEF IInv, TypeOK
      <4> QED
        BY <1>0, <3>2, <4>1, OneMoreCheck
    <3>4. nth'[v] - 1 = nth[v]
      BY <3>1, <3>2 DEF IInv, TypeOK, NumChecks
    <3>5. \A u \in Validators \ {v} : nth'[u] = nth[u] /\ failed'[u] = failed[u]
      BY <3>1 DEF IInv, TypeOK
    <3>6. \A u \in Validators : ~failed'[u] => Passed(part', nth'[u] - 1, window'[u])
      BY <1>0, <2>0, <3>3, <3>4, <3>5
    <3> QED
      BY <1>0, <2>0, <2>1, <3>1, <3>6
  <2>4. ASSUME Raise(v) \/ WriteReport(v) \/ Kill(v)
        PROVE  \A u \in Validators : ~failed'[u] => Passed(part', nth'[u] - 1, window'[u])
    <3>1. nth' = [nth EXCEPT ![v] = 1] /\ failed' = [failed EXCEPT ![v] = FALSE]
      BY <2>4 DEF Raise, WriteReport, Kill, End
    <3>2. nth'[v] - 1 = 0
      BY <3>1 DEF IInv, TypeOK
    <3>3. \A u \in Validators \ {v} : nth'[u] = nth[u] /\ failed'[u] = failed[u]
      BY <3>1 DEF IInv, TypeOK
    <3> QED
      BY <1>0, <2>0, <3>2, <3>3, NothingPassed
  <2>5. CASE Raise(v) \/ Kill(v)
    BY <1>0, <2>0, <2>1, <2>4, <2>5 DEF Raise, Kill
  <2>6. CASE OpenReport(v)
    <3>1. /\ UNCHANGED <<nth, failed>>
          /\ report' = [report EXCEPT ![window[v]] = "torn"]
      BY <2>6 DEF OpenReport
    <3>2. \A w \in Windows : report'[w] = "PASS" => report[w] = "PASS"
      BY <3>1 DEF IInv, TypeOK
    <3> QED
      BY <1>0, <2>0, <2>1, <3>1, <3>2
  <2>7. CASE WriteReport(v)
    <3>1. PICK r \in {Status(v), "torn"} : report' = [report EXCEPT ![window[v]] = r]
      BY <2>7 DEF WriteReport
    <3>2. nth[v] - 1 = NumChecks /\ window[v] \in Windows
      BY <2>7 DEF WriteReport, IInv, TypeOK, NumChecks
    <3>3. ASSUME r = "PASS" PROVE Cleared(part, window[v])
      <4>1. ~failed[v]
        BY <3>3 DEF Status
      <4> QED
        BY <1>0, <3>2, <4>1, ClearedIsPassed
    <3>4. \A w \in Windows : report'[w] = "PASS" =>
            report[w] = "PASS" \/ (w = window[v] /\ r = "PASS")
      BY <3>1, <3>2 DEF IInv, TypeOK
    <3>5. \A w \in Windows : report'[w] = "PASS" => Cleared(part', w)
      BY <1>0, <2>0, <3>3, <3>4
    <3> QED
      BY <2>1, <2>4, <2>7, <3>5
  <2> QED
    BY <1>1, <2>2, <2>3, <2>5, <2>6, <2>7
<1>2. CASE FilesChange
  <2>1. UNCHANGED <<nth, failed, window, report>> /\ Derived!Next
    BY <1>2 DEF FilesChange, local
  <2>2. FilesGrow(raw, part, raw', part') /\ FilesKept(raw', part')
    BY <1>0, <2>1, DerivedSteps, FilesOnlyGrow
  <2>3. ASSUME NEW v \in Validators, ~failed[v]
        PROVE  Passed(part', nth[v] - 1, window[v])
    <3>1. window[v] \in Windows /\ nth[v] - 1 \in 0..NumChecks
      BY DEF IInv, TypeOK, NumChecks
    <3> QED
      BY <1>0, <2>2, <2>3, <3>1, PassedStays
  <2>4. ASSUME NEW w \in Windows, report[w] = "PASS"
        PROVE  Cleared(part', w)
    <3>1. Cleared(part, w)
      BY <1>0, <2>4
    <3> QED
      BY <2>2, <3>1, ClearedStays
  <2> QED
    BY <2>1, <2>2, <2>3, <2>4
<1>3. CASE UNCHANGED vars
  BY <1>0, <1>3 DEF vars, files, local, FilesKept
<1> QED
  BY <1>1, <1>2, <1>3 DEF Next

LEMMA KeptInvariant == Spec => []KeptInv
<1>1. Init => KeptInv
  BY InitKept
<1>2. IInv /\ KeptInv /\ [Next]_vars => KeptInv'
  BY NextKept
<1> QED
  BY <1>1, <1>2, InductiveInvariant, PTL DEF Spec

\* Although every check saw another moment of the files, PASS is a statement
\* about all of them as they are now (validate.py, the order of CHECKS).
THEOREM PassIsAboutTheData == Spec => []PassHoldsOfTheData
<1>1. KeptInv => PassHoldsOfTheData
  BY DEF KeptInv, PassHoldsOfTheData
<1> QED
  BY <1>1, KeptInvariant, PTL

-----------------------------------------------------------------------------
(* The figures at the border of the window.                                *)

LEMMA NextFigures == IInv /\ KeptInv /\ FiguresInv /\ [Next]_vars => FiguresInv'
<1> SUFFICES ASSUME IInv, KeptInv, FiguresInv, [Next]_vars,
                    ~OperatorDeletes, ~ParquetDeleted, NEW u \in Validators,
                    ~failed'[u], CountsKnown(part', window'[u])
             PROVE  FiguresKept(u)'
  BY DEF FiguresInv
<1>0. ~failed[u] /\ CountsKnown(part, window[u]) => FiguresKept(u)
  BY DEF FiguresInv
<1>1. ASSUME NEW v \in Validators,
             BadRange(v) \/ Connect(v) \/ RunCheck(v) \/ CountInputs(v)
             \/ CountOutputs(v) \/ Raise(v) \/ OpenReport(v) \/ WriteReport(v) \/ Kill(v)
      PROVE  FiguresKept(u)'
  <2>0. UNCHANGED <<raw, part, window>>
    BY <1>1 DEF files, BadRange, Connect, RunCheck, CountInputs, CountOutputs, Raise,
                OpenReport, WriteReport, Kill
  <2>1. CASE u # v
    <3>1. UNCHANGED <<pc[u], nth[u], failed[u], figures[u]>>
      BY <1>1, <2>1
         DEF IInv, TypeOK, Goto, BadRange, Connect, RunCheck, CountInputs, CountOutputs, Raise,
             OpenReport, WriteReport, Kill, End
    <3> QED
      BY <1>0, <2>0, <3>1 DEF FiguresKept
  <2>2. CASE u = v /\ (BadRange(v) \/ Connect(v))
    BY <2>0, <2>2 DEF BadRange, Connect, Goto, IInv, TypeOK, FiguresKept, BeforeForeign
  <2>3. CASE u = v /\ RunCheck(v)
    <3>1. /\ ~failed[u] /\ pc[u] = "checks" /\ UNCHANGED figures
          /\ nth'[u] = nth[u] + 1 /\ pc'[u] \in Checking
          /\ nth[u] = BeforeForeign => pc'[u] = "inputs"
      BY <2>3 DEF RunCheck, Goto, IInv, TypeOK, Checking
    <3> QED
      BY <1>0, <2>0, <3>1 DEF FiguresKept, Checking, IInv, TypeOK, BeforeForeign, NumChecks
  <2>4. CASE u = v /\ CountInputs(v)
    BY <2>0, <2>4 DEF CountInputs, Goto, IInv, TypeOK, FiguresKept
  <2>5. CASE u = v /\ CountOutputs(v)
    <3>1. /\ figures'[u].inputs = figures[u].inputs
          /\ figures'[u].outputs = OutputFigures(TablesOf(part), window[u].lo, window[u].hi)
          /\ pc[u] = "outputs" /\ nth[u] = NumChecks + 1 /\ UNCHANGED <<nth, failed>>
      BY <2>5 DEF CountOutputs, IInv, TypeOK
    <3> QED
      BY <1>0, <2>0, <3>1 DEF FiguresKept, BeforeForeign, NumChecks
  <2>6. CASE u = v /\ (Raise(v) \/ WriteReport(v) \/ Kill(v))
    <3>1. nth'[u] = 1 /\ pc'[u] \notin {"open", "write"}
      BY <2>6 DEF Raise, WriteReport, Kill, End, Goto, IInv, TypeOK
    <3> QED
      BY <3>1 DEF FiguresKept, BeforeForeign
  <2>7. CASE u = v /\ OpenReport(v)
    <3>1. pc[u] = "open" /\ UNCHANGED <<nth, failed, figures>>
      BY <2>7 DEF OpenReport
    <3> QED
      BY <1>0, <2>0, <3>1 DEF FiguresKept
  <2> QED
    BY <1>1, <2>1, <2>2, <2>3, <2>4, <2>5, <2>6, <2>7
<1>2. CASE FilesChange
  <2>1. UNCHANGED <<pc, nth, failed, window, figures>> /\ Derived!Next
    BY <1>2 DEF FilesChange, local
  <2>2. FilesTyped(raw, part) /\ FilesKept(raw, part)
    BY DEF KeptInv, IInv, TypeOK, FilesTyped
  <2>3. FilesGrow(raw, part, raw', part')
    BY <2>1, <2>2, DerivedSteps, FilesOnlyGrow
  <2>4. CountsKnown(part, window[u])
    BY <2>1, <2>3, WindowsAssumption, DatasetNames DEF CountsKnown, FilesGrow, Present
  <2>5. FiguresKept(u)
    BY <1>0, <2>1, <2>4
  <2>6. CASE nth[u] <= BeforeForeign
    <3>1. pc[u] \notin {"open", "write"}
      BY <2>6 DEF IInv, BeforeForeign, NumChecks
    <3> QED
      BY <2>1, <2>6, <3>1 DEF FiguresKept, IInv, TypeOK, BeforeForeign
  <2>7. CASE nth[u] > BeforeForeign
    <3>1. nth[u] - 1 \in 13..NumChecks /\ window[u] \in Windows
      BY <2>7 DEF IInv, TypeOK, NumChecks, BeforeForeign
    <3>2. Passed(part, nth[u] - 1, window[u])
      BY <2>1 DEF KeptInv
    <3>3. /\ InputFigures(TablesOf(part'), window[u].lo, window[u].hi) =
               InputFigures(TablesOf(part), window[u].lo, window[u].hi)
          /\ OutputFigures(TablesOf(part'), window[u].lo, window[u].hi) =
               OutputFigures(TablesOf(part), window[u].lo, window[u].hi)
      BY <2>1, <2>3, <3>1, <3>2, FiguresStay
    <3> QED
      BY <2>1, <2>5, <3>3 DEF FiguresKept
  <2> QED
    BY <2>6, <2>7 DEF IInv, TypeOK, BeforeForeign
<1>3. CASE UNCHANGED vars
  BY <1>0, <1>3 DEF vars, files, local, FiguresKept
<1> QED
  BY <1>1, <1>2, <1>3 DEF Next

LEMMA FiguresInvariant == Spec => []FiguresInv
<1>1. Init => FiguresInv
  BY DEF Init, FiguresInv, FiguresKept, BeforeForeign
<1>2. IInv /\ KeptInv /\ FiguresInv /\ [Next]_vars => FiguresInv'
  BY NextFigures
<1> QED
  BY <1>1, <1>2, InductiveInvariant, KeptInvariant, PTL DEF Spec

\* The boundary metrics of a report that says PASS are those of the data it
\* says PASS of (run_validation, _boundary_metrics).
THEOREM FiguresHold == Spec => []PassFiguresHold
<1>1. IInv /\ FiguresInv => PassFiguresHold
  BY DEF IInv, FiguresInv, FiguresKept, PassFiguresHold, Passing, BeforeForeign, NumChecks
<1> QED
  BY <1>1, InductiveInvariant, FiguresInvariant, PTL

\* In a report that says PASS the inputs that spend inside the window are as
\* many as the outputs seen spent (_check_foreign_inputs_expected_boundary,
\* _check_outputs_unspent_in_window).
THEOREM SpendsAgree == Spec => []SpendsAddUp
<1>1. IInv /\ KeptInv /\ PassFiguresHold => SpendsAddUp
  <2> SUFFICES ASSUME IInv, KeptInv, PassFiguresHold, NEW v \in Validators, Passing(v)
               PROVE  figures[v].inputs.total - figures[v].inputs.foreign =
                      figures[v].outputs.total - figures[v].outputs.unspent
    BY DEF SpendsAddUp
  <2> DEFINE T == TablesOf(part)
             w == window[v]
  <2>1. /\ figures[v].inputs = InputFigures(T, w.lo, w.hi)
        /\ figures[v].outputs = OutputFigures(T, w.lo, w.hi)
    BY DEF PassFiguresHold
  <2>2. /\ w \in Windows /\ w.lo \in Nat /\ w.hi \in Nat
        /\ nth[v] - 1 = NumChecks /\ FilesTyped(raw, part)
    BY WindowsAssumption DEF Passing, IInv, TypeOK, NumChecks, FilesTyped
  <2>3. Passed(part, NumChecks, w) /\ CountsKnown(part, w)
    BY <2>2 DEF Passing, KeptInv
  <2> HIDE DEF w
  <2>4. /\ InternalInputsResolveUniquely(T, w.lo, w.hi)
        /\ OutputsReferenceValidTx(T, w.lo, w.hi)
    BY <2>3, Checks DEF Passed, NumChecks
  <2>5. IsFiniteSet(In(T.inputs, w.lo, w.hi)) /\ IsFiniteSet(In(T.outputs, w.lo, w.hi))
    BY <2>2, WindowIsFinite
  <2> HIDE DEF T
  <2> QED
    BY <2>1, <2>4, <2>5, InsideIsSpent
<1> QED
  BY <1>1, InductiveInvariant, KeptInvariant, FiguresHold, PTL

-----------------------------------------------------------------------------
(* The chain.                                                              *)

\* ChainLinkageInternal, said of the raw blocks.
LEMMA LinkedOnDisk ==
    ASSUME FilesKept(raw, part), NEW w \in Windows, w.lo..w.hi \subseteq Present(part, "blocks"),
           ChainLinkageInternal(TablesOf(part), w.lo, w.hi),
           NEW h \in (w.lo + 1)..w.hi
    PROVE  Prev[raw[h][BlockJson].hash] = raw[h - 1][BlockJson].hash
<1> DEFINE b == FlattenBlock(h, part["blocks"][h])
<1>1. /\ h \in w.lo..w.hi /\ h - 1 \in w.lo..w.hi
      /\ h \in Heights /\ h - 1 \in Heights /\ h \in Nat
      /\ part["blocks"][h] # NoFile /\ part["blocks"][h - 1] # NoFile
  BY WindowsAssumption DEF Present
<1>2. b \in In(TablesOf(part).blocks, w.lo + 1, w.hi)
  BY <1>1 DEF In, TablesOf, FlattenBlock
<1>3. PICK prior \in TablesOf(part).blocks : prior.height = b.height - 1 /\ prior.hash = b.prev
  BY <1>2 DEF ChainLinkageInternal
<1>4. PICK g \in Present(part, "blocks") : prior = FlattenBlock(g, part["blocks"][g])
  BY DEF TablesOf
<1>5. g = h - 1
  BY <1>3, <1>4 DEF FlattenBlock
<1>6. part["blocks"][h - 1].hash = Prev[part["blocks"][h].hash]
  BY <1>3, <1>4, <1>5 DEF FlattenBlock
<1>7. part["blocks"][h] = raw[h][BlockJson] /\ part["blocks"][h - 1] = raw[h - 1][BlockJson]
  BY <1>1, DerivedFrom
<1> QED
  BY <1>6, <1>7

\* PASS means that the raw blocks of the window are whole and were mined on
\* top of one another, although each was fetched on its own (validate.py,
\* chain_linkage_internal and tx_count_matches).
THEOREM PassIsAChain == Spec => []PassMeansChain
<1>1. KeptInv => PassMeansChain
  <2> SUFFICES ASSUME KeptInv, ~OperatorDeletes, ~ParquetDeleted,
                      NEW w \in Windows, report[w] = "PASS", CountsKnown(part, w)
               PROVE  /\ \A h \in w.lo..w.hi :
                            /\ raw[h] # NoDir
                            /\ raw[h][TxsJsonl] = BlockTxs(raw[h][BlockJson].hash)
                      /\ \A h \in (w.lo + 1)..w.hi :
                            Prev[raw[h][BlockJson].hash] = raw[h - 1][BlockJson].hash
    BY DEF PassMeansChain
  <2>1. FilesKept(raw, part) /\ Sound(part, w)
    BY DEF KeptInv, Cleared
  <2>2. w.lo..w.hi \subseteq Present(part, "blocks")
    BY <2>1, DatasetNames DEF Sound, PartitionsComplete
  <2>3. ChainLinkageInternal(TablesOf(part), w.lo, w.hi)
    BY <2>1, Checks DEF Sound, AllChecksPass, NumChecks
  <2>4. ASSUME NEW h \in w.lo..w.hi
        PROVE  raw[h] # NoDir /\ raw[h][TxsJsonl] = BlockTxs(raw[h][BlockJson].hash)
    <3>1. h \in Heights /\ part["blocks"][h] # NoFile /\ part["blocks"][h].reported # NoCount
      BY <2>2 DEF Present, CountsKnown
    <3>2. IsComplete(raw[h])
      BY <2>1, <3>1, DatasetNames DEF FilesKept
    <3> QED
      BY <2>1, <3>1, <3>2, DerivedFrom DEF IsComplete
  <2>5. \A h \in (w.lo + 1)..w.hi : Prev[raw[h][BlockJson].hash] = raw[h - 1][BlockJson].hash
    BY <2>1, <2>2, <2>3, LinkedOnDisk
  <2> QED
    BY <2>4, <2>5
<1> QED
  BY <1>1, KeptInvariant, PTL

-----------------------------------------------------------------------------
(* The border of the window.                                               *)

\* The rows of one transaction, input and output of block b at height h.
TxRow(h, b, i) ==
    [height |-> h, hash |-> b, txid |-> Tx[b][i].txid, index |-> i - 1,
     size |-> Tx[b][i].size, weight |-> Tx[b][i].weight,
     vsize |-> vsizeFromWeight(Tx[b][i].weight), fee |-> Tx[b][i].fee,
     coinbase |-> IsCoinbase(Tx[b][i])]

InRow(h, b, i, j) ==
    [height |-> h, txid |-> Tx[b][i].txid, index |-> j - 1,
     prevTxid |-> Tx[b][i].vin[j].txid, prevVout |-> Tx[b][i].vin[j].vout,
     value |-> Tx[b][i].vin[j].value, coinbase |-> Tx[b][i].vin[j].coinbase]

OutRow(h, b, i, j) ==
    [height |-> h, txid |-> Tx[b][i].txid, index |-> j - 1, value |-> Tx[b][i].vout[j]]

\* The window lo..hi of T holds the blocks of c in full.
HoldsChain(T, lo, hi, c) ==
    /\ \A h \in lo..hi : \E b \in T.blocks : b.height = h
    /\ \A b \in In(T.blocks, lo, hi) :
         /\ b.hash = c[b.height] /\ b.prev = Prev[b.hash]
         /\ b.count \in Reports(b.hash)
         /\ \A a \in In(T.blocks, lo, hi) : a.height = b.height => a = b
    /\ \A h \in lo..hi :
         {t \in In(T.transactions, lo, hi) : t.height = h} =
            FlattenTransactions(h, c[h], BlockTxs(c[h]))
    /\ \A r : r \in In(T.transactions, lo, hi) <=>
         \E h \in lo..hi : \E i \in 1..Size[c[h]] : r = TxRow(h, c[h], i)
    /\ \A r : r \in In(T.inputs, lo, hi) <=>
         \E h \in lo..hi : \E i \in 1..Size[c[h]] : \E j \in DOMAIN Tx[c[h]][i].vin :
            r = InRow(h, c[h], i, j)
    /\ \A r : r \in In(T.outputs, lo, hi) <=>
         \E h \in lo..hi : \E i \in 1..Size[c[h]] : \E j \in DOMAIN Tx[c[h]][i].vout :
            r = OutRow(h, c[h], i, j)

\* The blocks of c are linked, and as consensus has them.
ValidChain(lo, hi, c) ==
    /\ c \in [lo..hi -> Hashes]
    /\ \A h \in (lo + 1)..hi : Prev[c[h]] = c[h - 1]
    /\ \A h \in lo..hi : ToldRightly(c[h])
    /\ \A g, h \in lo..hi : \A i \in 1..Size[c[g]], j \in 1..Size[c[h]] :
         Tx[c[g]][i].txid = Tx[c[h]][j].txid => g = h /\ i = j
    /\ \A g, h \in lo..hi : \A i \in 1..Size[c[g]], k \in 1..Size[c[h]] :
         \A j \in DOMAIN Tx[c[g]][i].vin :
            LET in == Tx[c[g]][i].vin[j]
            IN  ~in.coinbase /\ in.txid = Tx[c[h]][k].txid =>
                   in.vout + 1 \in DOMAIN Tx[c[h]][k].vout

LEMMA RowsOfWholeBlock ==
    ASSUME NEW h, NEW b \in Hashes
    PROVE  /\ FlattenTransactions(h, b, BlockTxs(b)) = {TxRow(h, b, i) : i \in 1..Size[b]}
           /\ \A r : r \in FlattenInputs(h, BlockTxs(b)) <=>
                \E i \in 1..Size[b] : \E j \in DOMAIN Tx[b][i].vin : r = InRow(h, b, i, j)
           /\ \A r : r \in FlattenOutputs(h, BlockTxs(b)) <=>
                \E i \in 1..Size[b] : \E j \in DOMAIN Tx[b][i].vout : r = OutRow(h, b, i, j)
<1>1. /\ DOMAIN BlockTxs(b) = 1..Size[b]
      /\ \A i \in 1..Size[b] : TxOf(BlockTxs(b)[i]) = Tx[b][i]
  BY DEF BlockTxs, FirstTxs, TxOf
<1>2. FlattenTransactions(h, b, BlockTxs(b)) = {TxRow(h, b, i) : i \in 1..Size[b]}
  BY <1>1 DEF FlattenTransactions, TxRow
<1>3. \A r : r \in FlattenInputs(h, BlockTxs(b)) <=>
        \E i \in 1..Size[b] : \E j \in DOMAIN Tx[b][i].vin : r = InRow(h, b, i, j)
  BY <1>1 DEF FlattenInputs, InRow
<1>4. \A r : r \in FlattenOutputs(h, BlockTxs(b)) <=>
        \E i \in 1..Size[b] : \E j \in DOMAIN Tx[b][i].vout : r = OutRow(h, b, i, j)
  BY <1>1 DEF FlattenOutputs, OutRow
<1> QED
  BY <1>2, <1>3, <1>4

LEMMA SoundIsValid ==
    ASSUME PartsPlaced, NEW w \in Windows, SoundWindow(w)
    PROVE  LET c == [h \in w.lo..w.hi |-> part["blocks"][h].hash]
           IN  /\ ValidChain(w.lo, w.hi, c)
               /\ \A h \in w.lo..w.hi : part["blocks"][h].reported \in Reports(c[h])
<1> DEFINE c == [h \in w.lo..w.hi |-> part["blocks"][h].hash]
<1>0. w.lo \in Nat /\ w.hi \in Nat /\ w.lo..w.hi \subseteq Heights
  BY WindowsAssumption
<1>1. ASSUME NEW h \in w.lo..w.hi
      PROVE  c[h] \in HashesAt[h] /\ part["blocks"][h].reported \in Reports(c[h])
  <2>1. part["blocks"][h] # NoFile
    BY DatasetNames DEF SoundWindow, PartitionsComplete, Present
  <2>2. PICK f \in Fetches(h) : part["blocks"][h] = RowsOf("blocks", Directory(f))
    BY <1>0, <2>1, DatasetNames DEF PartsPlaced
  <2>3. part["blocks"][h] = [hash |-> f.hash, reported |-> f.reported]
    BY <2>2 DEF RowsOf, Rows, Directory, Part, Contents, RequiredFiles, BlockJson, TxsJsonl,
                MetaJson
  <2>4. PICK b \in HashesAt[h] :
          f \in { FetchOf(b, FirstTxs(b, n), r) : n \in 0..Size[b], r \in Reports(b) }
    BY DEF Fetches
  <2>5. PICK n \in 0..Size[b], r \in Reports(b) : f = FetchOf(b, FirstTxs(b, n), r)
    BY <2>4
  <2> QED
    BY <2>3, <2>5 DEF FetchOf
<1>2. \A h \in w.lo..w.hi : c[h] \in Hashes \ Forged
  <2> TAKE h \in w.lo..w.hi
  <2>1. c[h] \in Hashes
    BY <1>0, <1>1, HashesAssumption
  <2> QED
    BY <2>1 DEF SoundWindow
<1>3. \A h \in (w.lo + 1)..w.hi : Prev[c[h]] = c[h - 1]
  <2> TAKE h \in (w.lo + 1)..w.hi
  <2>1. h \in w.lo..w.hi /\ h - 1 \in w.lo..w.hi
    BY <1>0
  <2> QED
    BY <2>1 DEF SoundWindow
<1>4. c \in Chains(w)
  BY <1>1, <1>2, <1>3 DEF Chains
<1>5. ConsistentChain(c) /\ DOMAIN c = w.lo..w.hi
  BY <1>4, ConsensusAssumption
<1>6. \A h \in w.lo..w.hi : ToldRightly(c[h])
  BY <1>2, ConsensusAssumption
<1> HIDE DEF c
<1>7. \A h \in w.lo..w.hi : \A i \in 1..Size[c[h]] :
        <<h, i>> \in PositionsIn(c) /\ TxAt(c, <<h, i>>) = Tx[c[h]][i]
  BY <1>5 DEF PositionsIn, TxAt
<1>8. \A g, h \in w.lo..w.hi : \A i \in 1..Size[c[g]], k \in 1..Size[c[h]] :
        Tx[c[g]][i].txid = Tx[c[h]][k].txid => g = h /\ i = k
  <2> TAKE g, h \in w.lo..w.hi
  <2> TAKE i \in 1..Size[c[g]], k \in 1..Size[c[h]]
  <2>1. <<g, i>> \in PositionsIn(c) /\ <<h, k>> \in PositionsIn(c)
    BY <1>7
  <2>2. TxAt(c, <<g, i>>) = Tx[c[g]][i] /\ TxAt(c, <<h, k>>) = Tx[c[h]][k]
    BY <1>7
  <2> QED
    BY <1>5, <2>1, <2>2 DEF ConsistentChain
<1>9. \A g, h \in w.lo..w.hi : \A i \in 1..Size[c[g]], k \in 1..Size[c[h]] :
        \A j \in DOMAIN Tx[c[g]][i].vin :
           LET in == Tx[c[g]][i].vin[j]
           IN  ~in.coinbase /\ in.txid = Tx[c[h]][k].txid =>
                  in.vout + 1 \in DOMAIN Tx[c[h]][k].vout
  <2> TAKE g, h \in w.lo..w.hi
  <2> TAKE i \in 1..Size[c[g]], k \in 1..Size[c[h]]
  <2>1. <<g, i>> \in PositionsIn(c) /\ <<h, k>> \in PositionsIn(c)
    BY <1>7
  <2>2. TxAt(c, <<g, i>>) = Tx[c[g]][i] /\ TxAt(c, <<h, k>>) = Tx[c[h]][k]
    BY <1>7
  <2> QED
    BY <1>5, <2>1, <2>2 DEF ConsistentChain
<1>10. c \in [w.lo..w.hi -> Hashes]
  BY <1>2, <1>5 DEF c
<1>11. ValidChain(w.lo, w.hi, c)
  BY <1>3, <1>6, <1>8, <1>9, <1>10, Zenon DEF ValidChain
<1> QED
  BY <1>1, <1>11 DEF c

LEMMA SoundIsWhole ==
    ASSUME PartsPlaced, NEW w \in Windows, SoundWindow(w)
    PROVE  HoldsChain(TablesOf(part), w.lo, w.hi,
                      [h \in w.lo..w.hi |-> part["blocks"][h].hash])
<1> DEFINE lo == w.lo
           hi == w.hi
           c == [h \in lo..hi |-> part["blocks"][h].hash]
           T == TablesOf(part)
<1>0. lo \in Nat /\ hi \in Nat
  BY WindowsAssumption
<1>1. \A h \in lo..hi : c[h] \in Hashes /\ part["blocks"][h].reported \in Reports(c[h])
  BY SoundIsValid DEF ValidChain
<1>2. \A h \in lo..hi :
        /\ FileRows("blocks", h, part["blocks"][h]) = {FlattenBlock(h, part["blocks"][h])}
        /\ FileRows("transactions", h, part["transactions"][h]) =
              FlattenTransactions(h, c[h], BlockTxs(c[h]))
        /\ FileRows("inputs", h, part["inputs"][h]) = FlattenInputs(h, BlockTxs(c[h]))
        /\ FileRows("outputs", h, part["outputs"][h]) = FlattenOutputs(h, BlockTxs(c[h]))
  <2> TAKE h \in lo..hi
  <2>1. /\ part["transactions"][h] = [hash |-> c[h], txs |-> BlockTxs(c[h])]
        /\ part["inputs"][h] = BlockTxs(c[h])
        /\ part["outputs"][h] = BlockTxs(c[h])
    BY DEF SoundWindow
  <2> HIDE DEF c
  <2> QED
    BY <2>1 DEF FileRows
<1>3. \A d \in Datasets : lo..hi \subseteq Present(part, d)
  BY DEF SoundWindow, PartitionsComplete
<1>4. \A d \in Datasets : \A r : r \in In(T[d], lo, hi) <=>
        \E h \in lo..hi : r \in FileRows(d, h, part[d][h])
  BY <1>0, <1>3, WindowRows
<1>5. \A h \in lo..hi :
        /\ FlattenBlock(h, part["blocks"][h]).height = h
        /\ FlattenBlock(h, part["blocks"][h]).hash = c[h]
        /\ FlattenBlock(h, part["blocks"][h]).prev = Prev[c[h]]
        /\ FlattenBlock(h, part["blocks"][h]).count \in Reports(c[h])
  BY <1>1 DEF FlattenBlock
<1> HIDE DEF T, c, lo, hi
<1>6. \A r : r \in In(T.blocks, lo, hi) <=>
        \E h \in lo..hi : r = FlattenBlock(h, part["blocks"][h])
  BY <1>2, <1>4, DatasetNames
<1>7. \A r : r \in In(T.transactions, lo, hi) <=>
        \E h \in lo..hi : r \in FlattenTransactions(h, c[h], BlockTxs(c[h]))
  BY <1>2, <1>4, DatasetNames
<1>8. \A r : r \in In(T.inputs, lo, hi) <=>
        \E h \in lo..hi : r \in FlattenInputs(h, BlockTxs(c[h]))
  BY <1>2, <1>4, DatasetNames
<1>9. \A r : r \in In(T.outputs, lo, hi) <=>
        \E h \in lo..hi : r \in FlattenOutputs(h, BlockTxs(c[h]))
  BY <1>2, <1>4, DatasetNames
<1>10. \A h \in lo..hi : \A t \in FlattenTransactions(h, c[h], BlockTxs(c[h])) : t.height = h
  BY RowHeights
<1>11. In(T.blocks, lo, hi) \subseteq T.blocks
  BY DEF In
<1>12. \A h \in lo..hi : \E b \in T.blocks : b.height = h
  BY <1>5, <1>6, <1>11
<1>13. ASSUME NEW b \in In(T.blocks, lo, hi)
       PROVE  /\ b.hash = c[b.height] /\ b.prev = Prev[b.hash]
              /\ b.count \in Reports(b.hash)
              /\ \A a \in In(T.blocks, lo, hi) : a.height = b.height => a = b
  BY <1>5, <1>6
<1>14. \A h \in lo..hi : {t \in In(T.transactions, lo, hi) : t.height = h} =
                          FlattenTransactions(h, c[h], BlockTxs(c[h]))
  BY <1>7, <1>10
<1>15. \A r : r \in In(T.transactions, lo, hi) <=>
         \E h \in lo..hi : \E i \in 1..Size[c[h]] : r = TxRow(h, c[h], i)
  BY <1>1, <1>7, RowsOfWholeBlock
<1>16. \A r : r \in In(T.inputs, lo, hi) <=>
         \E h \in lo..hi : \E i \in 1..Size[c[h]] : \E j \in DOMAIN Tx[c[h]][i].vin :
            r = InRow(h, c[h], i, j)
  BY <1>1, <1>8, RowsOfWholeBlock
<1>17. \A r : r \in In(T.outputs, lo, hi) <=>
         \E h \in lo..hi : \E i \in 1..Size[c[h]] : \E j \in DOMAIN Tx[c[h]][i].vout :
            r = OutRow(h, c[h], i, j)
  BY <1>1, <1>9, RowsOfWholeBlock
<1>18. HoldsChain(T, lo, hi, c)
  BY <1>12, <1>13, <1>14, <1>15, <1>16, <1>17 DEF HoldsChain
<1> QED
  BY <1>18 DEF T, c, lo, hi

\* r is the row of the j-th input, or output, of the i-th transaction of c[h].
InputAt(r, lo, hi, c, h, i, j) ==
    /\ h \in lo..hi /\ i \in 1..Size[c[h]] /\ j \in DOMAIN Tx[c[h]][i].vin
    /\ r = InRow(h, c[h], i, j)

OutputAt(r, lo, hi, c, h, i, j) ==
    /\ h \in lo..hi /\ i \in 1..Size[c[h]] /\ j \in DOMAIN Tx[c[h]][i].vout
    /\ r = OutRow(h, c[h], i, j)

LEMMA HeldRows ==
    ASSUME NEW T, NEW lo, NEW hi, NEW c, HoldsChain(T, lo, hi, c)
    PROVE  /\ \A r \in In(T.inputs, lo, hi) : \E h, i, j : InputAt(r, lo, hi, c, h, i, j)
           /\ \A r \in In(T.outputs, lo, hi) : \E h, i, j : OutputAt(r, lo, hi, c, h, i, j)
<1>1. \A r : r \in In(T.inputs, lo, hi) <=>
        \E h \in lo..hi : \E i \in 1..Size[c[h]] : \E j \in DOMAIN Tx[c[h]][i].vin :
           r = InRow(h, c[h], i, j)
  BY Zenon DEF HoldsChain
<1>2. \A r : r \in In(T.outputs, lo, hi) <=>
        \E h \in lo..hi : \E i \in 1..Size[c[h]] : \E j \in DOMAIN Tx[c[h]][i].vout :
           r = OutRow(h, c[h], i, j)
  BY Zenon DEF HoldsChain
<1>3. ASSUME NEW r \in In(T.inputs, lo, hi)
      PROVE  \E h, i, j : InputAt(r, lo, hi, c, h, i, j)
  <2>1. PICK h \in lo..hi : \E i \in 1..Size[c[h]] : \E j \in DOMAIN Tx[c[h]][i].vin :
               r = InRow(h, c[h], i, j)
    BY <1>1, Zenon
  <2>2. PICK i \in 1..Size[c[h]] : \E j \in DOMAIN Tx[c[h]][i].vin :
               r = InRow(h, c[h], i, j)
    BY <2>1
  <2>3. PICK j \in DOMAIN Tx[c[h]][i].vin : r = InRow(h, c[h], i, j)
    BY <2>2
  <2>4. InputAt(r, lo, hi, c, h, i, j)
    BY <2>3 DEF InputAt
  <2> QED
    BY <2>4
<1>4. ASSUME NEW r \in In(T.outputs, lo, hi)
      PROVE  \E h, i, j : OutputAt(r, lo, hi, c, h, i, j)
  <2>1. PICK h \in lo..hi : \E i \in 1..Size[c[h]] : \E j \in DOMAIN Tx[c[h]][i].vout :
               r = OutRow(h, c[h], i, j)
    BY <1>2, Zenon
  <2>2. PICK i \in 1..Size[c[h]] : \E j \in DOMAIN Tx[c[h]][i].vout :
               r = OutRow(h, c[h], i, j)
    BY <2>1
  <2>3. PICK j \in DOMAIN Tx[c[h]][i].vout : r = OutRow(h, c[h], i, j)
    BY <2>2
  <2>4. OutputAt(r, lo, hi, c, h, i, j)
    BY <2>3 DEF OutputAt
  <2> QED
    BY <2>4
<1> QED
  BY <1>3, <1>4

LEMMA BlocksPass ==
    ASSUME NEW T, NEW lo \in Nat, NEW hi \in Nat, NEW c,
           ValidChain(lo, hi, c), HoldsChain(T, lo, hi, c)
    PROVE  \A n \in {1, 2, 3, 4, 6, 7, 9} : Check(n, T, lo, hi)
<1>1. /\ \A h \in lo..hi : c[h] \in Hashes /\ Size[c[h]] \in Nat \ {0}
      /\ \A g, h \in lo..hi : \A i \in 1..Size[c[g]], j \in 1..Size[c[h]] :
           Tx[c[g]][i].txid = Tx[c[h]][j].txid => g = h /\ i = j
      /\ \A h \in (lo + 1)..hi : Prev[c[h]] = c[h - 1]
  BY SizeAssumption DEF ValidChain
<1>2. /\ \A h \in lo..hi : \E b \in T.blocks : b.height = h
      /\ \A b \in In(T.blocks, lo, hi) :
           /\ b.hash = c[b.height] /\ b.prev = Prev[b.hash]
           /\ b.count \in Reports(b.hash)
           /\ \A a \in In(T.blocks, lo, hi) : a.height = b.height => a = b
  BY DEF HoldsChain
<1>3. \A g, h \in lo..hi : c[g] = c[h] => g = h
  <2> TAKE g, h \in lo..hi
  <2>1. 1 \in 1..Size[c[g]] /\ 1 \in 1..Size[c[h]]
    BY <1>1
  <2> QED
    BY <1>1, <2>1
<1>4. \A b \in In(T.blocks, lo, hi) : b \in T.blocks /\ b.height \in lo..hi
  BY DEF In
<1>5. \A t \in In(T.transactions, lo, hi) : t.height \in lo..hi /\ t.hash = c[t.height]
  BY DEF HoldsChain, TxRow
<1>6. HeightsPresent(T, lo, hi)
  BY <1>2 DEF HeightsPresent
<1>7. NoDuplicateHeights(T, lo, hi)
  BY <1>2 DEF NoDuplicateHeights, Unique
<1>8. NoDuplicateHashes(T, lo, hi)
  BY <1>2, <1>3, <1>4 DEF NoDuplicateHashes, Unique
<1>9. TxCountMatches(T, lo, hi)
  <2> SUFFICES ASSUME NEW b \in In(T.blocks, lo, hi), b.count # NoCount
               PROVE  b.count = Cardinality({t \in In(T.transactions, lo, hi) :
                                               t.height = b.height})
    BY DEF TxCountMatches
  <2>1. b.height \in lo..hi /\ b.hash = c[b.height] /\ b.count = Size[c[b.height]]
    BY <1>2, <1>4 DEF Reports
  <2>2. {t \in In(T.transactions, lo, hi) : t.height = b.height} =
          FlattenTransactions(b.height, b.hash, BlockTxs(b.hash))
    BY <2>1 DEF HoldsChain
  <2>3. DOMAIN BlockTxs(b.hash) = 1..Size[b.hash] /\ Size[b.hash] \in Nat
    BY <1>1, <2>1 DEF BlockTxs, FirstTxs
  <2>4. Cardinality(FlattenTransactions(b.height, b.hash, BlockTxs(b.hash))) = Size[b.hash]
    BY <2>3, TransactionRows
  <2> QED
    BY <2>1, <2>2, <2>4
<1>10. BlockHeightHashAgree(T, lo, hi)
  <2> SUFFICES ASSUME NEW t \in In(T.transactions, lo, hi), NEW b \in T.blocks,
                      t.height = b.height
               PROVE  t.hash = b.hash
    BY DEF BlockHeightHashAgree
  <2>1. b \in In(T.blocks, lo, hi)
    BY <1>5 DEF In
  <2> QED
    BY <1>2, <1>5, <2>1
<1>11. ChainLinkageInternal(T, lo, hi)
  <2> SUFFICES ASSUME NEW b \in In(T.blocks, lo + 1, hi)
               PROVE  \E prior \in T.blocks : prior.height = b.height - 1 /\ prior.hash = b.prev
    BY DEF ChainLinkageInternal
  <2>1. /\ b \in In(T.blocks, lo, hi)
        /\ b.height \in (lo + 1)..hi /\ b.height - 1 \in lo..hi
    BY DEF In
  <2>2. PICK prior \in T.blocks : prior.height = b.height - 1
    BY <1>2, <2>1
  <2>3. prior \in In(T.blocks, lo, hi)
    BY <2>1, <2>2 DEF In
  <2> QED
    BY <1>1, <1>2, <2>1, <2>2, <2>3
<1>12. TxReferencesLoadedBlock(T, lo, hi)
  BY <1>2, <1>5 DEF TxReferencesLoadedBlock
<1> QED
  BY <1>6, <1>7, <1>8, <1>9, <1>10, <1>11, <1>12, Checks

\* A transaction is the coinbase of its block if and only if it is the first.
LEMMA CoinbaseIsFirst ==
    ASSUME NEW b \in Hashes, ToldRightly(b), NEW i \in 1..Size[b]
    PROVE  /\ IsCoinbase(Tx[b][i]) <=> i = 1
           /\ \A j \in DOMAIN Tx[b][i].vin : Tx[b][i].vin[j].coinbase <=> i = 1
<1>1. /\ Len(Tx[b][i].vin) > 0
      /\ \A j \in DOMAIN Tx[b][i].vin : Tx[b][i].vin[j].coinbase <=> i = 1
  BY DEF ToldRightly
<1>2. DOMAIN Tx[b][i].vin = 1..Len(Tx[b][i].vin) /\ Len(Tx[b][i].vin) \in Nat
  BY TxAssumption
<1>3. 1 \in DOMAIN Tx[b][i].vin
  BY <1>1, <1>2
<1> QED
  BY <1>1, <1>3 DEF IsCoinbase

LEMMA TransactionsPass ==
    ASSUME NEW T, NEW lo \in Nat, NEW hi \in Nat, NEW c,
           ValidChain(lo, hi, c), HoldsChain(T, lo, hi, c)
    PROVE  \A n \in {5, 8, 10, 11, 12, 13, 14} \cup 23..27 : Check(n, T, lo, hi)
<1>1. /\ \A h \in lo..hi : c[h] \in Hashes /\ Size[c[h]] \in Nat \ {0} /\ ToldRightly(c[h])
      /\ \A g, h \in lo..hi : \A i \in 1..Size[c[g]], j \in 1..Size[c[h]] :
           Tx[c[g]][i].txid = Tx[c[h]][j].txid => g = h /\ i = j
  BY SizeAssumption DEF ValidChain
<1>2. \A h \in lo..hi : \A i \in 1..Size[c[h]] :
        /\ TxRow(h, c[h], i).height = h /\ TxRow(h, c[h], i).index = i - 1
        /\ TxRow(h, c[h], i).txid = Tx[c[h]][i].txid
        /\ TxRow(h, c[h], i).coinbase <=> i = 1
  BY <1>1, CoinbaseIsFirst DEF TxRow
<1>3. \A t : t \in In(T.transactions, lo, hi) <=>
        \E h \in lo..hi : \E i \in 1..Size[c[h]] : t = TxRow(h, c[h], i)
  BY DEF HoldsChain
<1>4. ExactlyOneCoinbase(T, lo, hi)
  <2> SUFFICES ASSUME NEW t \in In(T.transactions, lo, hi)
               PROVE  Cardinality({u \in In(T.transactions, lo, hi) :
                                     u.height = t.height /\ u.coinbase}) = 1
    BY DEF ExactlyOneCoinbase
  <2>1. PICK h \in lo..hi : t.height = h
    BY <1>2, <1>3
  <2>2. 1 \in 1..Size[c[h]]
    BY <1>1
  <2>3. {u \in In(T.transactions, lo, hi) : u.height = t.height /\ u.coinbase} =
          {TxRow(h, c[h], 1)}
    BY <1>2, <1>3, <2>1, <2>2
  <2> QED
    BY <2>3, FS_Singleton
<1>5. TxidUnique(T, lo, hi)
  BY <1>1, <1>2, <1>3 DEF TxidUnique, Unique
<1>6. TxIndexNonnegative(T, lo, hi)
  BY <1>2, <1>3 DEF TxIndexNonnegative
<1>7. TxIndexUniquePerBlock(T, lo, hi)
  <2> SUFFICES ASSUME NEW s \in In(T.transactions, lo, hi), NEW t \in In(T.transactions, lo, hi),
                      s.height = t.height, s.index = t.index
               PROVE  s = t
    BY DEF TxIndexUniquePerBlock, Unique
  <2>1. PICK g \in lo..hi : \E i \in 1..Size[c[g]] : s = TxRow(g, c[g], i)
    BY <1>3
  <2>2. PICK i \in 1..Size[c[g]] : s = TxRow(g, c[g], i)
    BY <2>1
  <2>3. PICK h \in lo..hi : \E j \in 1..Size[c[h]] : t = TxRow(h, c[h], j)
    BY <1>3
  <2>4. PICK j \in 1..Size[c[h]] : t = TxRow(h, c[h], j)
    BY <2>3
  <2>5. g = h /\ i - 1 = j - 1
    BY <1>2, <2>2, <2>4
  <2> QED
    BY <2>2, <2>4, <2>5
<1>8. TxHasInput(T, lo, hi) /\ TxHasOutput(T, lo, hi)
  <2> SUFFICES ASSUME NEW t \in In(T.transactions, lo, hi)
               PROVE  /\ \E i \in In(T.inputs, lo, hi) : i.txid = t.txid
                      /\ \E o \in In(T.outputs, lo, hi) : o.txid = t.txid
    BY DEF TxHasInput, TxHasOutput
  <2>1. PICK h \in lo..hi : \E i \in 1..Size[c[h]] : t = TxRow(h, c[h], i)
    BY <1>3
  <2>2. PICK i \in 1..Size[c[h]] : t = TxRow(h, c[h], i)
    BY <2>1
  <2>3. 1 \in DOMAIN Tx[c[h]][i].vin /\ 1 \in DOMAIN Tx[c[h]][i].vout
    <3>1. Len(Tx[c[h]][i].vin) > 0 /\ Len(Tx[c[h]][i].vout) > 0
      BY <1>1 DEF ToldRightly
    <3>2. /\ DOMAIN Tx[c[h]][i].vin = 1..Len(Tx[c[h]][i].vin)
          /\ Len(Tx[c[h]][i].vin) \in Nat
          /\ Tx[c[h]][i].vout \in Seq(Int)
      BY <1>1, TxAssumption
    <3> QED
      BY <3>1, <3>2
  <2>4. InRow(h, c[h], i, 1) \in In(T.inputs, lo, hi)
    BY <2>3 DEF HoldsChain
  <2>5. OutRow(h, c[h], i, 1) \in In(T.outputs, lo, hi)
    BY <2>3 DEF HoldsChain
  <2>6. InRow(h, c[h], i, 1).txid = t.txid /\ OutRow(h, c[h], i, 1).txid = t.txid
    BY <1>2, <2>2 DEF InRow, OutRow
  <2> QED
    BY <2>4, <2>5, <2>6
<1>9. OrdinaryTxNoCoinbaseInput(T, lo, hi)
  <2> SUFFICES ASSUME NEW t \in In(T.transactions, lo, hi), NEW r \in In(T.inputs, lo, hi),
                      r.txid = t.txid, ~t.coinbase
               PROVE  ~r.coinbase
    BY DEF OrdinaryTxNoCoinbaseInput
  <2>1. PICK h \in lo..hi : \E i \in 1..Size[c[h]] : t = TxRow(h, c[h], i)
    BY <1>3
  <2>2. PICK i \in 1..Size[c[h]] : t = TxRow(h, c[h], i)
    BY <2>1
  <2>3. PICK g, k, j : InputAt(r, lo, hi, c, g, k, j)
    BY HeldRows
  <2>4. Tx[c[g]][k].txid = Tx[c[h]][i].txid
    BY <1>2, <2>2, <2>3 DEF InputAt, InRow
  <2>5. g = h /\ k = i /\ i # 1
    BY <1>1, <1>2, <2>2, <2>3, <2>4 DEF InputAt
  <2>6. ~Tx[c[g]][k].vin[j].coinbase
    BY <1>1, <2>3, <2>5, CoinbaseIsFirst DEF InputAt
  <2> QED
    BY <2>3, <2>6 DEF InputAt, InRow
<1>10. \A t \in In(T.transactions, lo, hi) :
         /\ ~t.coinbase => t.fee >= 0
         /\ t.size > 0 /\ t.weight > 0 /\ t.weight <= 4 * t.size
         /\ t.weight \in Int /\ t.vsize = vsizeFromWeight(t.weight)
  <2> TAKE t \in In(T.transactions, lo, hi)
  <2>1. PICK h \in lo..hi : \E i \in 1..Size[c[h]] : t = TxRow(h, c[h], i)
    BY <1>3
  <2>2. PICK i \in 1..Size[c[h]] : t = TxRow(h, c[h], i)
    BY <2>1
  <2>3. /\ i # 1 => Tx[c[h]][i].fee >= 0
        /\ Tx[c[h]][i].size > 0 /\ Tx[c[h]][i].weight > 0
        /\ Tx[c[h]][i].weight <= 4 * Tx[c[h]][i].size
    BY <1>1 DEF ToldRightly
  <2>4. Tx[c[h]][i].weight \in Int
    BY <1>1, TxAssumption
  <2>5. /\ t.fee = Tx[c[h]][i].fee /\ t.size = Tx[c[h]][i].size
        /\ t.weight = Tx[c[h]][i].weight /\ t.vsize = vsizeFromWeight(t.weight)
        /\ t.coinbase <=> i = 1
    BY <1>2, <2>2 DEF TxRow
  <2> QED
    BY <2>3, <2>4, <2>5
<1>11. /\ FeesNonnegative(T, lo, hi) /\ SizePositive(T, lo, hi)
       /\ WeightPositive(T, lo, hi) /\ WeightBoundedBySize(T, lo, hi)
  BY <1>10 DEF FeesNonnegative, SizePositive, WeightPositive, WeightBoundedBySize
<1>12. VsizeFormula(T, lo, hi)
  <2>1. \A n \in Int : LET v == vsizeFromWeight(n) IN 4 * (v - 1) < n /\ n <= 4 * v
    BY DEF vsizeFromWeight
  <2> QED
    BY <1>10, <2>1 DEF VsizeFormula
<1> QED
  BY <1>4, <1>5, <1>6, <1>7, <1>8, <1>9, <1>11, <1>12, Checks

LEMMA InputsOutputsPass ==
    ASSUME NEW T, NEW lo \in Nat, NEW hi \in Nat, NEW c,
           ValidChain(lo, hi, c), HoldsChain(T, lo, hi, c)
    PROVE  \A n \in 15..17 \cup 19..21 : Check(n, T, lo, hi)
<1>1. /\ \A h \in lo..hi : c[h] \in Hashes /\ ToldRightly(c[h])
      /\ \A g, h \in lo..hi : \A i \in 1..Size[c[g]], j \in 1..Size[c[h]] :
           Tx[c[g]][i].txid = Tx[c[h]][j].txid => g = h /\ i = j
  BY DEF ValidChain
<1>2. \A h \in lo..hi : \A i \in 1..Size[c[h]] :
        /\ DOMAIN Tx[c[h]][i].vin \subseteq Nat
        /\ DOMAIN Tx[c[h]][i].vout \subseteq Nat
  <2> TAKE h \in lo..hi
  <2> TAKE i \in 1..Size[c[h]]
  <2>1. /\ DOMAIN Tx[c[h]][i].vin = 1..Len(Tx[c[h]][i].vin)
        /\ Tx[c[h]][i].vout \in Seq(Int)
    BY <1>1, TxAssumption
  <2> QED
    BY <2>1
<1>3. \A h \in lo..hi : \A i \in 1..Size[c[h]] : \A j \in DOMAIN Tx[c[h]][i].vin :
        LET r == InRow(h, c[h], i, j)
        IN  /\ r.txid = Tx[c[h]][i].txid /\ r.index = j - 1
            /\ r.coinbase <=> i = 1
            /\ i # 1 => NoValue \notin {r.prevTxid, r.prevVout}
            /\ r.value # NoValue => r.value >= 0
  <2> TAKE h \in lo..hi
  <2> TAKE i \in 1..Size[c[h]]
  <2> TAKE j \in DOMAIN Tx[c[h]][i].vin
  <2>1. LET in == Tx[c[h]][i].vin[j]
        IN  /\ in.coinbase <=> i = 1
            /\ i # 1 => NoValue \notin {in.txid, in.vout}
            /\ in.value # NoValue => in.value >= 0
    BY <1>1 DEF ToldRightly
  <2> QED
    BY <2>1 DEF InRow
<1>4. \A h \in lo..hi : \A i \in 1..Size[c[h]] : \A j \in DOMAIN Tx[c[h]][i].vout :
        LET r == OutRow(h, c[h], i, j)
        IN  /\ r.txid = Tx[c[h]][i].txid /\ r.index = j - 1 /\ r.value >= 0
  BY <1>1 DEF OutRow, ToldRightly
<1>5. InputIndexUnique(T, lo, hi)
  <2> SUFFICES ASSUME NEW r \in In(T.inputs, lo, hi), NEW s \in In(T.inputs, lo, hi),
                      r.txid = s.txid, r.index = s.index
               PROVE  r = s
    BY DEF InputIndexUnique, Unique
  <2>1. PICK g, i, j : InputAt(r, lo, hi, c, g, i, j)
    BY HeldRows, Zenon
  <2>2. PICK h, k, l : InputAt(s, lo, hi, c, h, k, l)
    BY HeldRows, Zenon
  <2>3. g = h /\ i = k
    BY <1>1, <1>3, <2>1, <2>2 DEF InputAt
  <2>4. j = l
    BY <1>2, <1>3, <2>1, <2>2, <2>3 DEF InputAt
  <2> QED
    BY <2>1, <2>2, <2>3, <2>4 DEF InputAt
<1>6. OutputIndexUnique(T, lo, hi)
  <2> SUFFICES ASSUME NEW r \in In(T.outputs, lo, hi), NEW s \in In(T.outputs, lo, hi),
                      r.txid = s.txid, r.index = s.index
               PROVE  r = s
    BY DEF OutputIndexUnique, Unique
  <2>1. PICK g, i, j : OutputAt(r, lo, hi, c, g, i, j)
    BY HeldRows, Zenon
  <2>2. PICK h, k, l : OutputAt(s, lo, hi, c, h, k, l)
    BY HeldRows, Zenon
  <2>3. g = h /\ i = k
    BY <1>1, <1>4, <2>1, <2>2 DEF OutputAt
  <2>4. j - 1 = l - 1 /\ j \in Nat /\ l \in Nat
    BY <1>2, <2>1, <2>2, <2>3 DEF OutputAt, OutRow
  <2> QED
    BY <2>1, <2>2, <2>3, <2>4 DEF OutputAt
<1>7. OrdinaryInputsHavePrevRef(T, lo, hi)
  <2> SUFFICES ASSUME NEW r \in In(T.inputs, lo, hi), ~r.coinbase
               PROVE  NoValue \notin {r.prevTxid, r.prevVout}
    BY DEF OrdinaryInputsHavePrevRef, OrdinaryInputs
  <2>1. PICK g, i, j : InputAt(r, lo, hi, c, g, i, j)
    BY HeldRows, Zenon
  <2> QED
    BY <1>3, <2>1 DEF InputAt
<1>8. PrevOutputValueNonnegative(T, lo, hi)
  <2> SUFFICES ASSUME NEW r \in In(T.inputs, lo, hi), r.value # NoValue
               PROVE  r.value >= 0
    BY DEF PrevOutputValueNonnegative
  <2>1. PICK g, i, j : InputAt(r, lo, hi, c, g, i, j)
    BY HeldRows, Zenon
  <2> QED
    BY <1>3, <2>1 DEF InputAt
<1>9. OutputValueNonnegative(T, lo, hi) /\ OutputsReferenceValidTx(T, lo, hi)
  <2> SUFFICES ASSUME NEW r \in In(T.outputs, lo, hi)
               PROVE  r.value >= 0 /\ \E t \in In(T.transactions, lo, hi) : t.txid = r.txid
    BY DEF OutputValueNonnegative, OutputsReferenceValidTx
  <2>1. PICK g, i, j : OutputAt(r, lo, hi, c, g, i, j)
    BY HeldRows, Zenon
  <2>2. TxRow(g, c[g], i) \in In(T.transactions, lo, hi)
    BY <2>1 DEF OutputAt, HoldsChain
  <2>3. TxRow(g, c[g], i).txid = Tx[c[g]][i].txid
    BY DEF TxRow
  <2> QED
    BY <1>4, <2>1, <2>2, <2>3 DEF OutputAt
<1> QED
  BY <1>5, <1>6, <1>7, <1>8, <1>9, Checks

\* A reference to a transaction of the chain is to an output that it has.
LEMMA ReferencesPass ==
    ASSUME NEW T, NEW lo \in Nat, NEW hi \in Nat, NEW c,
           ValidChain(lo, hi, c), HoldsChain(T, lo, hi, c)
    PROVE  InternalInputsResolveUniquely(T, lo, hi)
<1> SUFFICES ASSUME NEW r \in In(T.inputs, lo, hi), ~r.coinbase,
                    NEW t \in In(T.transactions, lo, hi), t.txid = r.prevTxid
             PROVE  Cardinality({o \in In(T.outputs, lo, hi) :
                                   o.txid = r.prevTxid /\ o.index = r.prevVout}) = 1
  BY DEF InternalInputsResolveUniquely, OrdinaryInputs, Internal
<1>1. PICK g, i, j : InputAt(r, lo, hi, c, g, i, j)
  BY HeldRows, Zenon
<1>2. PICK h \in lo..hi : \E k \in 1..Size[c[h]] : t = TxRow(h, c[h], k)
  BY DEF HoldsChain
<1>3. PICK k \in 1..Size[c[h]] : t = TxRow(h, c[h], k)
  BY <1>2
<1>4. /\ r.prevTxid = Tx[c[g]][i].vin[j].txid /\ r.prevVout = Tx[c[g]][i].vin[j].vout
      /\ r.coinbase = Tx[c[g]][i].vin[j].coinbase /\ t.txid = Tx[c[h]][k].txid
  BY <1>1, <1>3 DEF InputAt, InRow, TxRow
<1> DEFINE n == r.prevVout + 1
<1>5. n \in DOMAIN Tx[c[h]][k].vout
  <2>1. g \in lo..hi /\ i \in 1..Size[c[g]] /\ j \in DOMAIN Tx[c[g]][i].vin
    BY <1>1 DEF InputAt
  <2>2. /\ ~Tx[c[g]][i].vin[j].coinbase
        /\ Tx[c[g]][i].vin[j].txid = Tx[c[h]][k].txid
    BY <1>4
  <2>3. Tx[c[g]][i].vin[j].vout + 1 \in DOMAIN Tx[c[h]][k].vout
    BY <2>1, <2>2, Zenon DEF ValidChain
  <2> QED
    BY <1>4, <2>3
<1>6. ToldRightly(c[g]) /\ c[g] \in Hashes
  BY <1>1 DEF InputAt, ValidChain
<1>7. r.prevVout \in Int
  <2>1. Tx[c[g]][i].vin[j].vout \in Int \cup {NoValue}
    BY <1>1, <1>6, TxAssumption DEF InputAt
  <2>2. Tx[c[g]][i].vin[j].coinbase <=> i = 1
    BY <1>1, <1>6 DEF InputAt, ToldRightly
  <2>3. i # 1 => Tx[c[g]][i].vin[j].vout # NoValue
    BY <1>1, <1>6 DEF InputAt, ToldRightly
  <2> QED
    BY <1>4, <2>1, <2>2, <2>3
<1>8. OutRow(h, c[h], k, n) \in In(T.outputs, lo, hi)
  BY <1>5 DEF HoldsChain
<1>9. OutRow(h, c[h], k, n).txid = r.prevTxid /\ OutRow(h, c[h], k, n).index = r.prevVout
  BY <1>4, <1>7 DEF OutRow
<1>10. ASSUME NEW o \in In(T.outputs, lo, hi), o.txid = r.prevTxid, o.index = r.prevVout
       PROVE  o = OutRow(h, c[h], k, n)
  BY <1>8, <1>9, <1>10, InputsOutputsPass, Checks DEF OutputIndexUnique, Unique
<1>11. {o \in In(T.outputs, lo, hi) : o.txid = r.prevTxid /\ o.index = r.prevVout} =
          {OutRow(h, c[h], k, n)}
  BY <1>8, <1>9, <1>10
<1> QED
  BY <1>11, FS_Singleton

\* The rows that are summed up for a transaction are all of its rows.
LEMMA FeesPass ==
    ASSUME NEW T, NEW lo \in Nat, NEW hi \in Nat, lo..hi \subseteq Heights, NEW c,
           ValidChain(lo, hi, c), HoldsChain(T, lo, hi, c)
    PROVE  FeeArithmetic(T, lo, hi)
<1> SUFFICES ASSUME NEW t \in In(T.transactions, lo, hi), ~t.coinbase,
                    \A r \in InputsOf(T, lo, hi, t.txid) : r.value # NoValue
             PROVE  t.fee = ValueOf(InputsOf(T, lo, hi, t.txid))
                            - ValueOf(OutputsOf(T, lo, hi, t.txid))
  BY DEF FeeArithmetic
<1>1. PICK h \in lo..hi : \E i \in 1..Size[c[h]] : t = TxRow(h, c[h], i)
  BY DEF HoldsChain
<1>2. PICK i \in 1..Size[c[h]] : t = TxRow(h, c[h], i)
  BY <1>1
<1>3. /\ c[h] \in Hashes /\ ToldRightly(c[h])
      /\ \A g \in lo..hi : \A k \in 1..Size[c[g]] :
           Tx[c[g]][k].txid = Tx[c[h]][i].txid => g = h /\ k = i
  BY DEF ValidChain
<1>4. /\ t.txid = Tx[c[h]][i].txid /\ t.fee = Tx[c[h]][i].fee /\ i # 1
      /\ \A j \in DOMAIN Tx[c[h]][i].vin : ~Tx[c[h]][i].vin[j].coinbase
  BY <1>2, <1>3, CoinbaseIsFirst DEF TxRow
<1> DEFINE one == << <<c[h], i>> >>
<1>5. DOMAIN one = {1} /\ TxOf(one[1]) = Tx[c[h]][i]
  BY DEF TxOf
<1>6. FlattenInputs(h, one) = {InRow(h, c[h], i, j) : j \in DOMAIN Tx[c[h]][i].vin}
  BY <1>5 DEF FlattenInputs, InRow
<1>7. FlattenOutputs(h, one) = {OutRow(h, c[h], i, j) : j \in DOMAIN Tx[c[h]][i].vout}
  BY <1>5 DEF FlattenOutputs, OutRow
<1> HIDE DEF one
<1>8. InputsOf(T, lo, hi, t.txid) = FlattenInputs(h, one)
  <2>1. ASSUME NEW r \in InputsOf(T, lo, hi, t.txid) PROVE r \in FlattenInputs(h, one)
    <3>1. r \in In(T.inputs, lo, hi) /\ r.txid = t.txid
      BY DEF InputsOf, OrdinaryInputs
    <3>2. PICK g, k, j : InputAt(r, lo, hi, c, g, k, j)
      BY <3>1, HeldRows, Zenon
    <3>3. g = h /\ k = i
      BY <1>3, <1>4, <3>1, <3>2 DEF InputAt, InRow
    <3> QED
      BY <1>6, <3>2, <3>3 DEF InputAt
  <2>2. ASSUME NEW j \in DOMAIN Tx[c[h]][i].vin
        PROVE  InRow(h, c[h], i, j) \in InputsOf(T, lo, hi, t.txid)
    <3>1. InRow(h, c[h], i, j) \in In(T.inputs, lo, hi)
      BY DEF HoldsChain
    <3>2. /\ InRow(h, c[h], i, j).txid = Tx[c[h]][i].txid
          /\ InRow(h, c[h], i, j).coinbase = Tx[c[h]][i].vin[j].coinbase
      BY DEF InRow
    <3> QED
      BY <1>4, <3>1, <3>2 DEF InputsOf, OrdinaryInputs
  <2> QED
    BY <1>6, <2>1, <2>2
<1>9. OutputsOf(T, lo, hi, t.txid) = FlattenOutputs(h, one)
  <2>1. ASSUME NEW r \in OutputsOf(T, lo, hi, t.txid) PROVE r \in FlattenOutputs(h, one)
    <3>1. r \in In(T.outputs, lo, hi) /\ r.txid = t.txid
      BY DEF OutputsOf
    <3>2. PICK g, k, j : OutputAt(r, lo, hi, c, g, k, j)
      BY <3>1, HeldRows, Zenon
    <3>3. g = h /\ k = i
      BY <1>3, <1>4, <3>1, <3>2 DEF OutputAt, OutRow
    <3> QED
      BY <1>7, <3>2, <3>3 DEF OutputAt
  <2>2. ASSUME NEW j \in DOMAIN Tx[c[h]][i].vout
        PROVE  OutRow(h, c[h], i, j) \in OutputsOf(T, lo, hi, t.txid)
    <3>1. OutRow(h, c[h], i, j) \in In(T.outputs, lo, hi)
      BY DEF HoldsChain
    <3>2. OutRow(h, c[h], i, j).txid = Tx[c[h]][i].txid
      BY DEF OutRow
    <3> QED
      BY <1>4, <3>1, <3>2 DEF OutputsOf
  <2> QED
    BY <1>7, <2>1, <2>2
<1>10. \A j \in DOMAIN Tx[c[h]][i].vin : Tx[c[h]][i].vin[j].value # NoValue
  <2> TAKE j \in DOMAIN Tx[c[h]][i].vin
  <2>1. InRow(h, c[h], i, j).value # NoValue
    BY <1>6, <1>8
  <2> QED
    BY <2>1 DEF InRow
<1>11. h \in Heights
  OBVIOUS
<1>12. Tx[c[h]][i].fee = ValueOf(FlattenInputs(h, << <<c[h], i>> >>))
                         - ValueOf(FlattenOutputs(h, << <<c[h], i>> >>))
  BY <1>3, <1>4, <1>10, <1>11 DEF ToldRightly
<1> QED
  BY <1>4, <1>8, <1>9, <1>12 DEF one

\* validate_dataset.py:8-10: what crosses the border of a sound window is
\* measured, and fails nothing.
THEOREM BoundariesNeverFail == Spec => []BoundaryNeverFails
<1>1. IInv => BoundaryNeverFails
  <2> SUFFICES ASSUME IInv, NEW w \in Windows, SoundWindow(w)
               PROVE  AllChecksPass(TablesOf(part), w.lo, w.hi)
    BY DEF BoundaryNeverFails
  <2> DEFINE T == TablesOf(part)
             c == [h \in w.lo..w.hi |-> part["blocks"][h].hash]
  <2>1. w.lo \in Nat /\ w.hi \in Nat /\ w.lo..w.hi \subseteq Heights /\ PartsPlaced
    BY WindowsAssumption DEF IInv
  <2>2. ValidChain(w.lo, w.hi, c)
    BY <2>1, SoundIsValid
  <2>3. HoldsChain(T, w.lo, w.hi, c)
    BY <2>1, SoundIsWhole
  <2> HIDE DEF T, c
  <2>4. \A n \in {1, 2, 3, 4, 6, 7, 9} : Check(n, T, w.lo, w.hi)
    BY <2>1, <2>2, <2>3, BlocksPass
  <2>5. \A n \in {5, 8, 10, 11, 12, 13, 14} \cup 23..27 : Check(n, T, w.lo, w.hi)
    BY <2>1, <2>2, <2>3, TransactionsPass
  <2>6. \A n \in 15..17 \cup 19..21 : Check(n, T, w.lo, w.hi)
    BY <2>1, <2>2, <2>3, InputsOutputsPass
  <2>7. Check(18, T, w.lo, w.hi)
    BY <2>1, <2>2, <2>3, ReferencesPass, Checks
  <2>8. Check(22, T, w.lo, w.hi)
    BY <2>1, <2>2, <2>3, FeesPass, Checks
  <2>9. \A n \in 1..NumChecks : Check(n, T, w.lo, w.hi)
    <3>1. \A n \in 1..27 : \/ n \in {1, 2, 3, 4, 6, 7, 9}
                           \/ n \in {5, 8, 10, 11, 12, 13, 14} \cup 23..27
                           \/ n \in 15..17 \cup 19..21 \/ n = 18 \/ n = 22
      OBVIOUS
    <3> QED
      BY <3>1, <2>4, <2>5, <2>6, <2>7, <2>8, Zenon DEF NumChecks
  <2> QED
    BY <2>9 DEF AllChecksPass, T
<1> QED
  BY <1>1, InductiveInvariant, PTL

-----------------------------------------------------------------------------
(* The gate keeps its contract.  GateContract has its own copies of the    *)
(* operators of QualityChecks; they say the same.                          *)

LEMMA SameSums == \A rows : Gate!ValueOf(rows) = ValueOf(rows)
BY DEF ValueOf, Gate!ValueOf, MapThenSumSet, Gate!MapThenSumSet, MapThenFoldSet,
       Gate!MapThenFoldSet

LEMMA SameChecks == \A n, T, lo, hi : Gate!Check(n, T, lo, hi) <=> Check(n, T, lo, hi)
BY SameSums
   DEF Check, Gate!Check, HeightsPresent, Gate!HeightsPresent, NoDuplicateHeights,
       Gate!NoDuplicateHeights, NoDuplicateHashes, Gate!NoDuplicateHashes,
       TxCountMatches, Gate!TxCountMatches, ExactlyOneCoinbase, Gate!ExactlyOneCoinbase,
       BlockHeightHashAgree, Gate!BlockHeightHashAgree, ChainLinkageInternal,
       Gate!ChainLinkageInternal, TxidUnique, Gate!TxidUnique, TxReferencesLoadedBlock,
       Gate!TxReferencesLoadedBlock, TxIndexNonnegative, Gate!TxIndexNonnegative,
       TxIndexUniquePerBlock, Gate!TxIndexUniquePerBlock, TxHasInput, Gate!TxHasInput,
       TxHasOutput, Gate!TxHasOutput, OrdinaryTxNoCoinbaseInput,
       Gate!OrdinaryTxNoCoinbaseInput, InputIndexUnique, Gate!InputIndexUnique,
       OrdinaryInputsHavePrevRef, Gate!OrdinaryInputsHavePrevRef,
       PrevOutputValueNonnegative, Gate!PrevOutputValueNonnegative,
       InternalInputsResolveUniquely, Gate!InternalInputsResolveUniquely,
       OutputIndexUnique, Gate!OutputIndexUnique, OutputValueNonnegative,
       Gate!OutputValueNonnegative, OutputsReferenceValidTx,
       Gate!OutputsReferenceValidTx, FeeArithmetic, Gate!FeeArithmetic, FeesNonnegative,
       Gate!FeesNonnegative, SizePositive, Gate!SizePositive, WeightPositive,
       Gate!WeightPositive, VsizeFormula, Gate!VsizeFormula, WeightBoundedBySize,
       Gate!WeightBoundedBySize, In, Gate!In, Unique, Gate!Unique, OrdinaryInputs,
       Gate!OrdinaryInputs, Internal, Gate!Internal, InputsOf, Gate!InputsOf, OutputsOf,
       Gate!OutputsOf

LEMMA SameTables == \A P : Gate!TablesOf(P) = TablesOf(P)
BY DEF TablesOf, Gate!TablesOf, Present, Gate!Present,
       FlattenBlock,
       Gate!FlattenBlock, FlattenTransactions, Gate!FlattenTransactions, FlattenInputs,
       Gate!FlattenInputs, FlattenOutputs, Gate!FlattenOutputs, TxOf, Gate!TxOf,
       IsCoinbase, Gate!IsCoinbase, vsizeFromWeight, Gate!vsizeFromWeight

LEMMA SameCleared == \A P, w : Gate!Cleared(P, w) <=> Cleared(P, w)
<1>1. \A P, w : Gate!CountsKnown(P, w) <=> CountsKnown(P, w)
  BY DEF CountsKnown, Gate!CountsKnown, Present, Gate!Present
<1>2. \A P, w : Gate!PartitionsComplete(P, w) <=> PartitionsComplete(P, w)
  BY DEF PartitionsComplete, Gate!PartitionsComplete, Present, Gate!Present,
         Datasets, Gate!Datasets, DatasetOrder, Gate!DatasetOrder
<1>3. \A T, lo, hi : Gate!AllChecksPass(T, lo, hi) <=> AllChecksPass(T, lo, hi)
  BY SameChecks DEF AllChecksPass, Gate!AllChecksPass, NumChecks, Gate!NumChecks
<1> QED
  BY <1>1, <1>2, <1>3, SameTables DEF Cleared, Gate!Cleared, Sound, Gate!Sound

LEMMA SameFileData ==
    /\ \A dir : Gate!Derived!IsComplete(dir) = IsComplete(dir)
    /\ \A d, dir : Gate!Derived!RowsOf(d, dir) = RowsOf(d, dir)
    /\ Gate!Derived!Datasets = Datasets
    /\ \A d : Gate!Derived!Before(d) = Before(d)
    /\ \A h : Gate!Derived!Store!Fetches(h) = Fetches(h)
    /\ \A f : Gate!Derived!Store!Directory(f) = Directory(f)
BY DEF Gate!Derived!IsComplete, Gate!Derived!CountsAgree, Gate!Derived!RequiredFiles,
       Gate!Derived!BlockJson, Gate!Derived!TxsJsonl, Gate!Derived!MetaJson,
       Gate!Derived!RowsOf, Gate!Derived!Rows, Gate!Derived!Datasets,
       Gate!Derived!DatasetOrder, Gate!Derived!Before, Gate!Derived!Store!Fetches,
       Gate!Derived!Store!FetchOf,
       Gate!Derived!Store!FirstTxs, Gate!Derived!Store!Reports,
       Gate!Derived!Store!Directory, Gate!Derived!Store!Part,
       Gate!Derived!Store!Contents, Gate!Derived!Store!RequiredFiles,
       Gate!Derived!Store!BlockJson, Gate!Derived!Store!TxsJsonl,
       Gate!Derived!Store!MetaJson,
       IsComplete, CountsAgree, RequiredFiles, BlockJson, TxsJsonl, MetaJson, RowsOf, Rows,
       Datasets, DatasetOrder, Before, Fetches, FetchOf, FirstTxs, Reports, Directory, Part,
       Contents

LEMMA SameFileSteps == Derived!Next => Gate!Derived!Next
<1>1. ASSUME NEW d, NEW h, Derived!Derive(d, h) PROVE Gate!Derived!Derive(d, h)
  BY <1>1, SameDerived, SameFileData DEF Derived!Derive, Gate!Derived!Derive
<1>2. ASSUME NEW d, NEW h, Derived!Remove(d, h) PROVE Gate!Derived!Remove(d, h)
  BY <1>2 DEF Derived!Remove, Gate!Derived!Remove
<1>3. Derived!Store!Next => Gate!Derived!Store!Next
  BY SameDerived, SameFileData
     DEF Derived!Store!Next, Derived!Store!Publish, Derived!Store!Free,
         Derived!Store!OperatorRemoves,
         Gate!Derived!Store!Next, Gate!Derived!Store!Publish, Gate!Derived!Store!Free,
         Gate!Derived!Store!OperatorRemoves
<1> QED
  BY <1>1, <1>2, <1>3, SameDerived, SameFileData DEF Derived!Next, Gate!Derived!Next

LEMMA StepImplementsGate ==
    ASSUME IInv, KeptInv, [Next]_vars, ~OperatorDeletes, ~ParquetDeleted
    PROVE  [Gate!Next]_<<raw, part, report>>
<1>1. ASSUME NEW v \in Validators,
             BadRange(v) \/ Connect(v) \/ RunCheck(v) \/ CountInputs(v)
             \/ CountOutputs(v) \/ Raise(v) \/ Kill(v)
      PROVE  UNCHANGED <<raw, part, report>>
  BY <1>1 DEF BadRange, Connect, RunCheck, CountInputs, CountOutputs, Raise, Kill, files
<1>2. ASSUME NEW v \in Validators, OpenReport(v)
      PROVE  Gate!Write(window[v], "torn") /\ window[v] \in Windows
  BY <1>2 DEF OpenReport, IInv, TypeOK, files, Gate!Write
<1>3. ASSUME NEW v \in Validators, WriteReport(v)
      PROVE  window[v] \in Windows /\ \E outcome \in Gate!Outcomes : Gate!Write(window[v], outcome)
  <2>1. PICK r \in {Status(v), "torn"} : report' = [report EXCEPT ![window[v]] = r]
    BY <1>3 DEF WriteReport
  <2>2. nth[v] - 1 = NumChecks /\ window[v] \in Windows /\ window[v].lo <= window[v].hi
    BY <1>3 DEF WriteReport, IInv, TypeOK, NumChecks
  <2>3. r = "PASS" => Cleared(part, window[v])
    <3> SUFFICES ASSUME r = "PASS" PROVE Cleared(part, window[v])
      OBVIOUS
    <3>1. ~failed[v]
      BY DEF Status
    <3> QED
      BY <2>2, <3>1, ClearedIsPassed DEF KeptInv
  <2>4. r \in Gate!Outcomes
    BY DEF Status, Gate!Outcomes
  <2>5. r = "PASS" => Gate!Cleared(part, window[v])
    BY <2>3, SameCleared
  <2> QED
    BY <1>3, <2>1, <2>2, <2>4, <2>5 DEF WriteReport, files, Gate!Write
<1>4. FilesChange => Gate!Next
  BY SameFileSteps DEF FilesChange, local, Gate!Next
<1>5. UNCHANGED vars => UNCHANGED <<raw, part, report>>
  BY DEF vars, files, local
<1> QED
  BY <1>1, <1>2, <1>3, <1>4, <1>5 DEF Next, Gate!Next, Gate!Outcomes

\* Where nobody deletes files, a validation whose queries see the files at
\* different moments is to the loader one verdict at one moment
\* (run_validation, write_report).
THEOREM RefinesGate ==
    ASSUME ~OperatorDeletes, ~ParquetDeleted PROVE Spec => ImplementsGate
<1>1. Init => Gate!Init
  BY DEF Init
<1>2. IInv /\ KeptInv /\ [Next]_vars => [Gate!Next]_<<raw, part, report>>
  BY StepImplementsGate
<1> QED
  BY <1>1, <1>2, InductiveInvariant, KeptInvariant, PTL DEF Spec, ImplementsGate, Gate!Spec

=============================================================================
