-------------------------- MODULE ParquetBuildProofs --------------------------
(***************************************************************************)
(* Proofs about ParquetBuild for every set of builders, command lines,     *)
(* heights and blocks.                                                     *)
(***************************************************************************)
EXTENDS ParquetBuild, BlocksProofs, FiniteSetTheorems, TLAPS

-----------------------------------------------------------------------------
(* Rows, reads and the loop.                                               *)

LEMMA DatasetProperties ==
    /\ Datasets = {"blocks", "transactions", "inputs", "outputs"}
    /\ \A i \in 1..4 : DatasetOrder[i] \in Datasets
    /\ \A d \in Datasets : \E i \in 1..4 : d = DatasetOrder[i]
<1>1. \A i \in 1..4 : i = 1 \/ i = 2 \/ i = 3 \/ i = 4
  OBVIOUS
<1>2. /\ DatasetOrder[1] = "blocks" /\ DatasetOrder[2] = "transactions"
      /\ DatasetOrder[3] = "inputs" /\ DatasetOrder[4] = "outputs"
  BY DEF DatasetOrder
<1>3. 1 \in 1..4 /\ 2 \in 1..4 /\ 3 \in 1..4 /\ 4 \in 1..4
  OBVIOUS
<1> QED
  BY <1>1, <1>2, <1>3 DEF Datasets

LEMMA JobProperties ==
    \A j \in BuildJobs : /\ j \in [all : BOOLEAN, lo : Nat, hi : Nat, force : BOOLEAN]
                         /\ j.lo..j.hi \subseteq Heights
BY BuildJobsAssumption

\* What is read from a directory of a height is the data of a fetch.
LEMMA ReadTyped ==
    ASSUME NEW h \in Heights, NEW dir \in DirectoriesAt(h)
    PROVE  /\ BlockJson \in DOMAIN dir => dir[BlockJson] \in BlockJsons
           /\ TxsJsonl \in DOMAIN dir => dir[TxsJsonl] \in TxLists
<1>1. PICK f \in Fetches(h), files \in SUBSET RequiredFiles : dir = Part(f, files)
  BY DEF DirectoriesAt
<1>2. /\ DOMAIN dir = files
      /\ \A file \in files : dir[file] = Contents(f, file)
  BY <1>1 DEF Part
<1> QED
  BY <1>2 DEF BlockJsons, TxLists

LEMMA RowsTyped ==
    ASSUME NEW d \in Datasets, NEW b \in BlockJsons, NEW ts \in TxLists
    PROVE  Rows(d, b, ts) \in RowSet(d) /\ Rows(d, b, ts) # NoFile
<1>1. Rows(d, b, ts) \in RowSet(d)
  BY DEF RowSet
<1> QED
  BY <1>1, NoFileAssumption

\* A builder works on one height at a time.
LEMMA NextIsUnique ==
    ASSUME NEW p \in Builders, todo[p] \subseteq Heights,
           NEW h \in todo[p], NEW k \in todo[p], IsNext(p, h), IsNext(p, k)
    PROVE  h = k
<1>1. h \in Nat /\ k \in Nat
  BY HeightsAssumption
<1> QED
  BY <1>1 DEF IsNext

-----------------------------------------------------------------------------
(* The inductive invariant.                                                *)

LEMMA InitIInv == Init => IInv
<1> SUFFICES ASSUME Init PROVE IInv
  OBVIOUS
<1>1. TypeOK
  BY JobProperties DEF Init, TypeOK, Lists
<1>2. \A p \in Builders : Held(p)
  BY DEF Init, Held, BlockRead, TxsRead
<1> QED
  BY <1>1, <1>2 DEF IInv

LEMMA AddToList ==
    ASSUME NEW lists \in Lists, NEW list \in {"created", "skipped", "missing", "failed"},
           NEW h \in Heights
    PROVE  [lists EXCEPT ![list] = @ \cup {h}] \in Lists
<1>1. CASE list = "created"
  BY <1>1 DEF Lists
<1>2. CASE list = "skipped"
  BY <1>2 DEF Lists
<1>3. CASE list = "missing"
  BY <1>3 DEF Lists
<1>4. CASE list = "failed"
  BY <1>4 DEF Lists
<1> QED
  BY <1>1, <1>2, <1>3, <1>4

\* However a builder is done with a height.
LEMMA LeaveIInv ==
    ASSUME IInv, NEW p \in Builders, NEW h \in todo[p],
           NEW list \in {"created", "skipped", "missing", "failed"}, Leave(p, h, list),
           UNCHANGED <<raw, part, job>>,
           staged' \in [Builders -> SUBSET (Datasets \X Heights)]
    PROVE  IInv'
<1> USE DEF IInv
<1>1. todo' \in [Builders -> SUBSET Heights]
  BY DEF Leave, AllBut, TypeOK
<1>2. result' \in [Builders -> Lists]
  BY AddToList DEF Leave, TypeOK
<1>3. TypeOK'
  <2>1. nth' \in [Builders -> 1..4]
    BY DEF Leave, TypeOK
  <2>2. pc' \in [Builders -> {"start"} \cup Running \cup Ended]
    BY DEF Leave, Goto, TypeOK, Running
  <2> QED
    BY <1>1, <1>2, <2>1, <2>2 DEF Leave, TypeOK
<1>4. \A q \in Builders : Held(q)'
  BY DEF Leave, Goto, TypeOK, Held, BlockRead, TxsRead
<1> QED
  BY <1>3, <1>4

LEMMA FailIInv ==
    ASSUME IInv, NEW p \in Builders, Fail(p), UNCHANGED <<raw, part, job>>,
           staged' \in [Builders -> SUBSET (Datasets \X Heights)]
    PROVE  IInv'
BY LeaveIInv DEF Fail

LEMMA UnstagedTyped ==
    ASSUME TypeOK, NEW p \in Builders, NEW d, NEW h,
           staged' = [staged EXCEPT ![p] = Unstaged(@, d, h)]
    PROVE  staged' \in [Builders -> SUBSET (Datasets \X Heights)]
BY DEF TypeOK, Unstaged

\* The instances of the stores speak of the same data.
LEMMA SameData ==
    /\ \A h : Store!Fetches(h) = Fetches(h)
    /\ \A f : Store!Directory(f) = Directory(f)
BY DEF Store!Fetches, Store!FetchOf, Store!FirstTxs, Store!Reports,
       Fetches, FetchOf, FirstTxs, Reports,
       Store!Directory, Store!Part, Store!Contents, Store!RequiredFiles,
       Store!BlockJson, Store!TxsJsonl, Store!MetaJson,
       Directory, Part, Contents, RequiredFiles, BlockJson, TxsJsonl, MetaJson

\* What ingests and operators do to the raw store keeps its type.
LEMMA RawTyped ==
    ASSUME TypeOK, Store!Next
    PROVE  DOMAIN raw' = Heights /\ \A h \in Heights : raw'[h] \in DirectoriesAt(h) \cup {NoDir}
<1>1. ASSUME NEW k \in Heights, Store!Publish(k)
      PROVE  \E dir \in DirectoriesAt(k) : raw' = [raw EXCEPT ![k] = dir]
  <2>1. PICK f \in Fetches(k) : raw' = [raw EXCEPT ![k] = Directory(f)]
    BY <1>1, SameData DEF Store!Publish
  <2> QED BY <2>1, PartProperties DEF Directory
<1>2. ASSUME NEW k \in Heights, Store!OperatorRemoves(k)
      PROVE  \E dir \in DirectoriesAt(k) \cup {NoDir} : raw' = [raw EXCEPT ![k] = dir]
  <2>1. raw[k] \in DirectoriesAt(k)
    BY <1>2 DEF Store!OperatorRemoves, TypeOK
  <2> QED BY <1>2, <2>1, RemoveOneFile DEF Store!OperatorRemoves
<1> QED
  BY <1>1, <1>2 DEF Store!Next, TypeOK

\* One file appears: the others, and the shape of the store, are kept.
LEMMA PutRows ==
    ASSUME NEW d \in Datasets, NEW h \in Heights, NEW rows,
           DOMAIN part = Datasets,
           \A c \in Datasets : part[c] \in [Heights -> RowSet(c) \cup {NoFile}],
           rows \in RowSet(d) \cup {NoFile},
           part' = [part EXCEPT ![d][h] = rows]
    PROVE  /\ DOMAIN part' = Datasets
           /\ \A c \in Datasets : part'[c] \in [Heights -> RowSet(c) \cup {NoFile}]
           /\ part'[d][h] = rows
           /\ \A c \in Datasets, k \in Heights :
                 c # d \/ k # h => part'[c][k] = part[c][k]
<1>1. DOMAIN part' = Datasets
  OBVIOUS
<1>2. part'[d] = [part[d] EXCEPT ![h] = rows]
  OBVIOUS
<1>3. \A c \in Datasets : c # d => part'[c] = part[c]
  OBVIOUS
<1>4. part'[d] \in [Heights -> RowSet(d) \cup {NoFile}]
  BY <1>2
<1> QED
  BY <1>1, <1>2, <1>3, <1>4

LEMMA NextIInv == IInv /\ [Next]_vars => IInv'
<1> SUFFICES ASSUME IInv, [Next]_vars PROVE IInv'
  OBVIOUS
<1> USE DEF IInv
<1>1. ASSUME NEW p \in Builders, Start(p) PROVE IInv'
  <2>1. Requested(p) \subseteq Heights
    BY <1>1, JobProperties DEF Requested, TypeOK
  <2> QED
    BY <1>1, <2>1 DEF Start, Goto, TypeOK, Running, Held, BlockRead, TxsRead
<1>2. ASSUME NEW p \in Builders,
             StartFails(p) \/ RawComplete(p) \/ Build(p) \/ Flatten(p) \/ RowsWritten(p)
               \/ LoopEnds(p) \/ Finish(p) \/ Kill(p)
      PROVE  IInv'
  <2>1. TypeOK'
    BY <1>2 DEF StartFails, RawComplete, Build, Flatten, RowsWritten, LoopEnds, Finish,
                Kill, ExitCode, Goto, TypeOK, Running, Ended
  <2>2. \A q \in Builders : Held(q)'
    <3>1. CASE StartFails(p) \/ RawComplete(p) \/ Build(p) \/ LoopEnds(p)
      BY <3>1 DEF StartFails, RawComplete, Build, LoopEnds, Goto, TypeOK, Held,
                  BlockRead, TxsRead
    <3>2. CASE Flatten(p) \/ RowsWritten(p) \/ Finish(p) \/ Kill(p)
      BY <3>2 DEF Flatten, RowsWritten, Finish, Kill, ExitCode, Goto, TypeOK, Held,
                  BlockRead, TxsRead
    <3> QED BY <1>2, <3>1, <3>2
  <2> QED BY <2>1, <2>2
<1>3. ASSUME NEW p \in Builders, RawMissing(p) \/ Skip(p) PROVE IInv'
  <2>1. staged' \in [Builders -> SUBSET (Datasets \X Heights)]
    BY <1>3 DEF RawMissing, Skip, TypeOK
  <2> QED
    BY <1>3, <2>1, LeaveIInv DEF RawMissing, Skip
<1>4. ASSUME NEW p \in Builders,
             ReadFails(p) \/ FlattenRaises(p) \/ OpenFails(p) \/ RowsFail(p)
      PROVE  IInv'
  <2>1. staged' \in [Builders -> SUBSET (Datasets \X Heights)]
    BY <1>4 DEF ReadFails, FlattenRaises, OpenFails, RowsFail, TypeOK
  <2> QED
    BY <1>4, <2>1, FailIInv DEF ReadFails, FlattenRaises, OpenFails, RowsFail
<1>5. ASSUME NEW p \in Builders, ReadBlock(p) PROVE IInv'
  <2>1. PICK b \in BlockJsons : block' = [block EXCEPT ![p] = b]
    BY <1>5, ReadTyped DEF ReadBlock, Has, TypeOK
  <2> QED
    BY <1>5, <2>1 DEF ReadBlock, Goto, TypeOK, Running, Held, BlockRead, TxsRead
<1>6. ASSUME NEW p \in Builders, ReadTxs(p) PROVE IInv'
  <2>1. PICK ts \in TxLists : txs' = [txs EXCEPT ![p] = ts]
    BY <1>6, ReadTyped DEF ReadTxs, Has, TypeOK
  <2> QED
    BY <1>6, <2>1 DEF ReadTxs, Goto, TypeOK, Running, Held, BlockRead, TxsRead
<1>7. ASSUME NEW p \in Builders, OpenStaging(p) PROVE IInv'
  <2>1. Dataset(p) \in Datasets
    BY DatasetProperties DEF Dataset, TypeOK
  <2>2. staged' \in [Builders -> SUBSET (Datasets \X Heights)]
    BY <1>7, <2>1 DEF OpenStaging, TypeOK
  <2>3. TypeOK'
    BY <1>7, <2>2 DEF OpenStaging, Goto, TypeOK, Running
  <2>4. \A q \in Builders : Held(q)'
    BY <1>7 DEF OpenStaging, Goto, TypeOK, Held, BlockRead, TxsRead
  <2> QED BY <2>3, <2>4
<1>8. ASSUME NEW p \in Builders, Publish(p) PROVE IInv'
  <2>1. Dataset(p) \in Datasets
    BY DatasetProperties DEF Dataset, TypeOK
  <2>2. Rows(Dataset(p), block[p], txs[p]) \in RowSet(Dataset(p))
    <3>1. block[p] \in BlockJsons /\ txs[p] \in TxLists
      BY <1>8 DEF Publish, Held, BlockRead, TxsRead
    <3> QED BY <2>1, <3>1, RowsTyped
  <2>3. DOMAIN part' = Datasets
        /\ \A d \in Datasets : part'[d] \in [Heights -> RowSet(d) \cup {NoFile}]
    <3>1. PICK h \in Heights :
            part' = [part EXCEPT ![Dataset(p)][h] = Rows(Dataset(p), block[p], txs[p])]
      BY <1>8 DEF Publish, TypeOK
    <3>2. DOMAIN part = Datasets
          /\ \A d \in Datasets : part[d] \in [Heights -> RowSet(d) \cup {NoFile}]
      BY DEF TypeOK
    <3> QED BY <2>1, <2>2, <3>1, <3>2, PutRows
  <2>4. TypeOK'
    BY <1>8, <2>3 DEF Publish, Goto, TypeOK, Running
  <2>5. \A q \in Builders : Held(q)'
    BY <1>8 DEF Publish, Goto, TypeOK, Held, BlockRead, TxsRead
  <2> QED BY <2>4, <2>5
<1>9. ASSUME NEW p \in Builders, CopyFails(p) PROVE IInv'
  BY <1>9, FailIInv, UnstagedTyped DEF CopyFails
<1>10. ASSUME NEW p \in Builders, CleanUp(p) PROVE IInv'
  <2>1. staged' \in [Builders -> SUBSET (Datasets \X Heights)]
    BY <1>10, UnstagedTyped DEF CleanUp
  <2>2. CASE LastDataset(p)
    BY <1>10, <2>1, <2>2, LeaveIInv DEF CleanUp
  <2>3. CASE ~LastDataset(p)
    <3>1. /\ nth' = [nth EXCEPT ![p] = @ + 1]
          /\ Goto(p, "open")
          /\ UNCHANGED <<raw, part, job, todo, block, txs, result>>
      BY <1>10, <2>3 DEF CleanUp
    <3>2. nth' \in [Builders -> 1..4]
      BY <2>3, <3>1 DEF LastDataset, TypeOK
    <3>3. TypeOK'
      BY <2>1, <3>1, <3>2 DEF Goto, TypeOK, Running
    <3>4. \A q \in Builders : Held(q)'
      BY <1>10, <3>1 DEF CleanUp, Goto, TypeOK, Held, BlockRead, TxsRead
    <3> QED BY <3>3, <3>4
  <2> QED BY <2>2, <2>3
<1>11. ASSUME NEW p \in Builders, Interrupt(p) PROVE IInv'
  <2>1. staged' \in [Builders -> SUBSET (Datasets \X Heights)]
    BY <1>11, UnstagedTyped DEF Interrupt, TypeOK
  <2>2. TypeOK'
    BY <1>11, <2>1 DEF Interrupt, Goto, TypeOK, Ended
  <2>3. \A q \in Builders : Held(q)'
    BY <1>11 DEF Interrupt, Goto, TypeOK, Held, BlockRead, TxsRead
  <2> QED BY <2>2, <2>3
<1>12. CASE RawChanges
  <2>1. TypeOK'
    BY <1>12, RawTyped DEF RawChanges, local, TypeOK
  <2>2. \A q \in Builders : Held(q)'
    BY <1>12 DEF RawChanges, local, Held
  <2> QED BY <2>1, <2>2
<1>13. ASSUME NEW d \in Datasets, NEW h \in Heights, OperatorRemovesPart(d, h) PROVE IInv'
  <2>1. TypeOK'
    BY <1>13 DEF OperatorRemovesPart, Derived!Remove, local, TypeOK
  <2>2. \A q \in Builders : Held(q)'
    BY <1>13 DEF OperatorRemovesPart, local, Held
  <2> QED BY <2>1, <2>2
<1>14. CASE UNCHANGED vars
  BY <1>14 DEF vars, local, TypeOK, Held
<1> QED
  BY <1>1, <1>2, <1>3, <1>4, <1>5, <1>6, <1>7, <1>8, <1>9, <1>10, <1>11, <1>12, <1>13,
     <1>14 DEF Next, Step

THEOREM InductiveInvariant == Spec => []IInv
BY InitIInv, NextIInv, PTL DEF Spec, SafeSpec

\* Every variable keeps its type; in particular every data.parquet is the
\* outcome of one computation, never part of one.
THEOREM TypeCorrect == Spec => []TypeOK
<1>1. IInv => TypeOK
  BY DEF IInv
<1> QED
  BY <1>1, InductiveInvariant, PTL

-----------------------------------------------------------------------------
(* Properties that hold as long as no raw directory is deleted.            *)

\* What a builder's step leaves alone.
LEMMA Frame ==
    ASSUME IInv, NEW p \in Builders, Step(p) \/ Interrupt(p) \/ Kill(p)
    PROVE  /\ UNCHANGED <<raw, job>>
           /\ Publish(p) \/ UNCHANGED part
           /\ \A q \in Builders \ {p} :
                 /\ pc'[q] = pc[q] /\ todo'[q] = todo[q] /\ block'[q] = block[q]
                 /\ txs'[q] = txs[q] /\ nth'[q] = nth[q] /\ staged'[q] = staged[q]
                 /\ result'[q] = result[q]
<1> USE DEF IInv, TypeOK, Goto
<1>1. CASE Start(p) \/ StartFails(p) \/ RawComplete(p) \/ Build(p) \/ Flatten(p)
            \/ RowsWritten(p) \/ LoopEnds(p) \/ Finish(p) \/ Kill(p)
  BY <1>1 DEF Start, StartFails, RawComplete, Build, Flatten, RowsWritten, LoopEnds, Finish,
              Kill
<1>2. CASE RawMissing(p) \/ Skip(p)
  BY <1>2 DEF RawMissing, Skip, Leave
<1>3. CASE ReadFails(p) \/ FlattenRaises(p) \/ OpenFails(p) \/ RowsFail(p)
  BY <1>3 DEF ReadFails, FlattenRaises, OpenFails, RowsFail, Fail, Leave
<1>4. CASE ReadBlock(p) \/ ReadTxs(p) \/ OpenStaging(p) \/ Publish(p)
  BY <1>4 DEF ReadBlock, ReadTxs, OpenStaging, Publish
<1>5. CASE CopyFails(p)
  BY <1>5 DEF CopyFails, Fail, Leave
<1>6. CASE CleanUp(p)
  <2>1. CASE LastDataset(p)
    BY <1>6, <2>1 DEF CleanUp, Leave
  <2>2. CASE ~LastDataset(p)
    BY <1>6, <2>2 DEF CleanUp
  <2> QED BY <2>1, <2>2
<1>7. CASE Interrupt(p)
  BY <1>7 DEF Interrupt
<1> QED
  BY <1>1, <1>2, <1>3, <1>4, <1>5, <1>6, <1>7 DEF Step

\* Without deletions a directory never changes, and a new one is whole.
LEMMA DirectoryStays ==
    ASSUME IInv, [Next]_vars, ~OperatorDeletes, \A h \in Heights : StoredWhole(h)
    PROVE  /\ \A h \in Heights : raw[h] # NoDir => raw'[h] = raw[h]
           /\ \A h \in Heights : StoredWhole(h)'
<1>1. \A h \in Heights : \A f \in Fetches(h) : DOMAIN Directory(f) # {}
  BY DEF Directory, Part, RequiredFiles
<1>2. CASE raw' = raw
  BY <1>2 DEF StoredWhole
<1>3. ASSUME NEW k \in Heights, Store!Publish(k)
      PROVE  /\ \A h \in Heights : raw[h] # NoDir => raw'[h] = raw[h]
             /\ \A h \in Heights : StoredWhole(h)'
  <2>1. raw[k] = NoDir /\ DOMAIN raw = Heights
    BY <1>1, <1>3 DEF Store!Publish, Store!Free, StoredWhole, IInv, TypeOK
  <2>2. PICK f \in Fetches(k) : raw' = [raw EXCEPT ![k] = Directory(f)]
    BY <1>3, SameData DEF Store!Publish
  <2> QED
    BY <2>1, <2>2 DEF StoredWhole
<1>4. CASE RawChanges
  BY <1>3, <1>4 DEF RawChanges, Store!Next, Store!OperatorRemoves
<1> QED
  BY <1>2, <1>4, Frame DEF Next, vars, OperatorRemovesPart, Derived!Remove

LEMMA InitKept == Init => KeptInv
<1> SUFFICES ASSUME Init PROVE KeptInv
  OBVIOUS
<1>1. \A h \in Heights : StoredWhole(h) /\ DerivedFrom(h)
  BY DEF Init, StoredWhole, DerivedFrom
<1>2. \A p \in Builders : StillThere(p)
  BY DEF Init, StillThere, BlockRead, TxsRead
<1> QED
  BY <1>1, <1>2 DEF KeptInv

\* A builder that takes no step finds its block again.
LEMMA IdleStillThere ==
    ASSUME IInv, NEW q \in Builders, StillThere(q),
           \A h \in Heights : raw[h] # NoDir => raw'[h] = raw[h],
           pc'[q] = pc[q], todo'[q] = todo[q], block'[q] = block[q], txs'[q] = txs[q]
    PROVE  StillThere(q)'
<1> SUFFICES ASSUME NEW h \in todo[q], IsNext(q, h)
             PROVE  /\ pc[q] \in {"skip", "read block"} \cup BlockRead => IsComplete(raw'[h])
                    /\ pc[q] \in BlockRead => block[q] = raw'[h][BlockJson]
                    /\ pc[q] \in TxsRead => txs[q] = raw'[h][TxsJsonl]
  BY DEF StillThere, IsNext
<1>1. h \in Heights
  BY DEF IInv, TypeOK
<1>2. pc[q] \in {"skip", "read block"} \cup BlockRead => raw'[h] = raw[h] /\ IsComplete(raw[h])
  BY <1>1 DEF StillThere, IsComplete
<1> QED
  BY <1>2 DEF StillThere, BlockRead, TxsRead

\* A builder that takes a step has read what is there.
LEMMA StepStillThere ==
    ASSUME IInv, NEW p \in Builders, Step(p) \/ Interrupt(p) \/ Kill(p), StillThere(p)
    PROVE  StillThere(p)'
<1> USE DEF IInv
<1>1. todo[p] \subseteq Heights /\ pc \in [Builders -> {"start"} \cup Running \cup Ended]
  BY DEF TypeOK
<1>2. ASSUME pc'[p] \notin {"skip", "read block"} \cup BlockRead PROVE StillThere(p)'
  BY <1>2 DEF StillThere, BlockRead, TxsRead
<1>3. CASE Start(p) \/ StartFails(p) \/ LoopEnds(p) \/ Finish(p) \/ Kill(p) \/ Interrupt(p)
  BY <1>1, <1>2, <1>3 DEF Start, StartFails, LoopEnds, Finish, ExitCode, Kill, Interrupt,
                          Goto, BlockRead
<1>4. CASE RawMissing(p) \/ Skip(p) \/ ReadFails(p) \/ FlattenRaises(p) \/ OpenFails(p)
            \/ RowsFail(p) \/ CopyFails(p)
  <2>1. pc' = [pc EXCEPT ![p] = "next"]
    BY <1>4 DEF RawMissing, Skip, ReadFails, FlattenRaises, OpenFails, RowsFail, CopyFails,
                Fail, Leave, Goto
  <2> QED BY <1>1, <1>2, <2>1 DEF BlockRead
<1>5. CASE RawComplete(p)
  <2>1. /\ pc'[p] = "skip" /\ UNCHANGED <<raw, todo>>
        /\ \E h \in todo[p] : IsNext(p, h) /\ IsComplete(raw[h])
    BY <1>1, <1>5 DEF RawComplete, Goto, Usable
  <2>2. \A h \in todo[p] : IsNext(p, h) => IsComplete(raw[h])
    BY <1>1, <2>1, NextIsUnique
  <2> QED
    BY <2>1, <2>2 DEF StillThere, IsNext, BlockRead, TxsRead
<1>6. CASE Build(p)
  BY <1>1, <1>6 DEF Build, Goto, StillThere, IsNext, BlockRead, TxsRead
<1>7. CASE ReadBlock(p)
  <2>1. /\ pc[p] = "read block" /\ pc'[p] = "read txs" /\ UNCHANGED <<raw, todo>>
        /\ \E h \in todo[p] : IsNext(p, h) /\ block'[p] = raw[h][BlockJson]
    BY <1>1, <1>7 DEF ReadBlock, Goto, TypeOK
  <2>2. \A h \in todo[p] : IsNext(p, h) => block'[p] = raw[h][BlockJson]
    BY <1>1, <2>1, NextIsUnique
  <2> QED
    BY <2>1, <2>2 DEF StillThere, IsNext, BlockRead, TxsRead
<1>8. CASE ReadTxs(p)
  <2>1. /\ pc[p] = "read txs" /\ pc'[p] = "flatten" /\ UNCHANGED <<raw, todo, block>>
        /\ \E h \in todo[p] : IsNext(p, h) /\ txs'[p] = raw[h][TxsJsonl]
    BY <1>1, <1>8 DEF ReadTxs, Goto, TypeOK
  <2>2. \A h \in todo[p] : IsNext(p, h) => txs'[p] = raw[h][TxsJsonl]
    BY <1>1, <2>1, NextIsUnique
  <2> QED
    BY <2>1, <2>2 DEF StillThere, IsNext, BlockRead, TxsRead
<1>9. CASE Flatten(p) \/ OpenStaging(p) \/ RowsWritten(p) \/ Publish(p)
  <2>1. /\ pc[p] \in TxsRead /\ UNCHANGED <<raw, todo, block, txs>>
    BY <1>9 DEF Flatten, OpenStaging, RowsWritten, Publish, BlockRead, TxsRead
  <2> QED
    BY <2>1 DEF StillThere, IsNext, BlockRead, TxsRead
<1>10. CASE CleanUp(p)
  <2>1. CASE LastDataset(p)
    BY <1>1, <1>2, <1>10, <2>1 DEF CleanUp, Leave, Goto, BlockRead
  <2>2. CASE ~LastDataset(p)
    <3>1. /\ pc[p] = "cleanup" /\ pc'[p] = "open" /\ UNCHANGED <<raw, todo, block, txs>>
      BY <1>1, <1>10, <2>2 DEF CleanUp, Goto
    <3> QED
      BY <3>1 DEF StillThere, IsNext, BlockRead, TxsRead
  <2> QED BY <2>1, <2>2
<1> QED
  BY <1>3, <1>4, <1>5, <1>6, <1>7, <1>8, <1>9, <1>10 DEF Step

\* What a builder publishes is the data of the block that is there.
LEMMA PublishDerives ==
    ASSUME IInv, NEW p \in Builders, Publish(p), StillThere(p)
    PROVE  /\ Dataset(p) \in Datasets
           /\ \E h \in Heights :
                 /\ IsNext(p, h)
                 /\ IsComplete(raw[h])
                 /\ RowsOf(Dataset(p), raw[h]) \in RowSet(Dataset(p))
                 /\ RowsOf(Dataset(p), raw[h]) # NoFile
                 /\ part' = [part EXCEPT ![Dataset(p)][h] = RowsOf(Dataset(p), raw[h])]
<1>1. Dataset(p) \in Datasets
  BY DatasetProperties DEF Dataset, IInv, TypeOK
<1>2. PICK h \in todo[p] :
        /\ IsNext(p, h)
        /\ part' = [part EXCEPT ![Dataset(p)][h] = Rows(Dataset(p), block[p], txs[p])]
  BY DEF Publish
<1>3. /\ h \in Heights /\ pc[p] = "copy"
      /\ block[p] \in BlockJsons /\ txs[p] \in TxLists
  BY DEF Publish, IInv, TypeOK, Held, BlockRead, TxsRead
<1>4. IsComplete(raw[h]) /\ block[p] = raw[h][BlockJson] /\ txs[p] = raw[h][TxsJsonl]
  BY <1>2, <1>3 DEF StillThere, BlockRead, TxsRead
<1> QED
  BY <1>1, <1>2, <1>3, <1>4, RowsTyped DEF RowsOf

\* Files stay derived from the raw blocks that stay.
LEMMA DerivedStays ==
    ASSUME IInv, [Next]_vars, KeptInv, ~OperatorDeletes, NEW h \in Heights
    PROVE  DerivedFrom(h)'
<1> SUFFICES ASSUME NEW d \in Datasets, part'[d][h] # NoFile
             PROVE  IsComplete(raw'[h]) /\ part'[d][h] = RowsOf(d, raw'[h])
  BY DEF DerivedFrom
<1>1. raw[h] # NoDir => raw'[h] = raw[h]
  BY DirectoryStays DEF KeptInv
<1>2. ASSUME part'[d][h] = part[d][h] PROVE IsComplete(raw'[h]) /\ part'[d][h] = RowsOf(d, raw'[h])
  BY <1>1, <1>2 DEF KeptInv, DerivedFrom, IsComplete
<1>3. ASSUME NEW p \in Builders, Publish(p)
      PROVE  IsComplete(raw'[h]) /\ part'[d][h] = RowsOf(d, raw'[h])
  <2>1. Dataset(p) \in Datasets
    BY <1>3, PublishDerives DEF KeptInv
  <2>2. PICK k \in Heights :
          /\ IsComplete(raw[k])
          /\ RowsOf(Dataset(p), raw[k]) \in RowSet(Dataset(p))
          /\ part' = [part EXCEPT ![Dataset(p)][k] = RowsOf(Dataset(p), raw[k])]
    BY <1>3, PublishDerives DEF KeptInv
  <2>3. /\ part'[Dataset(p)][k] = RowsOf(Dataset(p), raw[k])
        /\ d # Dataset(p) \/ h # k => part'[d][h] = part[d][h]
    BY <2>1, <2>2, PutRows DEF IInv, TypeOK
  <2>4. CASE d = Dataset(p) /\ h = k
    BY <1>1, <2>2, <2>3, <2>4 DEF IsComplete
  <2>5. CASE ~(d = Dataset(p) /\ h = k)
    BY <1>2, <2>3, <2>5
  <2> QED BY <2>4, <2>5
<1>4. ASSUME NEW c \in Datasets, NEW k \in Heights, OperatorRemovesPart(c, k)
      PROVE  part'[d][h] = part[d][h]
  <2>1. part' = [part EXCEPT ![c][k] = NoFile]
    BY <1>4 DEF OperatorRemovesPart, Derived!Remove
  <2>2. /\ part'[c][k] = NoFile
        /\ d # c \/ h # k => part'[d][h] = part[d][h]
    BY <2>1, PutRows DEF IInv, TypeOK
  <2> QED BY <2>2
<1>5. CASE RawChanges
  BY <1>2, <1>5 DEF RawChanges
<1> QED
  BY <1>2, <1>3, <1>4, <1>5, Frame DEF Next, vars

LEMMA NextKept == IInv /\ KeptInv /\ [Next]_vars => KeptInv'
<1> SUFFICES ASSUME IInv, KeptInv, [Next]_vars, ~OperatorDeletes
             PROVE  /\ \A h \in Heights : StoredWhole(h)' /\ DerivedFrom(h)'
                    /\ \A p \in Builders : StillThere(p)'
  BY DEF KeptInv
<1>1. /\ \A h \in Heights : raw[h] # NoDir => raw'[h] = raw[h]
      /\ \A h \in Heights : StoredWhole(h)'
  BY DirectoryStays DEF KeptInv
<1>2. \A h \in Heights : DerivedFrom(h)'
  BY DerivedStays
<1>3. \A q \in Builders : StillThere(q)
  BY DEF KeptInv
<1>4. ASSUME NEW p \in Builders, Step(p) \/ Interrupt(p) \/ Kill(p), NEW q \in Builders
      PROVE  StillThere(q)'
  <2>1. CASE q = p
    BY <1>3, <1>4, <2>1, StepStillThere
  <2>2. CASE q # p
    BY <1>1, <1>3, <1>4, <2>2, Frame, IdleStillThere
  <2> QED BY <2>1, <2>2
<1>5. ASSUME UNCHANGED local, NEW q \in Builders PROVE StillThere(q)'
  BY <1>1, <1>3, <1>5, IdleStillThere DEF local
<1> QED
  BY <1>1, <1>2, <1>4, <1>5 DEF Next, RawChanges, OperatorRemovesPart, vars

THEOREM KeptInvariant == Spec => []KeptInv
BY InitKept, NextKept, InductiveInvariant, PTL DEF Spec, SafeSpec

\* A data.parquet that exists is up to date, for any number of builders and
\* of crashes: testing that it exists is enough.
THEOREM PartitionsAreFresh == Spec => []PartitionsFresh
<1>1. KeptInv => PartitionsFresh
  BY DEF KeptInv, DerivedFrom, PartitionsFresh, IsComplete
<1> QED
  BY <1>1, KeptInvariant, PTL

\* Inputs and outputs are those of whole blocks, as far as the server said
\* how many transactions there are.
THEOREM BuildsFromWholeBlocks == Spec => []BuiltFromWhole
<1>1. KeptInv => BuiltFromWhole
  <2> SUFFICES ASSUME KeptInv, ~OperatorDeletes, NEW h \in Heights,
                      NEW d \in {"inputs", "outputs"}, part[d][h] # NoFile,
                      raw[h][BlockJson].reported # NoCount
               PROVE  part[d][h] = BlockTxs(raw[h][BlockJson].hash)
    BY DEF BuiltFromWhole
  <2>1. IsComplete(raw[h]) /\ part[d][h] = RowsOf(d, raw[h])
    BY DatasetProperties DEF KeptInv, DerivedFrom
  <2>2. PICK f \in Fetches(h) : raw[h] = Directory(f)
    BY <2>1 DEF KeptInv, StoredWhole, IsComplete
  <2>3. raw[h][TxsJsonl] = BlockTxs(raw[h][BlockJson].hash)
    BY <2>1, <2>2, CompleteIsWhole
  <2>4. RowsOf(d, raw[h]) = raw[h][TxsJsonl]
    BY DEF RowsOf, Rows
  <2> QED BY <2>1, <2>3, <2>4
<1> QED
  BY <1>1, KeptInvariant, PTL

-----------------------------------------------------------------------------
(* Temporary files.                                                        *)

\* Where the files and the place stay as they are, or the place is at the
\* file that appears, nothing is abandoned.
LEMMA NotAbandoned ==
    ASSUME IInv, NEW p \in Builders, NEW f \in Abandoned(p)', f \notin Abandoned(p),
           staged'[p] = staged[p], todo'[p] = todo[p], nth'[p] = nth[p]
    PROVE  pc[p] \in {"rows", "copy", "cleanup"} /\ pc'[p] \notin {"rows", "copy", "cleanup"}
BY DEF Abandoned, IsNext, Dataset

\* The file at hand is the only one that can be abandoned.
LEMMA AbandonedIsAtHand ==
    ASSUME IInv, NEW p \in Builders, NEW k \in todo[p], IsNext(p, k),
           staged'[p] \subseteq staged[p], NEW f \in Abandoned(p)', f \notin Abandoned(p)
    PROVE  f = <<Dataset(p), k>> /\ f \in staged'[p]
<1>1. f \in staged'[p] /\ f \in staged[p]
  BY DEF Abandoned
<1>2. f \in Datasets \X Heights /\ todo[p] \subseteq Heights
  BY <1>1 DEF IInv, TypeOK
<1>3. f[1] = Dataset(p) /\ IsNext(p, f[2])
  BY <1>1 DEF Abandoned
<1>4. f[2] = k
  BY <1>2, <1>3, NextIsUnique DEF IsNext
<1> QED
  BY <1>1, <1>2, <1>3, <1>4

LEMMA StepAbandons ==
    ASSUME IInv, [Next]_vars, NEW p \in Builders, NEW f \in Abandoned(p)', f \notin Abandoned(p)
    PROVE  \/ pc[p] = "rows" /\ f[2] \in result'[p].failed
           \/ pc'[p] \in {"interrupted", "killed"}
<1> USE DEF IInv
<1>1. /\ pc \in [Builders -> {"start"} \cup Running \cup Ended]
      /\ staged \in [Builders -> SUBSET (Datasets \X Heights)]
      /\ result \in [Builders -> Lists]
  BY DEF TypeOK
<1>2. f \in staged'[p]
  BY DEF Abandoned
<1>3. CASE Start(p) \/ StartFails(p) \/ RawMissing(p) \/ RawComplete(p) \/ Skip(p) \/ Build(p)
            \/ ReadBlock(p) \/ ReadTxs(p) \/ ReadFails(p) \/ Flatten(p) \/ FlattenRaises(p)
            \/ OpenFails(p) \/ LoopEnds(p) \/ Finish(p)
  <2>1. pc[p] \notin {"rows", "copy", "cleanup"} /\ staged' = staged
    BY <1>3 DEF Start, StartFails, RawMissing, RawComplete, Skip, Build, ReadBlock, ReadTxs,
                ReadFails, Flatten, FlattenRaises, OpenFails, LoopEnds, Finish
  <2> QED
    BY <1>2, <2>1 DEF Abandoned
<1>4. CASE OpenStaging(p)
  <2>1. PICK k \in todo[p] :
          IsNext(p, k) /\ staged' = [staged EXCEPT ![p] = @ \cup {<<Dataset(p), k>>}]
    BY <1>4 DEF OpenStaging
  <2>2. pc[p] = "open" /\ pc'[p] = "rows" /\ UNCHANGED <<todo, nth>>
    BY <1>1, <1>4 DEF OpenStaging, Goto
  <2>3. f \in staged[p] \/ f = <<Dataset(p), k>>
    BY <1>1, <1>2, <2>1
  <2>4. f \notin staged[p]
    BY <2>2 DEF Abandoned
  <2>5. Dataset(p)' = Dataset(p) /\ IsNext(p, k)'
    BY <2>1, <2>2 DEF Dataset, IsNext
  <2> QED
    BY <2>2, <2>3, <2>4, <2>5 DEF Abandoned
<1>5. CASE RowsWritten(p) \/ Publish(p)
  <2>1. /\ pc'[p] \in {"copy", "cleanup"}
        /\ UNCHANGED <<todo, nth, staged>>
    BY <1>1, <1>5 DEF RowsWritten, Publish, Goto
  <2> QED
    BY <2>1, NotAbandoned
<1>6. CASE RowsFail(p)
  <2>1. PICK k \in todo[p] : IsNext(p, k) /\ Leave(p, k, "failed")
    BY <1>6 DEF RowsFail, Fail
  <2>2. pc[p] = "rows" /\ staged' = staged
    BY <1>6 DEF RowsFail
  <2>3. f = <<Dataset(p), k>>
    BY <2>1, <2>2, AbandonedIsAtHand
  <2>4. result'[p] = [result[p] EXCEPT !.failed = @ \cup {k}]
    BY <1>1, <2>1 DEF Leave
  <2>5. k \in result'[p].failed
    BY <1>1, <2>4 DEF Lists
  <2> QED
    BY <2>2, <2>3, <2>5
<1>7. CASE CopyFails(p) \/ CleanUp(p)
  <2>1. PICK k \in todo[p] :
          IsNext(p, k) /\ staged' = [staged EXCEPT ![p] = Unstaged(@, Dataset(p), k)]
    BY <1>7 DEF CopyFails, CleanUp
  <2>2. staged'[p] = staged[p] \ {<<Dataset(p), k>>}
    BY <1>1, <2>1 DEF Unstaged
  <2> QED
    BY <2>1, <2>2, AbandonedIsAtHand
<1>8. CASE Interrupt(p) \/ Kill(p)
  BY <1>1, <1>8 DEF Interrupt, Kill, Goto
<1>9. ASSUME NEW q \in Builders \ {p}, Step(q) \/ Interrupt(q) \/ Kill(q) PROVE FALSE
  <2>1. /\ pc'[p] = pc[p] /\ todo'[p] = todo[p] /\ nth'[p] = nth[p]
        /\ staged'[p] = staged[p]
    BY <1>9, Frame
  <2> QED
    BY <2>1, NotAbandoned
<1>10. CASE UNCHANGED local
  BY <1>10, NotAbandoned DEF local
<1> QED
  BY <1>3, <1>4, <1>5, <1>6, <1>7, <1>8, <1>9, <1>10
     DEF Next, Step, RawChanges, OperatorRemovesPart, vars

\* Only a failure while rows are written, a kill and an interrupt leave a
\* temporary file behind (write_parquet_partition_atomic).
THEOREM OnlyRowsAreAbandoned == Spec => AbandonsOnlyRows
<1>1. IInv /\ [Next]_vars =>
        \A p \in Builders : \A f \in Abandoned(p)' \ Abandoned(p) :
           \/ pc[p] = "rows" /\ f[2] \in result'[p].failed
           \/ pc'[p] \in {"interrupted", "killed"}
  BY StepAbandons
<1> QED
  BY <1>1, InductiveInvariant, PTL DEF Spec, SafeSpec, AbandonsOnlyRows

-----------------------------------------------------------------------------
(* Properties that hold as long as no data.parquet is deleted.             *)

LEMMA PublishPuts ==
    ASSUME IInv, NEW p \in Builders, Publish(p)
    PROVE  \E h \in todo[p] :
             /\ IsNext(p, h)
             /\ part'[Dataset(p)][h] # NoFile
             /\ \A d \in Datasets, k \in Heights :
                   part[d][k] # NoFile => part'[d][k] # NoFile
<1>1. Dataset(p) \in Datasets
  BY DatasetProperties DEF Dataset, IInv, TypeOK
<1>2. PICK h \in todo[p] :
        /\ IsNext(p, h)
        /\ part' = [part EXCEPT ![Dataset(p)][h] = Rows(Dataset(p), block[p], txs[p])]
  BY DEF Publish
<1>3. h \in Heights /\ block[p] \in BlockJsons /\ txs[p] \in TxLists
  BY DEF Publish, IInv, TypeOK, Held, BlockRead, TxsRead
<1>4. /\ Rows(Dataset(p), block[p], txs[p]) \in RowSet(Dataset(p))
      /\ Rows(Dataset(p), block[p], txs[p]) # NoFile
  BY <1>1, <1>3, RowsTyped
<1>5. /\ part'[Dataset(p)][h] # NoFile
      /\ \A d \in Datasets, k \in Heights :
            d # Dataset(p) \/ k # h => part'[d][k] = part[d][k]
  BY <1>1, <1>2, <1>3, <1>4, PutRows DEF IInv, TypeOK
<1>6. ASSUME NEW d \in Datasets, NEW k \in Heights, part[d][k] # NoFile
      PROVE  part'[d][k] # NoFile
  <2>1. CASE d = Dataset(p) /\ k = h
    BY <1>5, <2>1
  <2>2. CASE d # Dataset(p) \/ k # h
    BY <1>5, <1>6, <2>2
  <2> QED BY <2>1, <2>2
<1> QED
  BY <1>2, <1>5, <1>6

LEMMA FilesStay ==
    ASSUME IInv, [Next]_vars, ~ParquetDeleted
    PROVE  \A d \in Datasets, h \in Heights : part[d][h] # NoFile => part'[d][h] # NoFile
<1>1. CASE UNCHANGED part
  BY <1>1
<1>2. CASE \E p \in Builders : Publish(p)
  BY <1>2, PublishPuts
<1> QED
  BY <1>1, <1>2, Frame DEF Next, RawChanges, OperatorRemovesPart, Derived!Remove, vars

LEMMA InitBuilt == Init => BuiltInv
<1> SUFFICES ASSUME Init PROVE BuiltInv
  OBVIOUS
<1>1. \A p \in Builders : Written(p)
  BY DEF Init, Written
<1>2. ExitZeroMeansBuilt
  BY DEF Init, ExitZeroMeansBuilt
<1>3. SettledMeansBuilt
  BY DEF Init, SettledMeansBuilt
<1> QED
  BY <1>1, <1>2, <1>3 DEF BuiltInv

\* A builder that takes no step finds the files it has written.
LEMMA IdleWritten ==
    ASSUME IInv, NEW q \in Builders, Written(q),
           \A d \in Datasets, h \in Heights : part[d][h] # NoFile => part'[d][h] # NoFile,
           pc'[q] = pc[q], todo'[q] = todo[q], nth'[q] = nth[q]
    PROVE  Written(q)'
<1>1. todo[q] \subseteq Heights
  BY DEF IInv, TypeOK
<1> QED
  BY <1>1, DatasetProperties DEF Written, IsNext

LEMMA StepWritten ==
    ASSUME IInv, NEW p \in Builders, Step(p) \/ Interrupt(p) \/ Kill(p), Written(p)
    PROVE  Written(p)'
<1> USE DEF IInv
<1>1. /\ pc \in [Builders -> {"start"} \cup Running \cup Ended]
      /\ nth \in [Builders -> 1..4] /\ todo[p] \subseteq Heights
  BY DEF TypeOK
<1>2. ASSUME pc'[p] \notin {"open", "rows", "copy", "cleanup"} PROVE Written(p)'
  BY <1>2 DEF Written
<1>3. CASE Start(p) \/ StartFails(p) \/ RawComplete(p) \/ Build(p) \/ ReadBlock(p)
            \/ ReadTxs(p) \/ LoopEnds(p) \/ Finish(p) \/ Kill(p) \/ Interrupt(p)
  BY <1>1, <1>2, <1>3 DEF Start, StartFails, RawComplete, Build, ReadBlock, ReadTxs, LoopEnds,
                          Finish, ExitCode, Kill, Interrupt, Goto
<1>4. CASE RawMissing(p) \/ Skip(p) \/ ReadFails(p) \/ FlattenRaises(p) \/ OpenFails(p)
            \/ RowsFail(p) \/ CopyFails(p)
  <2>1. pc' = [pc EXCEPT ![p] = "next"]
    BY <1>4 DEF RawMissing, Skip, ReadFails, FlattenRaises, OpenFails, RowsFail, CopyFails,
                Fail, Leave, Goto
  <2> QED BY <1>1, <1>2, <2>1
<1>5. CASE Flatten(p)
  <2>1. pc'[p] = "open" /\ nth'[p] = 1
    BY <1>1, <1>5 DEF Flatten, Goto, Held
  <2> QED BY <2>1 DEF Written
<1>6. CASE OpenStaging(p) \/ RowsWritten(p)
  <2>1. /\ pc[p] \in {"open", "rows"} /\ pc'[p] \in {"rows", "copy"}
        /\ UNCHANGED <<todo, nth, part>>
    BY <1>1, <1>6 DEF OpenStaging, RowsWritten, Goto
  <2> QED BY <2>1 DEF Written, IsNext
<1>7. CASE Publish(p)
  <2>1. pc[p] = "copy" /\ pc'[p] = "cleanup" /\ UNCHANGED <<todo, nth>>
    BY <1>1, <1>7 DEF Publish, Goto
  <2>2. PICK k \in todo[p] :
          /\ IsNext(p, k)
          /\ part'[Dataset(p)][k] # NoFile
          /\ \A d \in Datasets, h \in Heights : part[d][h] # NoFile => part'[d][h] # NoFile
    BY <1>7, PublishPuts
  <2> SUFFICES ASSUME NEW h \in todo[p], IsNext(p, h), NEW i \in 1..4, i <= nth[p]
               PROVE  part'[DatasetOrder[i]][h] # NoFile
    BY <2>1 DEF Written, IsNext
  <2>3. h = k /\ h \in Heights
    BY <1>1, <2>2, NextIsUnique
  <2>4. CASE i = nth[p]
    BY <2>2, <2>3, <2>4 DEF Dataset
  <2>5. CASE i < nth[p]
    BY <2>1, <2>2, <2>3, <2>5, DatasetProperties DEF Written
  <2> QED BY <1>1, <2>4, <2>5
<1>8. CASE CleanUp(p)
  <2>1. CASE LastDataset(p)
    BY <1>1, <1>2, <1>8, <2>1 DEF CleanUp, Leave, Goto
  <2>2. CASE ~LastDataset(p)
    <3>1. /\ pc[p] = "cleanup" /\ pc'[p] = "open" /\ nth'[p] = nth[p] + 1
          /\ UNCHANGED <<todo, part>>
      BY <1>1, <1>8, <2>2 DEF CleanUp, Goto
    <3>2. \A i \in 1..4 : i < nth[p] + 1 => i <= nth[p]
      BY <1>1
    <3> QED
      BY <3>1, <3>2 DEF Written, IsNext
  <2> QED BY <2>1, <2>2
<1> QED
  BY <1>3, <1>4, <1>5, <1>6, <1>7, <1>8 DEF Step

\* A height is settled only where all four files are.
LEMMA StepSettled ==
    ASSUME IInv, NEW p \in Builders, Step(p) \/ Interrupt(p) \/ Kill(p), Written(p),
           NEW h \in result'[p].created \cup result'[p].skipped,
           h \notin result[p].created \cup result[p].skipped
    PROVE  h \in Heights /\ \A d \in Datasets : part'[d][h] # NoFile
<1> USE DEF IInv
<1>1. result[p] \in Lists /\ todo[p] \subseteq Heights /\ nth[p] \in 1..4
  BY DEF TypeOK
<1>2. ASSUME NEW k \in todo[p], NEW list \in {"missing", "failed"}, Leave(p, k, list)
      PROVE  FALSE
  <2>1. result'[p] = [result[p] EXCEPT ![list] = @ \cup {k}]
    BY <1>2 DEF Leave, TypeOK
  <2>2. CASE list = "missing"
    BY <1>1, <2>1, <2>2 DEF Lists
  <2>3. CASE list = "failed"
    BY <1>1, <2>1, <2>3 DEF Lists
  <2> QED BY <2>2, <2>3
<1>3. CASE UNCHANGED result
  BY <1>3
<1>4. CASE RawMissing(p)
  BY <1>2, <1>4 DEF RawMissing
<1>5. CASE Fail(p)
  BY <1>2, <1>5 DEF Fail
<1>6. CASE Skip(p)
  <2>1. PICK k \in todo[p] : PartitionsComplete(k) /\ Leave(p, k, "skipped")
    BY <1>6 DEF Skip
  <2>2. result'[p] = [result[p] EXCEPT !.skipped = @ \cup {k}] /\ part' = part
    BY <1>6, <2>1 DEF Leave, Skip, TypeOK
  <2>3. h = k
    BY <1>1, <2>2 DEF Lists
  <2> QED BY <1>1, <2>1, <2>2, <2>3 DEF PartitionsComplete
<1>7. CASE CleanUp(p) /\ LastDataset(p)
  <2>1. PICK k \in todo[p] : IsNext(p, k) /\ Leave(p, k, "created")
    BY <1>7 DEF CleanUp
  <2>2. result'[p] = [result[p] EXCEPT !.created = @ \cup {k}] /\ part' = part
    BY <1>7, <2>1 DEF Leave, CleanUp, TypeOK
  <2>3. h = k
    BY <1>1, <2>2 DEF Lists
  <2>4. \A i \in 1..4 : part[DatasetOrder[i]][k] # NoFile
    BY <1>7, <2>1 DEF CleanUp, LastDataset, Written
  <2> QED BY <1>1, <2>2, <2>3, <2>4, DatasetProperties
<1> QED
  BY <1>3, <1>4, <1>5, <1>6, <1>7
     DEF Step, Interrupt, Kill, Start, StartFails, RawComplete, Build, ReadBlock, ReadTxs,
         ReadFails, Flatten, FlattenRaises, OpenStaging, OpenFails, RowsWritten, RowsFail,
         Publish, CopyFails, CleanUp, LoopEnds, Finish

\* Exit status 0 is given only where all files of the range are.
LEMMA StepExitsZero ==
    ASSUME IInv, NEW p \in Builders, Step(p) \/ Interrupt(p) \/ Kill(p),
           pc'[p] = "exit0", ~job[p].all
    PROVE  /\ \A h \in job[p].lo..job[p].hi : PartitionsComplete(h)
           /\ UNCHANGED <<part, job>>
<1> USE DEF IInv
<1>1. pc \in [Builders -> {"start"} \cup Running \cup Ended]
  BY DEF TypeOK
<1>2. CASE Finish(p)
  BY <1>1, <1>2 DEF Finish, ExitCode, Goto
<1>3. CASE CleanUp(p)
  <2>1. CASE LastDataset(p)
    BY <1>1, <1>3, <2>1 DEF CleanUp, Leave, Goto
  <2>2. CASE ~LastDataset(p)
    BY <1>1, <1>3, <2>2 DEF CleanUp, Goto
  <2> QED BY <2>1, <2>2
<1>4. CASE RawMissing(p) \/ Skip(p) \/ ReadFails(p) \/ FlattenRaises(p) \/ OpenFails(p)
            \/ RowsFail(p) \/ CopyFails(p)
  BY <1>1, <1>4 DEF RawMissing, Skip, ReadFails, FlattenRaises, OpenFails, RowsFail,
                    CopyFails, Fail, Leave, Goto
<1>5. CASE Start(p) \/ StartFails(p) \/ RawComplete(p) \/ Build(p) \/ ReadBlock(p)
            \/ ReadTxs(p) \/ Flatten(p) \/ OpenStaging(p)
  BY <1>1, <1>5 DEF Start, StartFails, RawComplete, Build, ReadBlock, ReadTxs, Flatten,
                    OpenStaging, Goto
<1>6. CASE RowsWritten(p) \/ Publish(p) \/ LoopEnds(p) \/ Interrupt(p) \/ Kill(p)
  BY <1>1, <1>6 DEF RowsWritten, Publish, LoopEnds, Interrupt, Kill, Goto
<1> QED
  BY <1>2, <1>3, <1>4, <1>5, <1>6 DEF Step

LEMMA NextBuilt == IInv /\ BuiltInv /\ [Next]_vars => BuiltInv'
<1> SUFFICES ASSUME IInv, BuiltInv, [Next]_vars, ~ParquetDeleted
             PROVE  /\ \A p \in Builders : Written(p)'
                    /\ ExitZeroMeansBuilt' /\ SettledMeansBuilt'
  BY DEF BuiltInv
<1>1. /\ \A d \in Datasets, h \in Heights : part[d][h] # NoFile => part'[d][h] # NoFile
      /\ \A p \in Builders : Written(p)
      /\ ExitZeroMeansBuilt /\ SettledMeansBuilt
  BY FilesStay DEF BuiltInv
<1> DEFINE Moves(p) == Step(p) \/ Interrupt(p) \/ Kill(p)
           Still(q) == /\ pc'[q] = pc[q] /\ todo'[q] = todo[q] /\ nth'[q] = nth[q]
                       /\ result'[q] = result[q]
<1>2. job' = job /\ \A q \in Builders : Moves(q) \/ Still(q)
  BY Frame DEF Next, RawChanges, OperatorRemovesPart, vars, local
<1>3. ASSUME NEW q \in Builders PROVE Written(q)'
  <2>1. CASE Moves(q)
    BY <1>1, <2>1, StepWritten
  <2>2. CASE Still(q)
    BY <1>1, <2>2, IdleWritten
  <2> QED BY <1>2, <2>1, <2>2
<1>4. ASSUME NEW q \in Builders, pc'[q] = "exit0", ~job[q].all,
             NEW d \in Datasets, NEW h \in job[q].lo..job[q].hi
      PROVE  part'[d][h] # NoFile
  <2>1. h \in Heights
    BY JobProperties DEF IInv, TypeOK
  <2>2. CASE Moves(q)
    BY <1>4, <2>2, StepExitsZero DEF PartitionsComplete
  <2>3. CASE Still(q)
    BY <1>1, <1>4, <2>1, <2>3 DEF ExitZeroMeansBuilt
  <2> QED BY <1>2, <2>2, <2>3
<1>5. ASSUME NEW q \in Builders, NEW h \in result'[q].created \cup result'[q].skipped,
             NEW d \in Datasets
      PROVE  part'[d][h] # NoFile
  <2>1. CASE h \in result[q].created \cup result[q].skipped
    <3>1. h \in Heights
      BY <2>1 DEF IInv, TypeOK, Lists
    <3> QED BY <1>1, <2>1, <3>1 DEF SettledMeansBuilt
  <2>2. CASE h \notin result[q].created \cup result[q].skipped
    <3>1. Moves(q)
      BY <1>2, <1>5, <2>2
    <3> QED BY <1>1, <1>5, <2>2, <3>1, StepSettled
  <2> QED BY <2>1, <2>2
<1> QED
  BY <1>2, <1>3, <1>4, <1>5 DEF ExitZeroMeansBuilt, SettledMeansBuilt

THEOREM BuiltInvariant == Spec => []BuiltInv
BY InitBuilt, NextBuilt, InductiveInvariant, PTL DEF Spec, SafeSpec

\* Exit status 0 for a range: all its partitions are there.
THEOREM ExitZeroIsBuilt == Spec => []ExitZeroMeansBuilt
<1>1. BuiltInv => ExitZeroMeansBuilt
  BY DEF BuiltInv, ExitZeroMeansBuilt
<1> QED
  BY <1>1, BuiltInvariant, PTL

\* Created or skipped: all four partitions are there, also where a builder
\* had crashed between two of them.
THEOREM SettledIsBuilt == Spec => []SettledMeansBuilt
<1>1. BuiltInv => SettledMeansBuilt
  BY DEF BuiltInv, SettledMeansBuilt
<1> QED
  BY <1>1, BuiltInvariant, PTL

-----------------------------------------------------------------------------
(* The builders implement DerivedStore.                                    *)

LEMMA SameDerived ==
    /\ \A dir : Derived!IsComplete(dir) = IsComplete(dir)
    /\ \A d, dir : Derived!RowsOf(d, dir) = RowsOf(d, dir)
    /\ Derived!Datasets = Datasets
    /\ \A d : Derived!Before(d) = Before(d)
BY DEF Derived!IsComplete, Derived!CountsAgree, Derived!RequiredFiles, Derived!BlockJson,
       Derived!TxsJsonl, Derived!MetaJson, Derived!RowsOf, Derived!Rows, Derived!Datasets,
       Derived!DatasetOrder, Derived!Before,
       IsComplete, CountsAgree, RequiredFiles, BlockJson, TxsJsonl, MetaJson, RowsOf, Rows,
       Datasets, DatasetOrder, Before

LEMMA SameStore == Store!Next <=> Derived!Store!Next
BY DEF Store!Next, Store!Publish, Store!Free, Store!OperatorRemoves,
       Store!Fetches, Store!FetchOf, Store!FirstTxs, Store!Reports,
       Store!Directory, Store!Part, Store!Contents, Store!RequiredFiles,
       Store!BlockJson, Store!TxsJsonl, Store!MetaJson,
       Derived!Store!Next, Derived!Store!Publish, Derived!Store!Free,
       Derived!Store!OperatorRemoves,
       Derived!Store!Fetches, Derived!Store!FetchOf, Derived!Store!FirstTxs,
       Derived!Store!Reports,
       Derived!Store!Directory, Derived!Store!Part, Derived!Store!Contents,
       Derived!Store!RequiredFiles, Derived!Store!BlockJson, Derived!Store!TxsJsonl,
       Derived!Store!MetaJson

\* A builder publishes a file after those that come before it.
LEMMA EarlierFiles ==
    ASSUME IInv, KeptInv, BuiltInv, ~OperatorDeletes,
           NEW p \in Builders, pc[p] = "copy", NEW h \in todo[p], IsNext(p, h),
           NEW d \in Before(Dataset(p))
    PROVE  \/ part[d][h] = RowsOf(d, raw[h])
           \/ ParquetDeleted /\ part[d][h] = NoFile
<1>1. nth[p] \in 1..4 /\ h \in Heights
  BY DEF IInv, TypeOK
<1>2. PICK i \in 1..4 : d = DatasetOrder[i] /\ \E k \in (i + 1)..4 : DatasetOrder[k] = Dataset(p)
  BY DEF Before
<1>3. d \in Datasets /\ i < nth[p]
  BY <1>1, <1>2, DatasetProperties DEF Dataset, Datasets
<1>4. CASE part[d][h] # NoFile
  BY <1>1, <1>3, <1>4 DEF KeptInv, DerivedFrom
<1>5. CASE part[d][h] = NoFile
  BY <1>2, <1>3, <1>5 DEF BuiltInv, Written
<1> QED
  BY <1>4, <1>5

LEMMA StepDerives ==
    IInv /\ KeptInv /\ BuiltInv /\ ~OperatorDeletes /\ [Next]_vars
        => [Derived!Next]_<<raw, part>>
<1> SUFFICES ASSUME IInv, KeptInv, BuiltInv, ~OperatorDeletes, [Next]_vars
             PROVE  [Derived!Next]_<<raw, part>>
  OBVIOUS
<1>1. ASSUME NEW p \in Builders, Publish(p) PROVE Derived!Next
  <2>1. Dataset(p) \in Datasets
    BY <1>1, PublishDerives DEF KeptInv
  <2>2. PICK h \in Heights :
          /\ IsNext(p, h)
          /\ IsComplete(raw[h])
          /\ part' = [part EXCEPT ![Dataset(p)][h] = RowsOf(Dataset(p), raw[h])]
    BY <1>1, PublishDerives DEF KeptInv
  <2>3. \A d \in Before(Dataset(p)) :
          part[d][h] = RowsOf(d, raw[h]) \/ (ParquetDeleted /\ part[d][h] = NoFile)
    BY <1>1, <2>2, EarlierFiles DEF Publish, IsNext
  <2>4. Derived!Derive(Dataset(p), h)
    BY <1>1, <2>2, <2>3, SameDerived DEF Derived!Derive, Publish
  <2> QED
    BY <2>1, <2>4, SameDerived DEF Derived!Next
<1>2. ASSUME NEW p \in Builders, Step(p) \/ Interrupt(p) \/ Kill(p)
      PROVE  [Derived!Next]_<<raw, part>>
  BY <1>1, <1>2, Frame
<1>3. CASE RawChanges
  BY <1>3, SameStore DEF RawChanges, Derived!Next
<1>4. ASSUME NEW d \in Datasets, NEW h \in Heights, OperatorRemovesPart(d, h)
      PROVE  Derived!Next
  BY <1>4, SameDerived DEF OperatorRemovesPart, Derived!Next
<1>5. CASE UNCHANGED vars
  BY <1>5 DEF vars
<1> QED
  BY <1>2, <1>3, <1>4, <1>5 DEF Next

\* As long as no raw directory is deleted, builders, ingests and deletions of
\* data/parquet together do nothing that the atomic store of derived files
\* does not do: two reads and four separate renames look like one step each,
\* in the order of the files.
THEOREM RefinesDerivedStore ==
    ASSUME ~OperatorDeletes PROVE Spec => ImplementsDerivedStore
<1>1. Init => Derived!Init
  BY SameDerived DEF Init, Derived!Init
<1> QED
  BY <1>1, StepDerives, InductiveInvariant, KeptInvariant, BuiltInvariant, PTL
     DEF ImplementsDerivedStore, Derived!Spec, Spec, SafeSpec

-----------------------------------------------------------------------------
(* Every builder runs out of steps.                                        *)

\* A height that is left is off the list.
LEMMA LeaveTodo ==
    ASSUME IInv, NEW p \in Builders, NEW h \in todo[p], NEW list, Leave(p, h, list)
    PROVE  pc'[p] = "next" /\ todo'[p] = todo[p] \ {h}
BY DEF Leave, Goto, AllBut, IInv, TypeOK

\* A builder is at a height only while there is one on its list.
LEMMA StepTodo ==
    ASSUME IInv, TodoInv, NEW p \in Builders, Step(p) \/ Interrupt(p) \/ Kill(p)
    PROVE  /\ IsFiniteSet(todo'[p])
           /\ pc'[p] \in AtHeight => todo'[p] # {}
<1> USE DEF Goto
<1>0. DOMAIN pc = Builders /\ DOMAIN todo = Builders /\ IsFiniteSet(todo[p])
  BY DEF IInv, TypeOK, TodoInv
<1>1. ASSUME NEW h \in todo[p], NEW list, Leave(p, h, list)
      PROVE  IsFiniteSet(todo'[p]) /\ pc'[p] \notin AtHeight
  <2>1. IsFiniteSet(todo[p] \ {h})
    BY <1>0, FS_RemoveElement
  <2> QED
    BY <1>1, <2>1, LeaveTodo DEF AtHeight
<1>2. CASE Start(p)
  <2>1. IsFiniteSet(Requested(p))
    <3>1. CASE job[p].all
      BY <3>1 DEF Requested, TodoInv
    <3>2. CASE ~job[p].all
      <4>1. job[p].lo \in Int /\ job[p].hi \in Int
        BY JobProperties DEF IInv, TypeOK
      <4> QED BY <3>2, <4>1, FS_Interval DEF Requested
    <3> QED BY <3>1, <3>2
  <2>2. todo'[p] = Requested(p) /\ pc'[p] = "next"
    BY <1>0, <1>2 DEF Start
  <2> QED BY <2>1, <2>2 DEF AtHeight
<1>3. CASE StartFails(p) \/ LoopEnds(p) \/ Finish(p) \/ Kill(p) \/ Interrupt(p)
  BY <1>0, <1>3 DEF StartFails, LoopEnds, Finish, ExitCode, Kill, Interrupt, AtHeight, Running
<1>4. CASE RawComplete(p) \/ Build(p)
  BY <1>0, <1>4 DEF RawComplete, Build
<1>5. CASE Flatten(p) \/ RowsWritten(p)
  BY <1>0, <1>5 DEF Flatten, RowsWritten, TodoInv, AtHeight, Running
<1>6. CASE ReadBlock(p) \/ ReadTxs(p) \/ OpenStaging(p) \/ Publish(p)
  BY <1>0, <1>6 DEF ReadBlock, ReadTxs, OpenStaging, Publish
<1>7. CASE RawMissing(p) \/ Skip(p)
  BY <1>1, <1>7 DEF RawMissing, Skip
<1>8. CASE ReadFails(p) \/ FlattenRaises(p) \/ OpenFails(p) \/ RowsFail(p) \/ CopyFails(p)
  BY <1>1, <1>8 DEF ReadFails, FlattenRaises, OpenFails, RowsFail, CopyFails, Fail
<1>9. CASE CleanUp(p)
  BY <1>0, <1>1, <1>9 DEF CleanUp
<1> QED
  BY <1>2, <1>3, <1>4, <1>5, <1>6, <1>7, <1>8, <1>9 DEF Step

LEMMA InitTodo == Init => TodoInv
<1> SUFFICES ASSUME Init PROVE TodoInv
  OBVIOUS
<1>1. {h \in Heights : raw[h] # NoDir} = {}
  BY DEF Init
<1> QED
  BY <1>1, FS_EmptySet DEF Init, TodoInv, AtHeight, Running

LEMMA NextTodo == IInv /\ TodoInv /\ [Next]_vars => TodoInv'
<1> SUFFICES ASSUME IInv, TodoInv, [Next]_vars PROVE TodoInv'
  OBVIOUS
<1> DEFINE There == {h \in Heights : raw[h] # NoDir}
<1>1. CASE UNCHANGED raw
  <2>1. IsFiniteSet(There')
    BY <1>1 DEF TodoInv
  <2>2. ASSUME NEW p \in Builders, NEW q \in Builders, Step(p) \/ Interrupt(p) \/ Kill(p)
        PROVE  IsFiniteSet(todo'[q]) /\ (pc'[q] \in AtHeight => todo'[q] # {})
    <3>1. CASE p = q
      BY <2>2, <3>1, StepTodo
    <3>2. CASE p # q
      BY <2>2, <3>2, Frame DEF TodoInv
    <3> QED BY <3>1, <3>2
  <2>3. CASE UNCHANGED local
    BY <2>1, <2>3 DEF local, TodoInv
  <2>4. CASE \E p \in Builders : Step(p) \/ Interrupt(p) \/ Kill(p)
    BY <2>1, <2>2, <2>4 DEF TodoInv
  <2> QED
    BY <2>3, <2>4 DEF Next, vars, RawChanges, OperatorRemovesPart
<1>2. CASE RawChanges
  <2>1. PICK k \in Heights : \E dir : raw' = [raw EXCEPT ![k] = dir]
    BY <1>2 DEF RawChanges, Store!Next, Store!Publish, Store!OperatorRemoves
  <2>2. There' \subseteq There \cup {k}
    BY <2>1 DEF IInv, TypeOK
  <2>3. IsFiniteSet(There \cup {k})
    BY FS_AddElement DEF TodoInv
  <2>4. IsFiniteSet(There')
    BY <2>2, <2>3, FS_Subset
  <2> QED
    BY <1>2, <2>4 DEF RawChanges, local, TodoInv
<1> QED
  BY <1>1, <1>2, Frame DEF Next, vars, OperatorRemovesPart, Derived!Remove

LEMMA TodoInvariant == Spec => []TodoInv
BY InitTodo, NextTodo, InductiveInvariant, PTL DEF Spec, SafeSpec

LEMMA StepsAtEach ==
    ASSUME NEW p \in Builders
    PROVE  /\ pc[p] = "skip" => StepsAtHeight(p) = 20
           /\ pc[p] = "read block" => StepsAtHeight(p) = 19
           /\ pc[p] = "read txs" => StepsAtHeight(p) = 18
           /\ pc[p] = "flatten" => StepsAtHeight(p) = 17
           /\ pc[p] = "open" => StepsAtHeight(p) = 4 * DatasetsLeft(p) + 4
           /\ pc[p] = "rows" => StepsAtHeight(p) = 4 * DatasetsLeft(p) + 3
           /\ pc[p] = "copy" => StepsAtHeight(p) = 4 * DatasetsLeft(p) + 2
           /\ pc[p] = "cleanup" => StepsAtHeight(p) = 4 * DatasetsLeft(p) + 1
BY DEF StepsAtHeight

LEMMA StepsAtEachNext ==
    ASSUME NEW p \in Builders
    PROVE  /\ pc'[p] = "read block" => StepsAtHeight(p)' = 19
           /\ pc'[p] = "read txs" => StepsAtHeight(p)' = 18
           /\ pc'[p] = "flatten" => StepsAtHeight(p)' = 17
           /\ pc'[p] = "open" => StepsAtHeight(p)' = 4 * DatasetsLeft(p)' + 4
           /\ pc'[p] = "rows" => StepsAtHeight(p)' = 4 * DatasetsLeft(p)' + 3
           /\ pc'[p] = "copy" => StepsAtHeight(p)' = 4 * DatasetsLeft(p)' + 2
           /\ pc'[p] = "cleanup" => StepsAtHeight(p)' = 4 * DatasetsLeft(p)' + 1
BY DEF StepsAtHeight

LEMMA AtHeightSteps ==
    ASSUME IInv, TodoInv, NEW p \in Builders, pc[p] \in AtHeight
    PROVE  /\ StepsAtHeight(p) \in 1..20
           /\ Cardinality(todo[p]) \in Nat \ {0}
           /\ StepsLeft(p) = StepsAtHeight(p) + 21 * (Cardinality(todo[p]) - 1) + 2
<1>1. Cardinality(todo[p]) \in Nat \ {0}
  BY FS_CardinalityType, FS_EmptySet DEF TodoInv
<1>2. DatasetsLeft(p) \in 0..3
  BY DEF DatasetsLeft, IInv, TypeOK
<1>3. StepsAtHeight(p) \in 1..20
  <2> DEFINE d == DatasetsLeft(p)
  <2>1. StepsAtHeight(p) \in {20, 19, 18, 17, 4 * d + 4, 4 * d + 3, 4 * d + 2, 4 * d + 1}
    BY StepsAtEach DEF AtHeight
  <2> QED BY <1>2, <2>1
<1> QED
  BY <1>1, <1>3 DEF StepsLeft, Ended, AtHeight

LEMMA LeaveTakesStep ==
    ASSUME IInv, TodoInv, NEW p \in Builders, pc[p] \in AtHeight \cup {"next"},
           NEW h \in todo[p], NEW list, Leave(p, h, list)
    PROVE  StepsLeft(p)' \in 0..(StepsLeft(p) - 1)
<1> DEFINE c == Cardinality(todo[p])
<1>1. c \in Nat \ {0} /\ Cardinality(todo[p] \ {h}) = c - 1
  BY FS_CardinalityType, FS_EmptySet, FS_RemoveElement DEF TodoInv
<1>2. pc'[p] = "next" /\ todo'[p] = todo[p] \ {h}
  BY LeaveTodo
<1>3. StepsLeft(p)' = 21 * (c - 1) + 2
  BY <1>1, <1>2 DEF StepsLeft, AtHeight, Running, Ended
<1>4. StepsLeft(p) \in Nat /\ StepsLeft(p) >= 21 * (c - 1) + 3
  <2>1. CASE pc[p] = "next"
    BY <1>1, <2>1 DEF StepsLeft, AtHeight, Running, Ended
  <2>2. CASE pc[p] \in AtHeight
    BY <1>1, <2>2, AtHeightSteps
  <2> QED BY <2>1, <2>2
<1> QED
  BY <1>1, <1>3, <1>4

LEMMA OwnStepTakesStep ==
    ASSUME IInv, TodoInv, NEW p \in Builders, pc[p] \in Running,
           Step(p) \/ Interrupt(p) \/ Kill(p)
    PROVE  StepsLeft(p)' \in 0..(StepsLeft(p) - 1)
<1> DEFINE c == Cardinality(todo[p])
<1>0. /\ DOMAIN pc = Builders /\ DOMAIN nth = Builders
      /\ nth[p] \in 1..4 /\ DatasetsLeft(p) \in 0..3 /\ c \in Nat
  BY FS_CardinalityType DEF IInv, TypeOK, TodoInv, DatasetsLeft
<1>1. StepsLeft(p) \in Nat \ {0}
  <2>1. CASE pc[p] \in AtHeight
    BY <2>1, AtHeightSteps
  <2>2. CASE pc[p] \in {"next", "finish"}
    <3>1. StepsLeft(p) = IF pc[p] = "next" THEN 21 * c + 2 ELSE 1
      BY <2>2 DEF StepsLeft, AtHeight, Ended
    <3> QED BY <1>0, <3>1
  <2> QED BY <2>1, <2>2 DEF AtHeight, Running
<1>2. CASE Interrupt(p) \/ Kill(p) \/ Finish(p)
  <2>1. pc'[p] \in Ended
    BY <1>0, <1>2 DEF Interrupt, Kill, Finish, ExitCode, Goto, Ended
  <2>2. StepsLeft(p)' = 0
    BY <2>1 DEF StepsLeft, AtHeight, Running, Ended
  <2> QED BY <1>1, <2>2
<1>3. CASE LoopEnds(p)
  <2>1. pc[p] = "next" /\ pc'[p] = "finish"
    BY <1>0, <1>3 DEF LoopEnds, Goto
  <2>2. StepsLeft(p) = 21 * c + 2 /\ StepsLeft(p)' = 1
    BY <2>1 DEF StepsLeft, AtHeight, Ended
  <2> QED BY <1>0, <2>2
<1>4. CASE RawComplete(p)
  <2>1. pc[p] = "next" /\ pc'[p] = "skip" /\ todo' = todo /\ todo[p] # {}
    BY <1>0, <1>4 DEF RawComplete, Goto
  <2>2. StepsLeft(p) = 21 * c + 2 /\ StepsLeft(p)' = 20 + 21 * (c - 1) + 2
    BY <2>1 DEF StepsLeft, StepsAtHeight, AtHeight, Running, DatasetsLeft, Ended
  <2>3. c # 0
    BY <2>1, FS_EmptySet DEF TodoInv
  <2> QED BY <1>0, <2>2, <2>3
<1>5. ASSUME pc[p] \in AtHeight, pc'[p] \in AtHeight, UNCHANGED todo,
             StepsAtHeight(p)' \in 1..(StepsAtHeight(p) - 1)
      PROVE  StepsLeft(p)' \in 0..(StepsLeft(p) - 1)
  <2>1. StepsLeft(p)' = StepsAtHeight(p)' + 21 * (c - 1) + 2
    BY <1>5 DEF StepsLeft, Ended, AtHeight
  <2> QED BY <1>5, <2>1, AtHeightSteps
<1>6. CASE Build(p) \/ ReadBlock(p) \/ ReadTxs(p)
  <2>1. /\ UNCHANGED todo
        /\ \/ pc[p] = "skip" /\ pc'[p] = "read block"
           \/ pc[p] = "read block" /\ pc'[p] = "read txs"
           \/ pc[p] = "read txs" /\ pc'[p] = "flatten"
    BY <1>0, <1>6 DEF Build, ReadBlock, ReadTxs, Goto
  <2>2. \/ StepsAtHeight(p) = 20 /\ StepsAtHeight(p)' = 19
        \/ StepsAtHeight(p) = 19 /\ StepsAtHeight(p)' = 18
        \/ StepsAtHeight(p) = 18 /\ StepsAtHeight(p)' = 17
    BY <2>1, StepsAtEach, StepsAtEachNext
  <2>3. StepsAtHeight(p)' \in 1..(StepsAtHeight(p) - 1)
    BY <2>2
  <2> QED
    BY <1>5, <2>1, <2>3 DEF AtHeight
<1>7. CASE Flatten(p)
  <2>1. nth[p] = 1
    BY <1>7 DEF Flatten, IInv, Held
  <2> QED
    BY <1>0, <1>5, <1>7, <2>1 DEF Flatten, Goto, StepsAtHeight, AtHeight, Running, DatasetsLeft
<1>8. CASE OpenStaging(p) \/ RowsWritten(p) \/ Publish(p)
  <2>1. /\ UNCHANGED <<todo, nth>>
        /\ \/ pc[p] = "open" /\ pc'[p] = "rows"
           \/ pc[p] = "rows" /\ pc'[p] = "copy"
           \/ pc[p] = "copy" /\ pc'[p] = "cleanup"
    BY <1>0, <1>8 DEF OpenStaging, RowsWritten, Publish, Goto
  <2>2. DatasetsLeft(p)' = DatasetsLeft(p)
    BY <2>1 DEF DatasetsLeft
  <2> DEFINE d == DatasetsLeft(p)
  <2>3. \/ StepsAtHeight(p) = 4 * d + 4 /\ StepsAtHeight(p)' = 4 * d + 3
        \/ StepsAtHeight(p) = 4 * d + 3 /\ StepsAtHeight(p)' = 4 * d + 2
        \/ StepsAtHeight(p) = 4 * d + 2 /\ StepsAtHeight(p)' = 4 * d + 1
    BY <2>1, <2>2, StepsAtEach, StepsAtEachNext
  <2>4. StepsAtHeight(p)' \in 1..(StepsAtHeight(p) - 1)
    BY <1>0, <2>3
  <2> QED
    BY <1>5, <2>1, <2>4 DEF AtHeight
<1>9. CASE RawMissing(p) \/ Skip(p)
  BY <1>9, LeaveTakesStep DEF RawMissing, Skip, AtHeight, Running
<1>10. CASE ReadFails(p) \/ FlattenRaises(p) \/ OpenFails(p) \/ RowsFail(p) \/ CopyFails(p)
  BY <1>10, LeaveTakesStep
     DEF ReadFails, FlattenRaises, OpenFails, RowsFail, CopyFails, Fail, AtHeight, Running
<1>11. CASE CleanUp(p)
  <2>1. pc[p] = "cleanup"
    BY <1>11 DEF CleanUp
  <2>2. CASE LastDataset(p)
    BY <1>11, <2>1, <2>2, LeaveTakesStep DEF CleanUp, AtHeight, Running
  <2>3. CASE ~LastDataset(p)
    <3>1. pc'[p] = "open" /\ nth'[p] = nth[p] + 1 /\ UNCHANGED todo
      BY <1>0, <1>11, <2>3 DEF CleanUp, Goto
    <3>2. nth[p] \in 1..3
      BY <1>0, <2>3 DEF LastDataset
    <3> QED BY <1>5, <2>1, <3>1, <3>2 DEF StepsAtHeight, AtHeight, Running, DatasetsLeft
  <2> QED BY <2>2, <2>3
<1>12. ~Start(p) /\ ~StartFails(p)
  BY DEF Start, StartFails, Running
<1> QED
  BY <1>2, <1>3, <1>4, <1>6, <1>7, <1>8, <1>9, <1>10, <1>11, <1>12 DEF Step

\* Whatever fails, is deleted or is ingested, a builder is through after
\* twenty-one steps for each of the heights it has listed and two more.
THEOREM StepsAreBounded == Spec => StepsRunOut
<1>1. IInv /\ TodoInv /\ [Next]_vars =>
        [\A p \in Builders : pc[p] \in Running =>
            IF own(p)' = own(p) THEN StepsLeft(p)' = StepsLeft(p)
            ELSE StepsLeft(p)' \in 0..(StepsLeft(p) - 1)]_vars
  <2> SUFFICES ASSUME IInv, TodoInv, Next, NEW p \in Builders, pc[p] \in Running
               PROVE  IF own(p)' = own(p) THEN StepsLeft(p)' = StepsLeft(p)
                      ELSE StepsLeft(p)' \in 0..(StepsLeft(p) - 1)
    OBVIOUS
  <2>1. CASE own(p)' = own(p)
    BY <2>1 DEF own, StepsLeft, StepsAtHeight, DatasetsLeft, Ended, AtHeight
  <2>2. CASE own(p)' # own(p)
    <3>1. ~UNCHANGED local
      BY <2>2 DEF own, local
    <3>2. ASSUME NEW q \in Builders \ {p}, Step(q) \/ Interrupt(q) \/ Kill(q) PROVE FALSE
      BY <2>2, <3>2, Frame DEF own
    <3>3. Step(p) \/ Interrupt(p) \/ Kill(p)
      BY <3>1, <3>2 DEF Next, RawChanges, OperatorRemovesPart
    <3> QED BY <2>2, <3>3, OwnStepTakesStep
  <2> QED BY <2>1, <2>2
<1> QED
  BY <1>1, InductiveInvariant, TodoInvariant, PTL DEF StepsRunOut, Spec, SafeSpec

=============================================================================
