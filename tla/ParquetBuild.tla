----------------------------- MODULE ParquetBuild -----------------------------
(***************************************************************************)
(* Invocations of scripts/build_parquet.py that derive data/parquet from   *)
(* data/raw/blocks (parquet_build.py, flatten.py), next to each other and  *)
(* while blocks are ingested: which heights an invocation builds, skips or *)
(* leaves, the two reads of a raw block, and the four partitions of a      *)
(* height, each staged and renamed on its own.  The raw store is a         *)
(* BlockStore, which RawStore implements.                                  *)
(***************************************************************************)
EXTENDS Partitions, FiniteSets

CONSTANTS
    Builders,           \* the invocations, each of which runs once
    BuildJobs,          \* their command lines
    OperatorDeletes,    \* whether an operator ever deletes a raw directory
    ParquetDeleted      \* whether an operator ever deletes a data.parquet

\* Command lines name a range, or (all) take every raw directory there is.
ASSUME BuildJobsAssumption ==
    \A job \in BuildJobs :
        /\ job \in [all : BOOLEAN, lo : Nat, hi : Nat, force : BOOLEAN]
        /\ job.lo..job.hi \subseteq Heights

VARIABLES
    raw,        \* raw[h]: the block directory of height h
    part,       \* part[d][h]: data.parquet of dataset d and height h
    pc,         \* what the invocation does next, or how it ended
    job,        \* its command line
    todo,       \* the heights its loop has still to go through
    block,      \* block_json, once read
    txs,        \* tx_objects, once read
    nth,        \* the dataset it is at
    staged,     \* the temporary files it has on disk
    result      \* created, skipped, missing_raw, failed

Store == INSTANCE BlockStore
Derived == INSTANCE DerivedStore

local == <<pc, todo, block, txs, nth, staged, result>>
vars == <<raw, part, job, local>>

Running == {"next", "skip", "read block", "read txs", "flatten",
            "open", "rows", "copy", "cleanup", "finish"}
Ended == {"exit0", "exit1", "interrupted", "killed"}

-----------------------------------------------------------------------------
\* What main reports.
Lists == [created : SUBSET Heights, skipped : SUBSET Heights,
          missing : SUBSET Heights, failed : SUBSET Heights]

TypeOK ==
    /\ DOMAIN raw = Heights
    /\ \A h \in Heights : raw[h] \in DirectoriesAt(h) \cup {NoDir}
    /\ DOMAIN part = Datasets
    /\ \A d \in Datasets : part[d] \in [Heights -> RowSet(d) \cup {NoFile}]
    /\ pc \in [Builders -> {"start"} \cup Running \cup Ended]
    /\ job \in [Builders -> BuildJobs]
    /\ todo \in [Builders -> SUBSET Heights]
    /\ block \in [Builders -> BlockJsons \cup {NoFile}]
    /\ txs \in [Builders -> TxLists \cup {NoFile}]
    /\ nth \in [Builders -> 1..4]
    /\ staged \in [Builders -> SUBSET (Datasets \X Heights)]
    /\ result \in [Builders -> Lists]

Init ==
    /\ raw = [h \in Heights |-> NoDir]
    /\ part = [d \in Datasets |-> [h \in Heights |-> NoFile]]
    /\ job \in [Builders -> BuildJobs]
    /\ pc = [p \in Builders |-> "start"]
    /\ todo = [p \in Builders |-> {}]
    /\ block = [p \in Builders |-> NoFile]
    /\ txs = [p \in Builders |-> NoFile]
    /\ nth = [p \in Builders |-> 1]
    /\ staged = [p \in Builders |-> {}]
    /\ result = [p \in Builders |->
                   [created |-> {}, skipped |-> {}, missing |-> {}, failed |-> {}]]

Goto(p, label) == pc' = [pc EXCEPT ![p] = label]

\* The heights of the loop are sorted.
IsNext(p, h) == h \in todo[p] /\ \A k \in todo[p] : h <= k

\* A loop that tries a height again for as long as it fails.
UntilBuilt(heights, h, list) == IF list = "failed" THEN heights ELSE heights \ {h}

AllBut(heights, h, list) == heights \ {h}

\* The height is done with.
Leave(p, h, list) ==
    /\ result' = [result EXCEPT ![p][list] = @ \cup {h}]
    /\ todo' = [todo EXCEPT ![p] = AllBut(@, h, list)]
    /\ block' = [block EXCEPT ![p] = NoFile]
    /\ txs' = [txs EXCEPT ![p] = NoFile]
    /\ nth' = [nth EXCEPT ![p] = 1]
    /\ Goto(p, "next")

Dataset(p) == DatasetOrder[nth[p]]

-----------------------------------------------------------------------------
(* The loop of main.                                                       *)

Requested(p) ==
    IF job[p].all THEN {h \in Heights : raw[h] # NoDir} ELSE job[p].lo..job[p].hi

Start(p) ==
    /\ pc[p] = "start"
    /\ todo' = [todo EXCEPT ![p] = Requested(p)]
    /\ Goto(p, "next")
    /\ UNCHANGED <<raw, part, job, block, txs, nth, staged, result>>

\* discover_heights raises when data/raw/blocks does not exist.
StartFails(p) ==
    /\ pc[p] = "start"
    /\ job[p].all
    /\ \A h \in Heights : raw[h] = NoDir
    /\ Goto(p, "exit1")
    /\ UNCHANGED <<raw, part, job, todo, block, txs, nth, staged, result>>

\* The mere presence of the three files.
FilesPresent(dir) == dir # NoDir /\ RequiredFiles \subseteq DOMAIN dir

\* Which raw directories are built from.
Usable(dir) == IsComplete(dir)

RawMissing(p) ==
    /\ pc[p] = "next"
    /\ \E h \in todo[p] :
         /\ IsNext(p, h)
         /\ ~Usable(raw[h])
         /\ Leave(p, h, "missing")
    /\ UNCHANGED <<raw, part, job, staged>>

RawComplete(p) ==
    /\ pc[p] = "next"
    /\ \E h \in todo[p] : IsNext(p, h) /\ Usable(raw[h])
    /\ Goto(p, "skip")
    /\ UNCHANGED <<raw, part, job, todo, block, txs, nth, staged, result>>

\* Only the partition that is written first.
FirstPartitionExists(h) == part["blocks"][h] # NoFile

PartitionsComplete(h) == \A d \in Datasets : part[d][h] # NoFile

Skip(p) ==
    /\ pc[p] = "skip"
    /\ ~job[p].force
    /\ \E h \in todo[p] :
         IsNext(p, h) /\ PartitionsComplete(h) /\ Leave(p, h, "skipped")
    /\ UNCHANGED <<raw, part, job, staged>>

Build(p) ==
    /\ pc[p] = "skip"
    /\ \E h \in todo[p] : IsNext(p, h) /\ (job[p].force \/ ~PartitionsComplete(h))
    /\ Goto(p, "read block")
    /\ UNCHANGED <<raw, part, job, todo, block, txs, nth, staged, result>>

\* An exception anywhere in the try block.
Fail(p) == \E h \in todo[p] : IsNext(p, h) /\ Leave(p, h, "failed")

-----------------------------------------------------------------------------
(* read_raw_block and the flattening.                                      *)

Has(dir, file) == dir # NoDir /\ file \in DOMAIN dir

ReadBlock(p) ==
    /\ pc[p] = "read block"
    /\ \E h \in todo[p] :
         /\ IsNext(p, h)
         /\ Has(raw[h], BlockJson)
         /\ block' = [block EXCEPT ![p] = raw[h][BlockJson]]
    /\ Goto(p, "read txs")
    /\ UNCHANGED <<raw, part, job, todo, txs, nth, staged, result>>

ReadTxs(p) ==
    /\ pc[p] = "read txs"
    /\ \E h \in todo[p] :
         /\ IsNext(p, h)
         /\ Has(raw[h], TxsJsonl)
         /\ txs' = [txs EXCEPT ![p] = raw[h][TxsJsonl]]
    /\ Goto(p, "flatten")
    /\ UNCHANGED <<raw, part, job, todo, block, nth, staged, result>>

\* A reader that begins again when a file is gone.
ReadStartsOver(p) ==
    /\ pc[p] \in {"read block", "read txs"}
    /\ Goto(p, "read block")
    /\ UNCHANGED <<raw, part, job, todo, block, txs, nth, staged, result>>

\* The file has been deleted since, or cannot be read.
ReadFails(p) ==
    /\ pc[p] \in {"read block", "read txs"}
    /\ Fail(p)
    /\ UNCHANGED <<raw, part, job, staged>>

Flatten(p) ==
    /\ pc[p] = "flatten"
    /\ Goto(p, "open")
    /\ UNCHANGED <<raw, part, job, todo, block, txs, nth, staged, result>>

\* flatten_block subscripts tx_count: a KeyError where it is missing (and a
\* row without a count, by Flatten, where it is null).
FlattenRaises(p) ==
    /\ pc[p] = "flatten"
    /\ block[p].reported = NoCount
    /\ Fail(p)
    /\ UNCHANGED <<raw, part, job, staged>>

-----------------------------------------------------------------------------
(* write_parquet_partition_atomic, for one dataset after the other.        *)

\* The temporary files that are left once the finally clause has run.
WithoutFinally(files, d, h) == files

Unstaged(files, d, h) == files \ {<<d, h>>}

OpenStaging(p) ==
    /\ pc[p] = "open"
    /\ \E h \in todo[p] :
         /\ IsNext(p, h)
         /\ staged' = [staged EXCEPT ![p] = @ \cup {<<Dataset(p), h>>}]
    /\ Goto(p, "rows")
    /\ UNCHANGED <<raw, part, job, todo, block, txs, nth, result>>

OpenFails(p) ==
    /\ pc[p] = "open"
    /\ Fail(p)
    /\ UNCHANGED <<raw, part, job, staged>>

RowsWritten(p) ==
    /\ pc[p] = "rows"
    /\ Goto(p, "copy")
    /\ UNCHANGED <<raw, part, job, todo, block, txs, nth, staged, result>>

\* The rows are written outside the try: what is staged stays.
RowsFail(p) ==
    /\ pc[p] = "rows"
    /\ Fail(p)
    /\ UNCHANGED <<raw, part, job, staged>>

\* DuckDB's COPY to the temporary Parquet file, and the rename.
Publish(p) ==
    /\ pc[p] = "copy"
    /\ \E h \in todo[p] :
         /\ IsNext(p, h)
         /\ part' = [part EXCEPT ![Dataset(p)][h] = Rows(Dataset(p), block[p], txs[p])]
    /\ Goto(p, "cleanup")
    /\ UNCHANGED <<raw, job, todo, block, txs, nth, staged, result>>

\* COPY or the rename fails: the finally clause removes what is staged.
CopyFails(p) ==
    /\ pc[p] = "copy"
    /\ \E h \in todo[p] :
         IsNext(p, h) /\ staged' = [staged EXCEPT ![p] = Unstaged(@, Dataset(p), h)]
    /\ Fail(p)
    /\ UNCHANGED <<raw, part, job>>

LastDataset(p) == nth[p] = 4

CleanUp(p) ==
    /\ pc[p] = "cleanup"
    /\ \E h \in todo[p] :
         /\ IsNext(p, h)
         /\ staged' = [staged EXCEPT ![p] = Unstaged(@, Dataset(p), h)]
         /\ IF LastDataset(p)
            THEN Leave(p, h, "created")
            ELSE /\ nth' = [nth EXCEPT ![p] = @ + 1]
                 /\ Goto(p, "open")
                 /\ UNCHANGED <<todo, block, txs, result>>
    /\ UNCHANGED <<raw, part, job>>

-----------------------------------------------------------------------------
(* The end of main.                                                        *)

LoopEnds(p) ==
    /\ pc[p] = "next"
    /\ todo[p] = {}
    /\ Goto(p, "finish")
    /\ UNCHANGED <<raw, part, job, todo, block, txs, nth, staged, result>>

\* The exit status from the failures alone, without the missing raw blocks.
ExitCodeOfFailures(p) ==
    IF job[p].all \/ result[p].failed = {} THEN "exit0" ELSE "exit1"

\* An explicit range is checked against the disk.
ExitCode(p) ==
    IF job[p].all \/ \A h \in job[p].lo..job[p].hi : PartitionsComplete(h)
    THEN "exit0" ELSE "exit1"

Finish(p) ==
    /\ pc[p] = "finish"
    /\ Goto(p, ExitCode(p))
    /\ UNCHANGED <<raw, part, job, todo, block, txs, nth, staged, result>>

\* A KeyboardInterrupt is not caught; from within the try around COPY it
\* still goes through the finally.
Interrupt(p) ==
    /\ pc[p] \in Running
    /\ Goto(p, "interrupted")
    /\ \/ UNCHANGED staged
       \/ /\ pc[p] = "copy"
          /\ \E h \in todo[p] :
               IsNext(p, h) /\ staged' = [staged EXCEPT ![p] = Unstaged(@, Dataset(p), h)]
    /\ UNCHANGED <<raw, part, job, todo, block, txs, nth, result>>

Kill(p) ==
    /\ pc[p] \in Running
    /\ Goto(p, "killed")
    /\ UNCHANGED <<raw, part, job, todo, block, txs, nth, staged, result>>

-----------------------------------------------------------------------------
Step(p) ==
    \/ Start(p) \/ StartFails(p) \/ RawMissing(p) \/ RawComplete(p)
    \/ Skip(p) \/ Build(p)
    \/ ReadBlock(p) \/ ReadTxs(p) \/ ReadFails(p) \/ Flatten(p) \/ FlattenRaises(p)
    \/ OpenStaging(p) \/ OpenFails(p) \/ RowsWritten(p) \/ RowsFail(p)
    \/ Publish(p) \/ CopyFails(p) \/ CleanUp(p)
    \/ LoopEnds(p) \/ Finish(p)

\* Blocks are ingested, and deleted by hand, meanwhile.
RawChanges == Store!Next /\ UNCHANGED <<part, job, local>>

\* "Safe to delete data/parquet/ at any time".
OperatorRemovesPart(d, h) == Derived!Remove(d, h) /\ UNCHANGED <<job, local>>

Next ==
    \/ \E p \in Builders : Step(p) \/ Interrupt(p) \/ Kill(p)
    \/ RawChanges
    \/ \E d \in Datasets, h \in Heights : OperatorRemovesPart(d, h)

SafeSpec == Init /\ [][Next]_vars

\* The scheduler runs every invocation that was started until it ends.
Spec == SafeSpec /\ \A p \in Builders : WF_vars(pc[p] # "start" /\ Step(p))

-----------------------------------------------------------------------------
(* Properties.                                                             *)

\* Whatever order ingests, builds and crashes come in, a data.parquet that
\* exists holds what its raw block says now, and the raw block is there: the
\* existence of the file is a sufficient test for staleness
\* (parquet_partitions_complete), as long as no raw directory is ever
\* deleted.  That deletions of data/parquet do not change this is proved
\* (PartitionsAreFresh); the run has none.
PartitionsFresh ==
    ~OperatorDeletes =>
        \A d \in Datasets, h \in Heights : part[d][h] # NoFile =>
            raw[h] # NoDir /\ part[d][h] = RowsOf(d, raw[h])

\* No derived row comes from a block that is known to be short: where the
\* server reported a count, inputs and outputs are those of all transactions
\* of one block (the is_complete test of main, lines 55 to 57).  Where it
\* reported none, a short block is built, and nothing is claimed.
BuiltFromWhole ==
    ~OperatorDeletes =>
        \A h \in Heights : \A d \in {"inputs", "outputs"} :
            part[d][h] # NoFile /\ raw[h][BlockJson].reported # NoCount =>
                part[d][h] = BlockTxs(raw[h][BlockJson].hash)

\* Exit status 0 for an explicit range means that all four partitions of
\* every height of it exist, also where the raw block was missing or a build
\* was cut short by a crash (main, lines 84 to 89).
ExitZeroMeansBuilt ==
    ~ParquetDeleted =>
        \A p \in Builders : pc[p] = "exit0" /\ ~job[p].all =>
            \A d \in Datasets, h \in job[p].lo..job[p].hi : part[d][h] # NoFile

\* A height that is reported as created or as up to date has all four of its
\* partitions, whatever earlier builders left undone when they crashed
\* between two of them (main, lines 58 to 64).
SettledMeansBuilt ==
    ~ParquetDeleted =>
        \A p \in Builders : \A h \in result[p].created \cup result[p].skipped :
            \A d \in Datasets : part[d][h] # NoFile

\* The temporary files nobody is at work on any more.
Abandoned(p) ==
    {f \in staged[p] :
        ~(pc[p] \in {"rows", "copy", "cleanup"} /\ f[1] = Dataset(p) /\ IsNext(p, f[2]))}

\* A temporary file is abandoned only where writing its rows fails, and then
\* its height is reported as failed, or where the builder is killed or
\* interrupted: no other failure leaves one behind
\* (write_parquet_partition_atomic, the finally clause).
AbandonsOnlyRows ==
    [][\A p \in Builders : \A f \in Abandoned(p)' \ Abandoned(p) :
           \/ pc[p] = "rows" /\ f[2] \in result'[p].failed
           \/ pc'[p] \in {"interrupted", "killed"}]_vars

\* Although a builder reads a raw block in two steps and writes its four
\* files one by one, next to other builders and to ingests, each file is as
\* if computed at one moment from a complete raw block (DerivedStore).
ImplementsDerivedStore == Derived!Spec

\* A builder that was started ends, however many heights fail.
BuildEnds ==
    \A p \in Builders : pc[p] \in Running ~> pc[p] \in Ended

-----------------------------------------------------------------------------
(* How many steps a builder can still make.                                *)

own(p) == <<pc[p], todo[p], block[p], txs[p], nth[p], staged[p], result[p]>>

AtHeight == {"skip", "read block", "read txs", "flatten",
             "open", "rows", "copy", "cleanup"}

DatasetsLeft(p) == 4 - nth[p]

\* Four for a dataset, of those from the one at hand on; five before them.
StepsAtHeight(p) ==
    CASE pc[p] = "skip"       -> 20
      [] pc[p] = "read block" -> 19
      [] pc[p] = "read txs"   -> 18
      [] pc[p] = "flatten"    -> 17
      [] pc[p] = "open"       -> 4 * DatasetsLeft(p) + 4
      [] pc[p] = "rows"       -> 4 * DatasetsLeft(p) + 3
      [] pc[p] = "copy"       -> 4 * DatasetsLeft(p) + 2
      [] pc[p] = "cleanup"    -> 4 * DatasetsLeft(p) + 1

\* Twenty-one for a height still to do, one to leave the loop, one to end.
StepsLeft(p) ==
    CASE pc[p] \in AtHeight -> StepsAtHeight(p) + 21 * (Cardinality(todo[p]) - 1) + 2
      [] pc[p] = "next"     -> 21 * Cardinality(todo[p]) + 2
      [] pc[p] = "finish"   -> 1
      [] pc[p] \in Ended    -> 0

\* Once the list of heights is made, nothing sends a builder back: each of
\* its steps takes one off the number it can still make, whatever fails,
\* whatever is deleted under it, and whatever blocks are ingested meanwhile
\* (main, lines 53 to 75, goes over the list once).
StepsRunOut ==
    [][\A p \in Builders : pc[p] \in Running =>
           IF own(p)' = own(p) THEN StepsLeft(p)' = StepsLeft(p)
           ELSE StepsLeft(p)' \in 0..(StepsLeft(p) - 1)]_vars

\* The invariant behind it: there are finitely many directories to discover.
TodoInv ==
    /\ IsFiniteSet({h \in Heights : raw[h] # NoDir})
    /\ \A p \in Builders :
         IsFiniteSet(todo[p]) /\ (pc[p] \in AtHeight => todo[p] # {})

-----------------------------------------------------------------------------
(* The invariants behind the properties.                                   *)

\* Between which steps a builder is sure to have read the block, the txs.
BlockRead == {"read txs", "flatten", "open", "rows", "copy", "cleanup"}
TxsRead == BlockRead \ {"read txs"}

Held(p) ==
    /\ pc[p] \in BlockRead => block[p] \in BlockJsons
    /\ pc[p] \in TxsRead => txs[p] \in TxLists
    /\ pc[p] \in {"start", "next", "skip", "read block", "read txs", "flatten"} =>
          nth[p] = 1

IInv == TypeOK /\ \A p \in Builders : Held(p)

StoredWhole(h) ==
    raw[h] # NoDir => \E f \in Fetches(h) : raw[h] = Directory(f)

DerivedFrom(h) ==
    \A d \in Datasets : part[d][h] # NoFile =>
        IsComplete(raw[h]) /\ part[d][h] = RowsOf(d, raw[h])

\* Without deletions what a builder found and read is what is still there.
StillThere(p) ==
    \A h \in todo[p] : IsNext(p, h) =>
        /\ pc[p] \in {"skip", "read block"} \cup BlockRead => IsComplete(raw[h])
        /\ pc[p] \in BlockRead => block[p] = raw[h][BlockJson]
        /\ pc[p] \in TxsRead => txs[p] = raw[h][TxsJsonl]

KeptInv ==
    ~OperatorDeletes =>
        /\ \A h \in Heights : StoredWhole(h) /\ DerivedFrom(h)
        /\ \A p \in Builders : StillThere(p)

\* The partitions of a height are written in order, and what is written
\* stays.
Written(p) ==
    \A h \in todo[p] : IsNext(p, h) =>
        \A i \in 1..4 :
            \/ pc[p] \in {"open", "rows", "copy"} /\ i < nth[p]
            \/ pc[p] = "cleanup" /\ i <= nth[p]
            => part[DatasetOrder[i]][h] # NoFile

BuiltInv ==
    ~ParquetDeleted =>
        /\ \A p \in Builders : Written(p)
        /\ ExitZeroMeansBuilt /\ SettledMeansBuilt

-----------------------------------------------------------------------------
(* A claim of the documentation that the code does not keep.               *)

\* write_parquet_partition_atomic: "a failure at any point leaves [...] no
\* temp files behind".
NoTempFilesLeft ==
    \A p \in Builders : pc[p] \in {"exit0", "exit1"} => staged[p] = {}

=============================================================================
