---------------------------- MODULE SnowflakeLoad ----------------------------
(***************************************************************************)
(* Invocations of scripts/load_snowflake.py, side by side or one after     *)
(* another (a rerun): the command line, the report of the quality gate,    *)
(* and for every height and dataset of the range the five statements that  *)
(* bring a data.parquet through the shared stage and a temporary table     *)
(* into its RAW table.  Files and reports change meanwhile as GateContract *)
(* says, which QualityGate implements.                                     *)
(*                                                                         *)
(* The name of a temporary table has the height and the dataset in it, and *)
(* it is its session's own; so an invocation has one at a time, and what a *)
(* failure leaves of it is never seen again.                               *)
(***************************************************************************)
EXTENDS RawTables

CONSTANTS
    Loaders,            \* the invocations, each of which runs once
    OperatorDeletes,    \* whether an operator ever deletes a raw directory
    ParquetDeleted      \* whether an operator ever deletes a data.parquet

VARIABLES
    raw,        \* raw[h]: the block directory of height h
    part,       \* part[d][h]: data.parquet of dataset d and height h
    report,     \* report[w]: what validation_<lo>-<hi>.json holds
    table,      \* table[d]: the RAW table of dataset d
    stage,      \* stage[d][h]: the file under @PARQUET_STAGE/d/block_height=h/
    pc,         \* what the invocation does next, or how it ended
    window,     \* the range it is asked for
    at,         \* the height it is at
    nth,        \* the dataset it is at
    temp,       \* the rows in its temporary table
    failed      \* whether result.failed has anything in it

Gate == INSTANCE GateContract
RAW == INSTANCE Warehouse

files == <<raw, part, report>>
local == <<pc, window, at, nth, temp, failed>>
vars == <<files, table, stage, local>>

Statements == {"put", "create", "copy", "merge", "drop"}
Running == {"connect", "report", "next"} \cup Statements
Ended == {"exit0", "exit1", "exit2", "killed"}

TypeOK ==
    /\ DOMAIN raw = Heights
    /\ \A h \in Heights : raw[h] \in DirectoriesAt(h) \cup {NoDir}
    /\ DOMAIN part = Datasets /\ DOMAIN stage = Datasets /\ DOMAIN table = Datasets
    /\ \A d \in Datasets :
         /\ part[d] \in [Heights -> RowSet(d) \cup {NoFile}]
         /\ stage[d] \in [Heights -> RowSet(d) \cup {NoFile}]
         /\ Content(table[d]) \subseteq RowsIn(d)
    /\ report \in [Windows -> {"none", "torn", "PASS", "FAIL"}]
    /\ pc \in [Loaders -> {"start"} \cup Running \cup Ended]
    /\ window \in [Loaders -> Windows]
    /\ \A l \in Loaders : pc[l] \in {"next"} \cup Statements => at[l] \in window[l].lo..window[l].hi
    /\ nth \in [Loaders -> 1..4]
    /\ DOMAIN temp = Loaders
    /\ \A l \in Loaders : temp[l] \subseteq RowsIn(DatasetOrder[nth[l]])
    /\ failed \in [Loaders -> BOOLEAN]

Init ==
    /\ Gate!Init
    /\ table = [d \in Datasets |-> {}]
    /\ stage = [d \in Datasets |-> [h \in Heights |-> NoFile]]
    /\ pc = [l \in Loaders |-> "start"]
    /\ window \in [Loaders -> Windows]
    /\ at = [l \in Loaders |-> window[l].lo]
    /\ nth = [l \in Loaders |-> 1]
    /\ temp = [l \in Loaders |-> {}]
    /\ failed = [l \in Loaders |-> FALSE]

Goto(l, label) == pc' = [pc EXCEPT ![l] = label]

Dataset(l) == DatasetOrder[nth[l]]

-----------------------------------------------------------------------------
(* main, up to the load.                                                   *)

BadRange(l) ==
    /\ pc[l] = "start"
    /\ window[l].hi < window[l].lo
    /\ Goto(l, "exit2")
    /\ UNCHANGED <<files, table, stage, window, at, nth, temp, failed>>

\* SnowflakeConfig.from_env: a variable is missing from the environment.
NoCredentials(l) ==
    /\ pc[l] = "start"
    /\ window[l].lo <= window[l].hi
    /\ Goto(l, "exit2")
    /\ UNCHANGED <<files, table, stage, window, at, nth, temp, failed>>

Start(l) ==
    /\ pc[l] = "start"
    /\ window[l].lo <= window[l].hi
    /\ Goto(l, "connect")
    /\ UNCHANGED <<files, table, stage, window, at, nth, temp, failed>>

Connect(l) ==
    /\ pc[l] = "connect"
    /\ Goto(l, "report")
    /\ UNCHANGED <<files, table, stage, window, at, nth, temp, failed>>

ConnectFails(l) ==
    /\ pc[l] = "connect"
    /\ Goto(l, "exit1")
    /\ UNCHANGED <<files, table, stage, window, at, nth, temp, failed>>

\* Any report at all.
Accepted(outcome) == outcome # "none"

Passing(outcome) == outcome = "PASS"

\* A torn report is not JSON, and the error it raises is not caught.
ReadReport(l) ==
    /\ pc[l] = "report"
    /\ LET outcome == report[window[l]]
       IN  Goto(l, IF Passing(outcome) THEN "next"
                   ELSE IF outcome = "torn" THEN "exit1" ELSE "exit2")
    /\ UNCHANGED <<files, table, stage, window, at, nth, temp, failed>>

-----------------------------------------------------------------------------
(* load_height_range.                                                      *)

\* Counting only what follows the last success.
FailedLately(l, ok) == ~ok

FailedSoFar(l, ok) == failed[l] \/ ~ok

\* A range that ends one height late.
OneTooMany(l) == at[l] <= window[l].hi

MoreHeights(l) == at[l] < window[l].hi

\* On to the next dataset of the height, to the next height, or to the end.
Advance(l, ok) ==
    /\ failed' = [failed EXCEPT ![l] = FailedSoFar(l, ok)]
    /\ temp' = [temp EXCEPT ![l] = {}]
    /\ IF nth[l] < 4
       THEN nth' = [nth EXCEPT ![l] = @ + 1] /\ UNCHANGED at /\ Goto(l, "next")
       ELSE /\ nth' = [nth EXCEPT ![l] = 1]
            /\ IF MoreHeights(l)
               THEN at' = [at EXCEPT ![l] = @ + 1] /\ Goto(l, "next")
               ELSE UNCHANGED at /\ Goto(l, IF failed'[l] THEN "exit1" ELSE "exit0")

LocalFileMissing(l) ==
    /\ pc[l] = "next"
    /\ part[Dataset(l)][at[l]] = NoFile
    /\ Advance(l, FALSE)
    /\ UNCHANGED <<files, table, stage, window>>

LocalFileExists(l) ==
    /\ pc[l] = "next"
    /\ part[Dataset(l)][at[l]] # NoFile
    /\ Goto(l, "put")
    /\ UNCHANGED <<files, table, stage, window, at, nth, temp, failed>>

\* OVERWRITE=TRUE, whoever put the file that is there.
Put(l) ==
    /\ pc[l] = "put"
    /\ part[Dataset(l)][at[l]] # NoFile
    /\ stage' = [stage EXCEPT ![Dataset(l)][at[l]] = part[Dataset(l)][at[l]]]
    /\ Goto(l, "create")
    /\ UNCHANGED <<files, table, window, at, nth, temp, failed>>

CreateTemp(l) ==
    /\ pc[l] = "create"
    /\ temp' = [temp EXCEPT ![l] = {}]
    /\ Goto(l, "copy")
    /\ UNCHANGED <<files, table, stage, window, at, nth, failed>>

CopyInto(l) ==
    /\ pc[l] = "copy"
    /\ temp' = [temp EXCEPT ![l] =
          @ \cup FileRows(Dataset(l), at[l], stage[Dataset(l)][at[l]])]
    /\ Goto(l, "merge")
    /\ UNCHANGED <<files, table, stage, window, at, nth, failed>>

\* One statement, committed on its own.
MergeInto(l) ==
    /\ pc[l] = "merge"
    /\ table' = [table EXCEPT ![Dataset(l)] = Merge(Dataset(l), @, temp[l])]
    /\ Goto(l, "drop")
    /\ UNCHANGED <<files, stage, window, at, nth, temp, failed>>

DropTemp(l) ==
    /\ pc[l] = "drop"
    /\ Advance(l, TRUE)
    /\ UNCHANGED <<files, table, stage, window>>

\* A loader that puts the file again when a statement fails.
StatementRetried(l) ==
    /\ pc[l] \in Statements
    /\ Goto(l, "put")
    /\ UNCHANGED <<files, table, stage, window, at, nth, temp, failed>>

\* One of the five raises, a MERGE that was committed included.
StatementFails(l) ==
    /\ pc[l] \in Statements
    /\ Advance(l, FALSE)
    /\ UNCHANGED <<files, table, stage, window>>

\* An interrupt is not an Exception; the session goes, and its table with it.
Kill(l) ==
    /\ pc[l] \in Running
    /\ Goto(l, "killed")
    /\ temp' = [temp EXCEPT ![l] = {}]
    /\ UNCHANGED <<files, table, stage, window, at, nth, failed>>

-----------------------------------------------------------------------------
Step(l) ==
    \/ BadRange(l) \/ NoCredentials(l) \/ Start(l)
    \/ Connect(l) \/ ConnectFails(l) \/ ReadReport(l)
    \/ LocalFileMissing(l) \/ LocalFileExists(l)
    \/ Put(l) \/ CreateTemp(l) \/ CopyInto(l) \/ MergeInto(l) \/ DropTemp(l)
    \/ StatementFails(l)

\* Blocks are ingested, partitions built or deleted, ranges validated.
FilesChange == Gate!Next /\ UNCHANGED <<table, stage, local>>

Next ==
    \/ \E l \in Loaders : Step(l) \/ Kill(l)
    \/ FilesChange

Spec == Init /\ [][Next]_vars

-----------------------------------------------------------------------------
(* Properties.                                                             *)

\* "Safe to re-run any number of times without duplicating rows"
\* (README.md:323-324): whatever loads run, fail or are cut short side by
\* side, there is one entry per natural key in each table.
KeysUnique ==
    \A d \in Datasets : Unique(table[d], LAMBDA e : Key(d, e.row))

\* Row r of dataset d is in the warehouse, or a height outside of range w has
\* taken it: the key of a transaction does not say where it was mined.  That
\* a row can be lost to another height in this way is not excluded here
\* (GreenMeansWholeBlocks says what the tests on top make of it).
InWarehouse(d, r, w) ==
    \E e \in table[d] :
        /\ Key(d, e.row) = Key(d, r)
        /\ e.row = r \/ e.row.height \notin w.lo..w.hi

PartitionLoaded(d, h, w) ==
    /\ part[d][h] # NoFile
    /\ \A r \in FileRows(d, h, part[d][h]) : InWarehouse(d, r, w)

\* Exit status 0 means that every row of every partition of the range is in
\* the warehouse, however many statements of other loads of the same and of
\* other ranges fell between; within a range that cleared the gate no
\* height takes rows from another.
ExitZeroMeansLoaded ==
    ~OperatorDeletes /\ ~ParquetDeleted =>
        \A l \in Loaders : pc[l] = "exit0" /\ CountsKnown(part, window[l]) =>
            \A d \in Datasets, h \in window[l].lo..window[l].hi : PartitionLoaded(d, h, window[l])

\* Five statements over a shared stage, any of which may fail, with other
\* loads between them and files that change, are to the readers of the RAW
\* tables one step that brings in one partition of a range that is cleared
\* at that moment (Warehouse).
ImplementsWarehouse == RAW!Spec

-----------------------------------------------------------------------------
(* How many steps a load can still make.                                   *)

own(l) == <<pc[l], window[l], at[l], nth[l], temp[l], failed[l]>>

HeightsLeft(l) == IF at[l] <= window[l].hi THEN window[l].hi - at[l] + 1 ELSE 0

\* The test for the file and the five statements.
StepsAtFile(l) ==
    CASE pc[l] = "next"   -> 6
      [] pc[l] = "put"    -> 5
      [] pc[l] = "create" -> 4
      [] pc[l] = "copy"   -> 3
      [] pc[l] = "merge"  -> 2
      [] pc[l] = "drop"   -> 1

\* Six for a file, four files for a height, three before the first.
StepsLeft(l) ==
    CASE pc[l] = "start"   -> 24 * HeightsLeft(l) + 3
      [] pc[l] = "connect" -> 24 * HeightsLeft(l) + 2
      [] pc[l] = "report"  -> 24 * HeightsLeft(l) + 1
      [] pc[l] \in {"next"} \cup Statements ->
            24 * (HeightsLeft(l) - 1) + 6 * (4 - nth[l]) + StepsAtFile(l)
      [] pc[l] \in Ended    -> 0

\* A load never sends a statement twice: each of its steps takes one off the
\* number it can still make, which its range alone decides, whatever fails
\* and whatever other loads and rebuilt files put in its way; a failed
\* partition is left to the next run (load_height_range).
StepsRunOut ==
    [][\A l \in Loaders :
           IF own(l)' = own(l) THEN StepsLeft(l)' = StepsLeft(l)
           ELSE StepsLeft(l)' \in 0..(StepsLeft(l) - 1)]_vars

-----------------------------------------------------------------------------
(* A claim of the documentation that the code does not keep.               *)

\* The partitions of the range are those of its raw blocks, none of them of an
\* earlier build.
BuiltInFull(w) ==
    \A h \in w.lo..w.hi :
        IsComplete(raw[h]) /\ \A d \in Datasets : part[d][h] = RowsOf(d, raw[h])

\* load_validation_report: "never load a dataset that hasn't cleared the
\* quality gate".  Said here only of ranges that no builder is at work on.
OnlyClearedIsLoaded ==
    \A l \in Loaders : pc[l] = "put" /\ BuiltInFull(window[l]) =>
        AllChecksPass(TablesOf(part), window[l].lo, window[l].hi)

-----------------------------------------------------------------------------
(* The inductive invariant behind TypeOK and KeysUnique: what a load holds *)
(* in its temporary table is one file's rows, or nothing.                  *)

Placed(l) ==
    /\ pc[l] \in {"start", "connect", "report"} => at[l] = window[l].lo
    /\ pc[l] \in {"connect", "report"} => window[l].lo <= window[l].hi
    /\ pc[l] \in {"create", "copy"} => stage[Dataset(l)][at[l]] # NoFile
    /\ temp[l] # {} =>
         /\ pc[l] \in {"merge", "drop"}
         /\ \E file \in RowSet(Dataset(l)) : temp[l] = FileRows(Dataset(l), at[l], file)

IInv ==
    /\ TypeOK
    /\ at \in [Loaders -> Nat]
    /\ \A l \in Loaders : Placed(l)

-----------------------------------------------------------------------------
(* The invariants behind ImplementsWarehouse and ExitZeroMeansLoaded.      *)

\* Where nothing is deleted, what is in the stage and in a temporary table
\* is what the partition still says, and the gate still clears the range.
KeptInv ==
    ~OperatorDeletes /\ ~ParquetDeleted =>
        /\ FilesKept(raw, part)
        /\ \A w \in Windows : report[w] = "PASS" => Cleared(part, w)
        /\ \A d \in Datasets, h \in Heights : stage[d][h] # NoFile => part[d][h] = stage[d][h]
        /\ \A l \in Loaders :
             /\ pc[l] \in {"next", "exit0"} \cup Statements => Cleared(part, window[l])
             /\ pc[l] = "merge" =>
                  /\ part[Dataset(l)][at[l]] # NoFile
                  /\ temp[l] = FileRows(Dataset(l), at[l], part[Dataset(l)][at[l]])

\* The load has been through height h of the i-th dataset.
Done(l, i, h) ==
    \/ pc[l] = "exit0"
    \/ h < at[l]
    \/ h = at[l] /\ (i < nth[l] \/ (i = nth[l] /\ pc[l] = "drop"))

\* What it is through with is in the warehouse, as long as nothing failed.
Loaded(l) ==
    /\ pc[l] \in {"start", "connect", "report"} => nth[l] = 1
    /\ pc[l] = "exit0" => ~failed[l]
    /\ /\ pc[l] \in {"next", "exit0"} \cup Statements
       /\ ~failed[l]
       /\ CountsKnown(part, window[l])
       => \A i \in 1..4, h \in window[l].lo..window[l].hi :
            Done(l, i, h) => PartitionLoaded(DatasetOrder[i], h, window[l])

LoadedInv ==
    ~OperatorDeletes /\ ~ParquetDeleted => \A l \in Loaders : Loaded(l)

=============================================================================
