# Verification of btc-warehouse

TLA+ models of the warehouse's pipeline, the TLC runs that check them on small
instances, and TLAPS proofs of their safety properties for every instance.
Paths such as `extract.py:107` are relative to `btc_ingest/` (modules) or named
with their directory (`scripts/`, `dbt/`, `snowflake/`).

## 1. Inventory

The program is a set of command-line tools that share directories and, at the
end, a warehouse. No tool holds a lock and none knows of another: every
interaction is through files that one tool writes and another tests, lists or
reads.

```
Esplora API --> fetch_block(s).py --> data/raw/blocks --> build_parquet.py
  --> data/parquet --> validate_dataset.py --> data/reports
                  \--> load_snowflake.py (gated by data/reports) --> RAW --> dbt
```

| component | code | state it keeps | operations | what makes it hard | what makes it correct |
|---|---|---|---|---|---|
| Esplora client | `esplora.py` | none; one fetch holds hash, block and the pages so far | hash and block lookup, page after page, retries, 404 as end of list | timeouts and retries per request, a 404 in the middle of a block, a reorganisation between two requests, sizes that are multiples of the page | the merged list is one block, in order, and a short one can be told from its metadata |
| Raw block store, range ingest | `extract.py`, `scripts/fetch_block.py`, `scripts/fetch_blocks.py` | `data/raw/blocks/<height>/` with three files, temporary directories, result lists | options to a range, skip tests, atomic directory write, range loop, final check, exit status | two invocations on one height, failures of one height of many, crashes between files, a test made minutes before it is used | a directory appears whole and never changes; exit status and lists agree with the disk |
| Parquet build | `parquet_build.py`, `scripts/build_parquet.py` | `data/parquet/<dataset>/block_height=<h>/data.parquet`, staged files | height discovery, skip test, two reads, four staged writes, cleanup, exit status | existence as the only staleness test, crashes between the four files, builders and ingests side by side | a file that exists is what its raw block says |
| Flattening | `flatten.py` | none | block, transactions, inputs, outputs to rows | absent fields | rows depend on nothing but the block |
| Quality gate | `validate.py`, `scripts/validate_dataset.py` | `data/reports/validation_<lo>-<hi>.json` | 33 checks, one or two queries each, then a report | files that appear while the checks run, the border of the window, a report that is emptied before it is filled | PASS means a consistent window, and the figures next to it are of the same data; what lies outside the window decides nothing |
| Snowflake loader | `snowflake_loader.py`, `scripts/load_snowflake.py`, `snowflake/setup.sql` | a stage, temporary tables of the session, four RAW tables | the gate on the report, PUT, CREATE, COPY, MERGE, DROP per height and dataset | one statement of five failing, reruns, a report older than the files, MERGE never deletes | a row per key; exit status 0 means the range is there |
| dbt project | `dbt/` | views and tables computed from RAW | models, tests | the tests see all of RAW, not one window | the tests report what they say they report |
| Exploration scripts | `scripts/explore_block.py`, `scripts/summarize_dataset.py` | none | print reports | nothing | - |
| Configuration | `config.py` | constants | - | - | - |

## 2. Modules and how they correspond to the code

```
Blocks ---+-- FetchContract <...... EsploraFetch     (implements)
          |        : (network of RawStore)
          +-- BlockStore    <...... RawStore --+-- FetchBlocks
          |        :               BlockRange -+
          |        : (raw directories of ParquetBuild)
          +-- Partitions -- DerivedStore <...... ParquetBuild
                   |             : (files under the gate, the loader and dbt)
                   +-- Tables -- QualityChecks --+-- GateContract <... QualityGate
                                                 |        : (reports of SnowflakeLoad)
                                                 +-- RawTables -- Warehouse <... SnowflakeLoad
                                                                      : (RAW tables of Dbt)
                                                                  Dbt
```

A component is modelled on top of what the one before it *promises*, and the
one before it is shown to keep that promise. `EsploraFetch` implements
`FetchContract`, which is the network of `RawStore`; `RawStore` implements
`BlockStore`, which is the environment of `ParquetBuild`; `ParquetBuild`
implements `DerivedStore`, which is the environment of `QualityGate`;
`QualityGate` implements `GateContract`, which is the environment of
`SnowflakeLoad`; `SnowflakeLoad` implements `Warehouse`, which is the
environment of `Dbt`. So the pipeline is composed link by link, from one HTTP
request to the tests on top of the warehouse, without a model that has all of
it at once.

| module | stands for | state | actions |
|---|---|---|---|
| `Blocks` | block JSON, transactions, `REQUIRED_FILES`, `is_complete` | - | operators: the fetches a height can give, the directory a fetch is written as, `IsComplete` |
| `FetchContract` | what a caller of `get_block_txs` may rely on | `answer` | `Return` one of `Fetches(h)`, or `Raise` |
| `EsploraFetch` | `esplora.py` as `ingest_block` calls it | the request under way, `attempt`, hash, count, merged list, `start_index`, pages; the chain's `canon` and the history variable `cut` | the answers to each request, the 404s, a retry, giving up, and `Reorg` by the network |
| `BlockStore` | the promise of `data/raw/blocks` | `raw` | `Publish` a whole directory, `OperatorRemoves` one file or directory |
| `RawStore` | `ingest_block_range`, `ingest_block`, `write_block_atomic`, the two scripts | `raw`, and per invocation its place, height, `was_already_complete`, fetch, temporary directory, result lists, incomplete heights | one per step between two disk or network operations: the first test, the second test, the fetch, mkdtemp, each file, the rename, the final check of each height, the exit |
| `BlockRange` | `resolve_block_range` and the options of `fetch_blocks.py` | - | operators on integers of any sign: `Rejected`, `From`, `To`, and `Asked`, what the options mean |
| `FetchBlocks` | the command line in front of the range ingest | as `RawStore` | as `RawStore`, whose jobs are resolved command lines |
| `Partitions` | which part of a raw block each dataset is computed from | - | operators |
| `DerivedStore` | the promise of `data/parquet` | `raw`, `part` | `Derive` one file from a complete block, after the files of the same block that come before it, `Remove` one |
| `ParquetBuild` | `scripts/build_parquet.py`, `parquet_build.py` | `raw`, `part`, and per invocation its place, remaining heights, what it has read, the dataset it is at, staged files, result lists | height discovery, tests, the two reads, staging, COPY and rename, cleanup, exit |
| `Tables` | `flatten.py`, the DuckDB views | - | operators: the rows of each dataset with the columns checks relate, `vsize` included |
| `QualityChecks` | the 26 checks of `validate.py` that can say FAIL, and the figures of the two that count what crosses the border of the window | - | one operator per check, scoped as its query is (two for the check of inputs and outputs, which is two queries: `TxHasInput`, `TxHasOutput`); `Cleared`, what a verdict is worth |
| `GateContract` | the promise of `data/reports` | `raw`, `part`, `report` | `Write` one outcome, PASS only of a range that is cleared at that moment |
| `QualityGate` | `scripts/validate_dataset.py`, `run_validation`, the report | `raw`, `part`, `report`, and per invocation its place, window, check, verdict, figures | connect, one of the 27 queries of the checks at a time, the two counts, open and write the report, errors, and any step of `DerivedStore` |
| `RawTables` | `snowflake/setup.sql`, `key_columns`, MERGE | - | operators: the rows of a file, the natural keys, `Merge` of a table with rows |
| `Warehouse` | the promise of the RAW tables | `raw`, `part`, `table` | `Upsert` one partition of a cleared range, in one step |
| `SnowflakeLoad` | `scripts/load_snowflake.py`, `snowflake_loader.py` | `raw`, `part`, `report`, `table`, the shared `stage`, and per invocation its place, window, height, dataset, temporary table, `failed` | arguments and credentials, connect, the report, the local file test, PUT, CREATE, COPY, MERGE, DROP, the failure of any of them, and any step of `GateContract` |
| `Dbt` | the core models and tests of `dbt/` | `raw`, `part`, `table`, `core` | `BuildModel` one table from RAW, and any step of `Warehouse` |
| `BlocksProofs`, `EsploraFetchProofs`, `RawStoreProofs`, `ParquetBuildProofs`, `TablesProofs`, `QualityGateProofs`, `SnowflakeLoadProofs`, `DbtProofs` | - | - | lemmas and theorems (section 4) |

A transaction is a pair of its block and its position, so that a list of
transactions shows which block every entry is from; a block directory is a
function from file names to contents; a missing directory, file, count, option
or value is a constant of its own (`NoDir`, `NoFile`, `NoCount`, `Unset`,
`NoValue`). A table is a set of entries, a row and which copy of it, since
Snowflake enforces no key. Steps that fail have actions of their own, in the
order in which the code can reach them. `Interrupt` is Ctrl-C, which runs
`except` and `finally` clauses; `Kill` is a process that stops where it is, and
what is on disk stays there. An invocation that starts again after a crash, or
a load that is run again, is another member of `Procs`, `Builders`,
`Validators` or `Loaders`, so crash and restart are part of every run with two
of them.

### Assumptions of the models

- Single system calls are atomic: a rename, a directory creation, one
  `is_complete` test of one height, one DuckDB query, one Snowflake statement.
  (A file's *contents* are written in one step, but the process can die between
  the files, and files that are being written are never under a final name. The
  report is the exception, and is modelled in two steps.) The three files
  `is_complete` reads can only change under it if an operator deletes them.
- A crash is a crash of the process, which is what `extract.py:17-19` speaks of.
  After a loss of power nothing is promised: no file is flushed before the
  rename (listed as a hazard).
- The Esplora server may fail, time out, answer 404 or garbage, omit
  `tx_count`, and change its mind about the block at a height; a page it does
  serve is a page of the block asked for.
- `shutil.rmtree` and `unlink` of the process's own temporary files succeed.
- The `.jsonl` and the `.tmp.parquet` of a partition count as one staged file.
- Deleting `data/parquet` by hand removes the `data.parquet`, not staged files.
- A temporary table is its session's own; the stage is shared, and a PUT to a
  path replaces what is there.
- `OperatorDeletes` and `ParquetDeleted` say whether somebody deletes raw
  directories or derived files by hand. Properties that the code gives up when
  that happens are stated under the negation, and each run says which it is.
- Where raw directories are deleted, `DerivedStore` stands for builders one at a
  time: each writes the files of a block in order, from the block that is there.
  Two builders on both sides of a deletion can leave files of two blocks side by
  side. That is not shown by `DerivedStore`; the properties of the gate, the
  loader and dbt are stated without deletions, and finding 4 needs one builder.
- A PASS promises nothing of a range with a block whose count the server left
  out (`CountsKnown`): the count comparison is null there, and a short block
  cannot be told from a whole one anywhere in the program.
- A query over a file that disappears may raise at any moment (`Raise`).

## 3. Runs

`tlc -config <cfg> <module>` in this directory. Every run is exhaustive over
its instance.

| run (cfg) | instance | properties | shows |
|---|---|---|---|
| `fetch` (`MCEsploraFetch`) | one height, blocks of 4, 5 and 1 transactions, pages of 2, 3 attempts, reorganisations at any time | `MergedInOrder`, `ShortFetchIsVisible`, `OnlyNotFoundTruncates`, `PageCount`, `FetchEnds`, `RequestsRunOut`, `ImplementsContract` | pages of two blocks are never merged, a short list can be told from its count, only a 404 shortens one, retries end and every request is a step towards that end |
| `raw_store` (`MCRawStore`) | two invocations, two heights, no deletions; `fetch_block.py` with and without `--force`, `fetch_blocks.py` without options (tip 3), with `--start-height 0 --end-height 1`, and with `--start-height 1 --count 0` | `TypeOK`, `ExitZeroIsComplete`, `ResultsMatchStore`, `EveryHeightReported`, `NoTempLeak`, `AskedIsFetched`, `StepsRunOut` | exit status, lists and disk agree under races, failures, interrupts and kills, and they are about the heights the options name; no failure, race or `--force` leads to a second try |
| `raw_store_deletes` (`MCRawStoreDeletes`) | two invocations, one of them with `--force`, two blocks at height 0, an operator who deletes | `NeverOverwritten`, `ImplementsStore`, `InvocationEnds` | nothing but the operator ever changes a directory that has files, and an invocation ends whatever fails |
| `parquet_build` (`MCParquetBuild`) | two builders, one height, `--force` or not, explicit range or discovery, ingests next to them, nothing deleted | `PartitionsFresh`, `BuiltFromWhole`, `SettledMeansBuilt`, `ExitZeroMeansBuilt`, `ImplementsDerivedStore` | derived files are up to date although only their existence is ever tested, exit status 0 means the range is built, and each file is as if computed at one moment from one complete block |
| `parquet_build_deletes` (`MCParquetBuildDeletes`) | one builder; raw and derived data deleted under it | `AbandonsOnlyRows`, `BuildEnds`, `StepsRunOut` | a temporary file is left behind only where writing its rows fails or the builder is cut short, not by a failing COPY or rename; and a builder ends after a bounded number of steps |
| `quality_gate` (`MCQualityGate`) | one validation of two heights, of the second alone, or of an empty range, while blocks are ingested and built; at height 1 a sound block, one of another branch, or one without a coinbase and with a wrong fee | `TypeOK`, `PassHoldsOfTheData`, `PassMeansChain`, `PassFiguresHold`, `SpendsAddUp`, `BoundaryNeverFails`, `VerdictIgnoresTheRest`, `ImplementsGate` | PASS and the figures next to it are put together from queries at different moments and still hold of all the data; the border of the window is never a failure, and rows outside decide nothing |
| `load` (`MCSnowflakeLoad`) | two loads of one height or of an empty range, a block fetched whole or short, with or without a count, validations and builds next to them | `TypeOK`, `KeysUnique`, `ExitZeroMeansLoaded`, `ImplementsWarehouse`, `StepsRunOut` | loads that fail, are killed or run side by side over one stage never duplicate a row, never report as loaded what is not, never send a statement twice, and look like atomic upserts of cleared partitions |
| `dbt` (`MCDbt`) | two heights, a block that spends the one below, and one whose coinbase has the same txid as the one below; loads in any order, models built in any order | `GreenMeansWholeBlocks`, `TestsAgreeWithGate` | green tests mean whole blocks although the four tables are of four moments, and the tests accept what the gate accepts |
| `force_refused` (`MCRawStoreForce`) | as `raw_store` | `ForceFetchesAgain`, violated | finding 1 |
| `complete_without_count` (`MCRawStoreCounts`) | as `raw_store` | `CompleteMeansCountsEqual`, violated | finding 2 |
| `parquet_temp_files` (`MCParquetBuildTemp`) | as `parquet_build` | `NoTempFilesLeft`, violated | finding 3 |
| `load_stale_report` (`MCSnowflakeLoadStale`) | one load of a range of two heights; at the upper one a block that links to the lower one or, after a reorganisation, one that does not; raw directories deleted by hand | `OnlyClearedIsLoaded`, violated | finding 4 |

### Bounds, and why they are enough to be interesting

- *Two invocations.* Nothing in the code counts invocations; they meet only on
  a directory, a file, a stage path or a table, and a race for one needs two.
- *Two heights.* The smallest range with a height before and after a failure,
  with an order (heights are sorted), with a link from a block to the one below
  and with two blocks of one txid. Runs whose point is a race between two
  processes use one height; the theorems have any number of them.
- *Blocks of one transaction* in the stores and the loader: they distinguish
  whole from short and counted from uncounted, and a block of one transaction
  has fetches of all four kinds (0 of 1 or 1 of 1, count given or not).
- *`raw_store`:* `LastIsCounted` leaves out a block at height 1 without a count;
  the one at height 0 comes with and without.
- *Pages of 2 and blocks of 4, 5 and 1:* a multiple of the page size, not a
  multiple, and less than a page; three attempts have a first, a middle and a
  last one.
- *The gate's blocks:* one that spends an output inside the window and one
  outside it, one that does not link, one whose numbers are wrong. The window
  of height 1 alone has a predecessor on disk that is not in it.
  `BaseIsCounted` leaves out a block at height 0 without a count; the one at
  height 1 comes with and without.
- *dbt:* `BuiltFirst` leaves out loads that begin before all files are built;
  a partition that is not there cannot be loaded either way.
- *The stale report:* `FetchedWell` keeps to fetches that are whole and have
  their count, so that the violation shown is not that of finding 2, and
  `LoadedAfterwards` to loads that begin when every file of the range is the one
  of the raw block there is, so that it is not one of a load that overlaps a
  rebuild. Derived files are only overwritten, as by `--force`, never deleted.
- The only number that is not the program's is the coinbase input's output
  index: it is 2^32 - 1, beyond TLC's integers, and 65535 stands for it.
- `SYMMETRY` is used where the invocations are interchangeable, never with a
  liveness property. `CHECK_DEADLOCK FALSE` is set because the tools end.

### Fairness

`FetchEnds`, `InvocationEnds` and `BuildEnds` need that a process which is
running goes on: each tool is a single thread that waits for nothing but its
own system calls and requests. Requests have a timeout
(`REQUEST_TIMEOUT_SECONDS`), so weak fairness of the client's next step
(`Spec` of `EsploraFetch`) is what the operating system gives. `RawStore` and
`ParquetBuild` have weak fairness for the steps of each invocation that has
been started; none of them need start, failures are not assumed to stop, and
nothing is assumed of servers and operators. The gate and the loader have no
fairness and no liveness property: the gate runs a fixed list of queries once,
and the loader's statements have no timeout, so nothing in the code makes one
of them return.

`RequestsRunOut` and `StepsRunOut` are the part of termination that needs no
fairness: each step of a fetch, an invocation, a builder or a load takes
something off a number that is finite when it starts (for a builder, when it
has listed its heights) and that nobody else can raise. They are action properties, so they are proved for every instance
(section 4), the loader's included; what is left to fairness is that a step
which can be taken is taken.

## 4. Proofs

`tlapm <module>` checks them. The theorems hold for every set of heights,
blocks, windows, invocations and command lines, every content of the
transactions, every block size, page size and number of attempts. They are
proved from the assumptions named in the modules (`...Assumption`), which say
what kind of values the constants are, that a block has a transaction, that a
block does not hold one txid twice (two blocks may), and that the constants for
nothing are different from the values they stand in for. Two of them say more:

- `TipAssumption` (`Dbt`): there is a highest block. The dbt tests that mirror
  checks of the gate do so without a window, which is the window up to it.
- `ConsensusAssumption` (`QualityGate`): what Bitcoin's consensus rules make of
  every block that the constant `Forged` does not name. One coinbase, at the
  first position; no negative value; a fee that is what comes in less what goes out;
  references to outputs that exist; and no txid twice along the blocks of a
  window, which is BIP 30 (the two pairs of coinbases from before it must not be
  in one window; the `dbt` run is about such a pair). Only
  `BoundariesNeverFail` rests on it. TLC evaluates it on the blocks of
  `quality_gate`, where `Forged` is the one with the wrong fee.

| module | theorems | argument |
|---|---|---|
| `EsploraFetchProofs` | `TypeCorrect`, `MergesInOrder`, `ShortFetchesShow`, `OnlyNotFoundShortens`, `PagesCounted`, `RefinesContract` | `IInv`: the list is `FirstTxs(hash, Len(txs))`, and while a page is asked for its length is `start_index` = pages x page size. The properties do not mention `start_index`, so they are not inductive without it |
| | `RequestsAreBounded` | lexicographic: the stage of the fetch, then the page, then the attempt |
| `RawStoreProofs` | `TypeCorrect`, `NoTempLeaks`, `RefinesStore`, `NeverOverwrites` | `IInv`: where the loop variable is, and that what is renamed is the whole directory of the fetch in hand |
| | `ExitZeroMeansComplete`, `ResultsAgree` | `KeptInv`: without deletions every directory is that of one fetch for good, so every test a step made (`was_already_complete`, the final check) still holds when a later step relies on it |
| | `EveryHeightIsReported` | `Accounted`: inside the loop exactly the heights before the current one are in exactly one list |
| | `StepsAreBounded` | nine steps for each height of the range (eight in the loop, one in the final check) and two more, counted down; from `IInv`, which says where the loop variable is |
| `RawStoreProofs`, over `FetchBlocks` | `CountedRangesTile`, `DepthIsKept` | arithmetic over all integers: ranges by `--count` leave no gap and no overlap, and a range from the tip keeps its depth as the chain grows |
| | `AskedHeightsAreFetched` | the range resolved is the set of heights asked for; the rest is `EveryHeightIsReported` and `ExitZeroMeansComplete` |
| `ParquetBuildProofs` | `TypeCorrect`, `OnlyRowsAreAbandoned` | `IInv`: what a builder holds at which step; a step abandons no file but the one at hand |
| | `PartitionsAreFresh`, `BuildsFromWholeBlocks`, `RefinesDerivedStore` | `KeptInv`: a block found complete stays, so the two reads are of it, and every file is derived from it. `PartitionsAreFresh` holds with deletions of `data/parquet` too. The refinement also takes `BuiltInv`, for the order of the files |
| | `SettledIsBuilt`, `ExitZeroIsBuilt` | `BuiltInv`: the files of a height before the one at hand exist, and files stay |
| | `StepsAreBounded` | 21 steps for each height of the list and two more; `TodoInv`: the list is finite, because only finitely many directories are ever there to be discovered |
| `QualityGateProofs` (lemmas in `TablesProofs`) | `VerdictsIgnoreTheRest` | check by check: a join that is not limited to the window can still only match rows that are in it, because its condition names their height |
| | `PassIsAboutTheData`, `RefinesGate` | `KeptInv`: after query n the datasets in `PinnedBy(n)` are complete in the window, and files that exist stay as they are, so each check that has passed (`Passed`) keeps holding. It needs the order of the checks: those that notice a missing file come before those that pass on it vacuously |
| | `PassIsAChain` | from the above: the count check makes a block whole, and the linkage check compares each with the one below |
| | `FiguresHold` | `FiguresInv`: by the time the figures are counted, the partitions they are counted over are pinned |
| | `SpendsAgree` | `InsideIsSpent`: on data that passes, an input that spends inside the window and the output it spends determine each other, a bijection, so the two sets that the two queries count are of one size |
| | `BoundariesNeverFail` | `PartsPlaced`: the file of a height holds a block of that height, so the window's rows are those of a chain of whole blocks (`SoundIsWhole`); on a chain txids are distinct, hence a join by txid meets the rows of its own transaction only; the 26 checks then follow one by one from `ConsensusAssumption` |
| `SnowflakeLoadProofs` | `TypeCorrect`, `KeysStayUnique` | `IInv`: a temporary table holds the rows of one file, which have distinct keys; MERGE keeps keys unique whatever was there |
| | `RefinesWarehouse` | `KeptInv`: what is in the stage and in a temporary table is what the partition still says, whoever put it there, and the range is still cleared when the MERGE is made |
| | `ExitZeroIsLoaded` | `LoadedInv`: as long as nothing has failed, every partition the load is through with is in the table, and MERGEs of others, of other heights too, keep it there; two heights of one cleared range have no txid in common |
| | `StepsAreBounded` | 24 steps for each height (a test and five statements for each of four files) and three more |
| `DbtProofs` | `TypeCorrect` | `IInv`: what RAW and the core models hold are rows of files of the right dataset |
| | `GreenIsWhole` | `KeptInv`: without deletions every row in RAW and in core is in a file that is still there. A block that counts n transactions has n rows in core by the count test, keys are unique, so they are all its rows and none has gone to another height |
| | `GateIsEnough` | loaded in full and alone, the four tables are the window's rows, and each test follows from a check of the gate: `Relationships` from referential integrity, the counts from the count check, and so on |

`RefinesDerivedStore`, `RefinesGate` and `RefinesWarehouse` assume
`~OperatorDeletes` (the last two `~ParquetDeleted` too): with deletions a
builder can hold rows of a directory that is gone when it renames the file, and
a PASS can be of files that are gone when it is written.
A refinement theorem about `GateContract` or `Warehouse` meets the operators of
`QualityChecks` a second time, under the instance's name; the `Same...` lemmas
say that they are the same.

The type invariants of `EsploraFetch`, `ParquetBuild` and `Dbt` are proved and
have no run: `TypeCorrect` says more than an instance could.

Only model-checked: what `FetchEnds`, `InvocationEnds` and `BuildEnds` say beyond
`RequestsRunOut` and `StepsRunOut`, and the fairness half of
`ImplementsContract` (`RefinesContract` is its safety half). They need reasoning
about ENABLED, which the prover does not do.

## 5. Where code and documentation differ

1. **`--force` cannot fetch a block again** (`force_refused`). `os.replace`
   cannot rename a directory onto one that holds files, so `ingest_block` with
   `force` fetches everything and then raises, for a complete directory and
   for an incomplete one. `scripts/fetch_block.py:9` and `:45` and
   `README.md:86` promise a re-fetch. The old directory stays as it is.
2. **A block without a reported count counts as complete**
   (`complete_without_count`). `extract.py:63` compares the counts only if one
   was reported; `README.md:99` states the comparison without that condition.
3. **A failed write of the rows leaves a file** (`parquet_temp_files`). The
   rows go to a `NamedTemporaryFile(delete=False)` before the `try` whose
   `finally` removes it; the docstring at `parquet_build.py:50` says that a
   failure at any point leaves no temp files behind.
4. **A report outlives the data it is about** (`load_stale_report`).
   `load_validation_report` (`snowflake_loader.py:93`) looks at the range and
   the status of the report and at nothing that ties it to the partitions there
   are now; its docstring (82-84) calls it the enforcement point for never
   loading a dataset that has not cleared the gate. After the upper
   block of a range is deleted by hand and fetched again on another branch, and
   everything is rebuilt, `chain_linkage_internal` fails on the range, and the
   old PASS lets a load of it through. Where nothing is deleted by hand the
   statement holds (`ImplementsWarehouse`).

Noted while modelling, without a run:

- `dbt/tests/assert_one_coinbase_per_block.sql:1` says that it fails for a block
  without exactly one coinbase; because of its `where is_coinbase` a block with
  none forms no group and is not reported. Other tests catch the block
  (`GreenMeansWholeBlocks` holds).
- `dbt/models/staging/_staging.yml:15` refers to chain-linkage tests on the
  core blocks model; there are none. What links the blocks is the gate.
- Nothing checks that an output is spent only once. The join that counts the
  outputs has a row per spending input; the two figures agree in `SpendsAddUp`
  because both queries count it so.

## 6. What is not modelled

- *Exploration scripts* (`explore_block.py`, `summarize_dataset.py`): they read
  and print, and change no state.
- *Configuration*: paths, URLs and delays. Page size, attempts, the default
  count and the default depth are constants of the modules.
- *Waiting between retries*, log lines, terminal output.
- *The five checks of the gate that only say WARN or EXPECTED_BOUNDARY and
  count nothing at the border*, the size statistics and the samples of the
  report: they decide nothing and are related to nothing.
- *Column contents* that no check or test relates to anything (scripts,
  addresses, nonces), `LOADED_AT`, `SOURCE_FILE_NAME`, the casts of the staging
  views, and the dbt tests of such columns.
- *A dbt build that fails* leaves the table of the build before, which is a
  build that was made earlier.
- *Liveness of the loader and the gate* (section 3, Fairness).
- *A loss of power*: what a file system keeps of files that were not flushed is
  outside the code.

What no property covers, and why, is listed with the hazards in `PROJECT.json`.

## 7. Plan

Done: the whole pipeline from the request to the dbt tests is modelled and
checked, each link against the contract of the one before, and every safety
and action property that a passing run checks is proved for every instance.

1. The end-to-end statement that the links add up to: what is in RAW at exit
   status 0 of a load was, row by row, in a block that one fetch returned whole.
   Each link is proved; the composition is so far only by the README's argument.
2. The refinements under deletions: `RefinesDerivedStore`, `RefinesGate` and
   `RefinesWarehouse` hold step by step for all heights that nobody deletes, not
   only for runs in which nothing is deleted.
3. A step bound for the gate, like `StepsRunOut`.
