------------------------------- MODULE RawStore -------------------------------
(***************************************************************************)
(* Invocations of scripts/fetch_block.py and scripts/fetch_blocks.py that  *)
(* run side by side or one after the other on one data/raw/blocks: the     *)
(* range loop (ingest_block_range), the skip tests, the atomic directory   *)
(* write (write_block_atomic) and the check that decides the exit status.  *)
(* The network is a FetchContract: a fetch raises or returns one of        *)
(* Fetches(h).  Disk operations fail, an invocation is interrupted from    *)
(* the keyboard or killed, and an operator may delete directories.         *)
(***************************************************************************)
EXTENDS Blocks, FiniteSets

CONSTANTS
    Procs,              \* the invocations, each of which runs once
    Jobs,               \* the command lines, resolved to a range of heights
    NoFetch,            \* nothing fetched yet
    OperatorDeletes     \* whether an operator ever deletes a directory

Tools == {"fetch_block", "fetch_blocks"}

HeightsOf(job) == job.lo..job.hi

ASSUME JobsAssumption ==
    \A job \in Jobs :
        /\ job \in [tool : Tools, lo : Nat, hi : Nat, force : BOOLEAN]
        /\ HeightsOf(job) \subseteq Heights
        /\ job.tool = "fetch_block" => job.lo = job.hi
ASSUME NoFetchAssumption == \A h \in Heights : NoFetch \notin Fetches(h)

VARIABLES
    raw,        \* raw[h]: the block directory of height h
    pc,         \* what the invocation does next, or how it ended
    job,        \* its command line
    at,         \* the height its loop is at
    was,        \* was_already_complete
    got,        \* what it has fetched for that height
    tmp,        \* its temporary directory
    result,     \* BlockRangeResult
    incomplete  \* the heights the final check found incomplete

Store == INSTANCE BlockStore

vars == <<raw, pc, job, at, was, got, tmp, result, incomplete>>

Ended == {"exit0", "exit1", "interrupted", "killed"}
Running == {"check", "ingest", "fetch", "mkdtemp", "write", "replace", "verify"}
Reasons == {"network", "disk", "not empty"}

TypeOK ==
    /\ DOMAIN raw = Heights
    /\ \A h \in Heights : raw[h] \in DirectoriesAt(h) \cup {NoDir}
    /\ pc \in [Procs -> {"start"} \cup Running \cup Ended]
    /\ job \in [Procs -> Jobs]
    /\ at \in [Procs -> Nat]
    /\ was \in [Procs -> BOOLEAN]
    /\ DOMAIN got = Procs
    /\ \A p \in Procs : got[p] # NoFetch => got[p] \in Fetches(at[p])
    /\ DOMAIN tmp = Procs
    /\ \A p \in Procs : tmp[p] # NoDir =>
          \E files \in SUBSET RequiredFiles : tmp[p] = Part(got[p], files)
    /\ result \in [Procs -> [fetched : SUBSET Heights, skipped : SUBSET Heights,
                             failed : SUBSET (Heights \X Reasons)]]
    /\ incomplete \in [Procs -> SUBSET Heights]

Init ==
    /\ raw = [h \in Heights |-> NoDir]
    /\ job \in [Procs -> Jobs]
    /\ pc = [p \in Procs |-> "start"]
    /\ at = [p \in Procs |-> job[p].lo]
    /\ was = [p \in Procs |-> FALSE]
    /\ got = [p \in Procs |-> NoFetch]
    /\ tmp = [p \in Procs |-> NoDir]
    /\ result = [p \in Procs |-> [fetched |-> {}, skipped |-> {}, failed |-> {}]]
    /\ incomplete = [p \in Procs |-> {}]

-----------------------------------------------------------------------------
(* How one height ends.                                                    *)

Goto(p, label) == pc' = [pc EXCEPT ![p] = label]

\* A loop that stops at the first height that fails.
MoreHeightsUnlessFailed(p, exit) == at[p] < job[p].hi /\ exit = "exit0"

MoreHeights(p, exit) == at[p] < job[p].hi

\* A loop that comes back to a height that failed.
RetryFailedHeight(p, exit) == IF exit = "exit0" THEN at[p] + 1 ELSE at[p]

NextHeight(p, exit) == at[p] + 1

\* fetch_block ends with its one height; fetch_blocks goes on to the next
\* height, or to its final check, whatever the outcome was.
Advance(p, exit) ==
    /\ IF job[p].tool = "fetch_block"
       THEN Goto(p, exit) /\ UNCHANGED at
       ELSE IF MoreHeights(p, exit)
       THEN Goto(p, "check") /\ at' = [at EXCEPT ![p] = NextHeight(p, exit)]
       ELSE Goto(p, "verify") /\ at' = [at EXCEPT ![p] = job[p].lo]
    /\ got' = [got EXCEPT ![p] = NoFetch]
    /\ tmp' = [tmp EXCEPT ![p] = NoDir]

\* ingest_block returned: by the test of line 215, not by what it did.
Succeed(p) ==
    /\ result' = IF was[p]
                 THEN [result EXCEPT ![p].skipped = @ \cup {at[p]}]
                 ELSE [result EXCEPT ![p].fetched = @ \cup {at[p]}]
    /\ Advance(p, "exit0")

\* ingest_block raised: fetch_block dies of it, fetch_blocks records it.
Fail(p, reason) ==
    /\ result' = [result EXCEPT ![p].failed = @ \cup {<<at[p], reason>>}]
    /\ Advance(p, "exit1")

-----------------------------------------------------------------------------
(* Command line and skip tests.                                            *)

\* An empty range (--count 0) has nothing to ingest.
Start(p) ==
    /\ pc[p] = "start"
    /\ Goto(p, IF HeightsOf(job[p]) = {} THEN "verify" ELSE "check")
    /\ UNCHANGED <<raw, job, at, was, got, tmp, result, incomplete>>

\* The tip is unavailable, or the arguments contradict each other.
StartFails(p) ==
    /\ pc[p] = "start"
    /\ Goto(p, "exit1")
    /\ UNCHANGED <<raw, job, at, was, got, tmp, result, incomplete>>

\* Whatever directory there is.
AlreadyThere(p) == ~job[p].force /\ raw[at[p]] # NoDir

AlreadyComplete(p) == ~job[p].force /\ IsComplete(raw[at[p]])

\* fetch_block's own test, and was_already_complete of the range loop.
Check(p) ==
    /\ pc[p] = "check"
    /\ was' = [was EXCEPT ![p] = AlreadyComplete(p)]
    /\ Goto(p, IF job[p].tool = "fetch_block" /\ AlreadyComplete(p)
               THEN "exit0" ELSE "ingest")
    /\ UNCHANGED <<raw, job, at, got, tmp, result, incomplete>>

\* ingest_block looks at the directory a second time.
IngestSkips(p) ==
    /\ pc[p] = "ingest"
    /\ AlreadyComplete(p)
    /\ Succeed(p)
    /\ UNCHANGED <<raw, job, was, incomplete>>

IngestStarts(p) ==
    /\ pc[p] = "ingest"
    /\ ~AlreadyComplete(p)
    /\ Goto(p, "fetch")
    /\ UNCHANGED <<raw, job, at, was, got, tmp, result, incomplete>>

-----------------------------------------------------------------------------
(* Network.                                                                *)

\* A loop that passes on the first height of the range every time.
FirstHeight(p) == job[p].lo

\* The height ingest_block is called with.
ThisHeight(p) == at[p]

FetchReturns(p) ==
    /\ pc[p] = "fetch"
    /\ \E f \in Fetches(ThisHeight(p)) : got' = [got EXCEPT ![p] = f]
    /\ Goto(p, "mkdtemp")
    /\ UNCHANGED <<raw, job, at, was, tmp, result, incomplete>>

FetchRaises(p) ==
    /\ pc[p] = "fetch"
    /\ Fail(p, "network")
    /\ UNCHANGED <<raw, job, was, incomplete>>

-----------------------------------------------------------------------------
(* write_block_atomic.                                                     *)

MakeTemp(p) ==
    /\ pc[p] = "mkdtemp"
    /\ tmp' = [tmp EXCEPT ![p] = Part(got[p], {})]
    /\ Goto(p, "write")
    /\ UNCHANGED <<raw, job, at, was, got, result, incomplete>>

MakeTempFails(p) ==
    /\ pc[p] = "mkdtemp"
    /\ Fail(p, "disk")
    /\ UNCHANGED <<raw, job, was, incomplete>>

\* A rename before the metadata is written.
WrittenWithoutMeta(files) == {BlockJson, TxsJsonl} \subseteq files

AllWritten(files) == files = RequiredFiles

WriteFile(p) ==
    /\ pc[p] = "write"
    /\ \E file \in RequiredFiles \ DOMAIN tmp[p] :
         LET files == DOMAIN tmp[p] \cup {file}
         IN  /\ WrittenBefore(file) \subseteq DOMAIN tmp[p]
             /\ tmp' = [tmp EXCEPT ![p] = Part(got[p], files)]
             /\ Goto(p, IF AllWritten(files) THEN "replace" ELSE "write")
    /\ UNCHANGED <<raw, job, at, was, got, result, incomplete>>

\* The temporary directory is removed before the error goes up.
WriteFails(p) ==
    /\ pc[p] = "write"
    /\ Fail(p, "disk")
    /\ UNCHANGED <<raw, job, was, incomplete>>

\* A rename that removes what is there first.
ReplacesAnything(dir) == TRUE

\* os.replace renames a directory over nothing or over an empty directory.
CanReplace(dir) == dir # NoDir => DOMAIN dir = {}

Replace(p) ==
    /\ pc[p] = "replace"
    /\ CanReplace(raw[at[p]])
    /\ raw' = [raw EXCEPT ![at[p]] = tmp[p]]
    /\ Succeed(p)
    /\ UNCHANGED <<job, was, incomplete>>

\* ... and over a directory that holds files it raises ENOTEMPTY.
ReplaceRefused(p) ==
    /\ pc[p] = "replace"
    /\ ~CanReplace(raw[at[p]])
    /\ Fail(p, "not empty")
    /\ UNCHANGED <<raw, job, was, incomplete>>

-----------------------------------------------------------------------------
(* The final check of fetch_blocks.                                        *)

\* A check that waits for other invocations to complete the height.
AwaitHeight(p) ==
    /\ pc[p] = "verify"
    /\ at[p] <= job[p].hi
    /\ IsComplete(raw[at[p]])
    /\ at' = [at EXCEPT ![p] = @ + 1]
    /\ UNCHANGED <<raw, pc, job, was, got, tmp, result, incomplete>>

VerifyHeight(p) ==
    /\ pc[p] = "verify"
    /\ at[p] <= job[p].hi
    /\ incomplete' = IF IsComplete(raw[at[p]]) THEN incomplete
                     ELSE [incomplete EXCEPT ![p] = @ \cup {at[p]}]
    /\ at' = [at EXCEPT ![p] = @ + 1]
    /\ UNCHANGED <<raw, pc, job, was, got, tmp, result>>

\* The exit status from result.is_complete instead of from the disk.
ExitCodeOfResult(p) == IF result[p].failed = {} THEN "exit0" ELSE "exit1"

ExitCode(p) == IF incomplete[p] = {} THEN "exit0" ELSE "exit1"

Exit(p) ==
    /\ pc[p] = "verify"
    /\ at[p] > job[p].hi
    /\ Goto(p, ExitCode(p))
    /\ UNCHANGED <<raw, job, at, was, got, tmp, result, incomplete>>

-----------------------------------------------------------------------------
(* Interruptions.                                                          *)

\* "except Exception" around the write.
AfterUncaughtInterrupt(dir) == {dir}

\* What can be left of the temporary directory after a KeyboardInterrupt,
\* which the handler of ingest_block_range does not catch but the one of
\* write_block_atomic does: nothing, except when it comes between mkdtemp
\* and the try and leaves the directory empty.
AfterInterrupt(dir) ==
    {NoDir} \cup (IF dir # NoDir /\ DOMAIN dir = {} THEN {dir} ELSE {})

Interrupt(p) ==
    /\ pc[p] \in Running
    /\ Goto(p, "interrupted")
    /\ \E dir \in AfterInterrupt(tmp[p]) : tmp' = [tmp EXCEPT ![p] = dir]
    /\ UNCHANGED <<raw, job, at, was, got, result, incomplete>>

Kill(p) ==
    /\ pc[p] \in Running
    /\ Goto(p, "killed")
    /\ UNCHANGED <<raw, job, at, was, got, tmp, result, incomplete>>

\* rm -r by hand, as BlockStore has it.
OperatorRemoves(h) ==
    /\ Store!OperatorRemoves(h)
    /\ UNCHANGED <<pc, job, at, was, got, tmp, result, incomplete>>

-----------------------------------------------------------------------------
Step(p) ==
    \/ Start(p) \/ StartFails(p) \/ Check(p)
    \/ IngestSkips(p) \/ IngestStarts(p)
    \/ FetchReturns(p) \/ FetchRaises(p)
    \/ MakeTemp(p) \/ MakeTempFails(p) \/ WriteFile(p) \/ WriteFails(p)
    \/ Replace(p) \/ ReplaceRefused(p)
    \/ VerifyHeight(p) \/ Exit(p)

Next ==
    \/ \E p \in Procs : Step(p) \/ Interrupt(p) \/ Kill(p)
    \/ \E h \in Heights : OperatorRemoves(h)

SafeSpec == Init /\ [][Next]_vars

\* The scheduler runs every invocation that was started until it ends, and
\* a fetch ends (FetchContract): an invocation never waits for another.
Spec == SafeSpec /\ \A p \in Procs : WF_vars(pc[p] # "start" /\ Step(p))

-----------------------------------------------------------------------------
(* Properties.                                                             *)

\* The directory of h holds three files of one fetch and, as far as the
\* server said how many there are, all the transactions of its block.
HoldsBlock(h) ==
    /\ raw[h] # NoDir
    /\ DOMAIN raw[h] = RequiredFiles
    /\ raw[h][BlockJson].reported # NoCount =>
          raw[h][TxsJsonl] = BlockTxs(raw[h][BlockJson].hash)

\* Exit status 0 of fetch_blocks means that every block of the range is on
\* disk in full, whoever wrote it and whatever else failed (fetch_blocks.py,
\* the final check), as long as nobody deletes directories meanwhile.
ExitZeroIsComplete ==
    ~OperatorDeletes =>
        \A p \in Procs :
            pc[p] = "exit0" /\ job[p].tool = "fetch_blocks" =>
                \A h \in HeightsOf(job[p]) : HoldsBlock(h)

\* What an invocation reports of a height agrees with the disk, although
\* the list is chosen by a test made before the ingest: skipped heights are
\* complete, fetched ones have a directory, and a rename is refused only
\* where there is one (ingest_block_range, lines 215 to 223).
ResultsMatchStore ==
    ~OperatorDeletes =>
        \A p \in Procs :
            /\ \A h \in result[p].skipped : HoldsBlock(h)
            /\ \A h \in result[p].fetched : raw[h] # NoDir
            /\ \A h \in Heights :
                  <<h, "not empty">> \in result[p].failed => raw[h] # NoDir

FailedHeights(p) == {h \in Heights : \E r \in Reasons : <<h, r>> \in result[p].failed}

ReportedHeights(p) == result[p].fetched \cup result[p].skipped \cup FailedHeights(p)

ListsDisjoint(p) ==
    /\ result[p].fetched \cap result[p].skipped = {}
    /\ (result[p].fetched \cup result[p].skipped) \cap FailedHeights(p) = {}

\* When the range loop is over every height is in exactly one of the three
\* lists: no failure at one height keeps another from being tried, and no
\* height is tried twice (ingest_block_range).
EveryHeightReported ==
    \A p \in Procs : pc[p] = "verify" =>
        ReportedHeights(p) = HeightsOf(job[p]) /\ ListsDisjoint(p)

\* Only an invocation that was killed leaves files in a temporary directory;
\* an error at any point of the write removes it, and a KeyboardInterrupt
\* leaves at most an empty one (write_block_atomic's except BaseException).
NoTempLeak ==
    \A p \in Procs : tmp[p] # NoDir =>
        \/ pc[p] \in {"write", "replace", "killed"}
        \/ pc[p] = "interrupted" /\ DOMAIN tmp[p] = {}

\* A directory with files in it is never written again, not even by --force
\* or by an invocation that lost a race: it only ever loses files to an
\* operator.  parquet_partitions_complete rests on it.
NeverOverwritten ==
    [][\A h \in Heights : raw[h] # NoDir /\ DOMAIN raw[h] # {} =>
           /\ raw'[h] # NoDir
           /\ DOMAIN raw'[h] \subseteq DOMAIN raw[h]
           /\ \A file \in DOMAIN raw'[h] : raw'[h][file] = raw[h][file]]_raw

\* Everything the invocations do to the disk is what BlockStore promises:
\* whole directories of one fetch appear in one step and never change.
ImplementsStore == Store!Spec

\* An invocation that was started ends: no failure makes it loop or wait.
InvocationEnds ==
    \A p \in Procs : pc[p] \in Running ~> pc[p] \in Ended

-----------------------------------------------------------------------------
(* How many steps an invocation can still make.                            *)

Working == {"check", "ingest", "fetch", "mkdtemp", "write", "replace"}

own(p) == <<pc[p], at[p], was[p], got[p], tmp[p], result[p], incomplete[p]>>

\* How many heights of the range there are from h on.
HeightsFrom(p, h) == IF h <= job[p].hi THEN job[p].hi - h + 1 ELSE 0

\* Eight for a height: two tests, the fetch, mkdtemp, three files, the rename.
StepsAtHeight(p) ==
    CASE pc[p] = "check"   -> 8
      [] pc[p] = "ingest"  -> 7
      [] pc[p] = "fetch"   -> 6
      [] pc[p] = "mkdtemp" -> 5
      [] pc[p] = "write"   -> 1 + Cardinality(RequiredFiles \ DOMAIN tmp[p])
      [] pc[p] = "replace" -> 1

\* One more for the final check of each height, one to start, one to exit.
StepsLeft(p) ==
    CASE pc[p] = "start"    -> 9 * HeightsFrom(p, job[p].lo) + 2
      [] pc[p] \in Working -> StepsAtHeight(p) + 8 * HeightsFrom(p, at[p] + 1)
                                 + HeightsFrom(p, job[p].lo) + 1
      [] pc[p] = "verify"   -> HeightsFrom(p, at[p]) + 1
      [] pc[p] \in Ended    -> 0

\* Whatever fails and whatever the others do, an invocation never goes back:
\* each of its steps takes one off the number it can still make, which its
\* range alone decides, and no step of another adds to it.  No error leads
\* to a second try at a height, and neither a race nor --force to a loop
\* (ingest_block_range, lines 210 to 227).
StepsRunOut ==
    [][\A p \in Procs :
           IF own(p)' = own(p) THEN StepsLeft(p)' = StepsLeft(p)
           ELSE StepsLeft(p)' \in 0..(StepsLeft(p) - 1)]_vars

-----------------------------------------------------------------------------
(* The inductive invariant behind TypeOK, NoTempLeak, NeverOverwritten and *)
(* ImplementsStore, and StepsRunOut.                                       *)

\* Where the loop variable is.
Placed(p) ==
    /\ pc[p] = "start" => at[p] = job[p].lo
    /\ pc[p] = "verify" => job[p].lo <= at[p]
    /\ pc[p] \in Working => at[p] \in HeightsOf(job[p])

\* What it holds for the height it is at.
Holding(p) ==
    /\ got[p] # NoFetch =>
          pc[p] \in {"mkdtemp", "write", "replace", "interrupted", "killed"}
    /\ pc[p] \in {"mkdtemp", "write", "replace"} => got[p] # NoFetch
    /\ tmp[p] # NoDir =>
          \/ pc[p] \in {"write", "replace", "killed"}
          \/ pc[p] = "interrupted" /\ DOMAIN tmp[p] = {}
    /\ pc[p] = "write" => tmp[p] # NoDir
    /\ pc[p] = "replace" => tmp[p] = Directory(got[p])

IInv == TypeOK /\ \A p \in Procs : Placed(p) /\ Holding(p)

-----------------------------------------------------------------------------
(* The invariant behind ExitZeroIsComplete and ResultsMatchStore: without  *)
(* deletions a directory, once there, is there for good, so what a step    *)
(* found on disk still holds when a later one relies on it.                *)

StoredWhole(h) ==
    raw[h] # NoDir => \E f \in Fetches(h) : raw[h] = Directory(f)

\* A height was_already_complete was true of is skipped, never fetched.
SkipTest(p) ==
    was[p] =>
        /\ pc[p] = "ingest" => AlreadyComplete(p)
        /\ pc[p] \notin {"fetch", "mkdtemp", "write", "replace"}

Reported(p) ==
    /\ \A h \in result[p].skipped : IsComplete(raw[h])
    /\ \A h \in result[p].fetched : raw[h] # NoDir
    /\ \A h \in Heights : <<h, "not empty">> \in result[p].failed => raw[h] # NoDir

Verified(p) ==
    /\ pc[p] = "verify" =>
          \A h \in HeightsOf(job[p]) :
              h < at[p] => h \in incomplete[p] \/ IsComplete(raw[h])
    /\ pc[p] = "exit0" /\ job[p].tool = "fetch_blocks" =>
          \A h \in HeightsOf(job[p]) : IsComplete(raw[h])

KeptInv ==
    ~OperatorDeletes =>
        /\ \A h \in Heights : StoredWhole(h)
        /\ \A p \in Procs : SkipTest(p) /\ Reported(p) /\ Verified(p)

\* The invariant behind EveryHeightReported: inside the loop exactly the
\* heights before the current one have been reported.
Accounted(p) ==
    /\ pc[p] = "start" => ReportedHeights(p) = {}
    /\ pc[p] \in Working => ReportedHeights(p) = {h \in HeightsOf(job[p]) : h < at[p]}
    /\ pc[p] = "verify" => ReportedHeights(p) = HeightsOf(job[p])
    /\ pc[p] \in Working \cup {"start", "verify"} => ListsDisjoint(p)

-----------------------------------------------------------------------------
(* Claims of the documentation that the code does not keep.                *)

\* fetch_block.py:9 and :45, README.md:28 and :86: --force fetches again
\* what is already there.
ForceFetchesAgain ==
    \A p \in Procs : job[p].force =>
        \A h \in Heights : <<h, "not empty">> \notin result[p].failed

\* README.md:99: "a block only counts as complete if tx_count_fetched
\* == tx_count_reported".
CompleteMeansCountsEqual ==
    \A h \in Heights : IsComplete(raw[h]) =>
        raw[h][MetaJson].fetched = raw[h][MetaJson].reported

=============================================================================
