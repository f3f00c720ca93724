----------------------------- MODULE QualityGate -----------------------------
(***************************************************************************)
(* Invocations of scripts/validate_dataset.py over data/parquet, while     *)
(* blocks are ingested and partitions are built: every check is a query of *)
(* its own, and the report is written at the end.  The files behave as     *)
(* DerivedStore says, which ParquetBuild implements.                       *)
(***************************************************************************)
EXTENDS QualityChecks

CONSTANTS
    Validators,         \* the invocations, each of which runs once
    Forged,             \* the blocks of which the server tells wrong numbers
    OperatorDeletes,    \* whether an operator ever deletes a raw directory
    ParquetDeleted      \* whether an operator ever deletes a data.parquet

\* What the rules of Bitcoin promise of a block that the server tells
\* rightly: its first transaction is the coinbase and no other is, nothing is
\* worth less than nothing, and the fee is what the inputs are worth less
\* what the outputs are.
ToldRightly(b) ==
    \A i \in 1..Size[b] :
        LET tx == Tx[b][i]
        IN  /\ Len(tx.vin) > 0 /\ Len(tx.vout) > 0
            /\ \A j \in DOMAIN tx.vin :
                  /\ tx.vin[j].coinbase <=> i = 1
                  /\ i # 1 => NoValue \notin {tx.vin[j].txid, tx.vin[j].vout}
                  /\ tx.vin[j].value # NoValue => tx.vin[j].value >= 0
            /\ \A j \in DOMAIN tx.vout : tx.vout[j] >= 0
            /\ tx.size > 0 /\ tx.weight > 0 /\ tx.weight <= 4 * tx.size
            /\ i # 1 => tx.fee >= 0
            /\ i # 1 /\ (\A j \in DOMAIN tx.vin : tx.vin[j].value # NoValue) =>
                  \A h \in Heights :
                      tx.fee = ValueOf(FlattenInputs(h, << <<b, i>> >>))
                               - ValueOf(FlattenOutputs(h, << <<b, i>> >>))

\* The blocks at the heights of w, one on top of the other.
Chains(w) ==
    {c \in [w.lo..w.hi -> Hashes \ Forged] :
        /\ \A h \in w.lo..w.hi : c[h] \in HashesAt[h]
        /\ \A h \in (w.lo + 1)..w.hi : Prev[c[h]] = c[h - 1]}

PositionsIn(c) == UNION {{h} \X (1..Size[c[h]]) : h \in DOMAIN c}

TxAt(c, p) == Tx[c[p[1]]][p[2]]

\* On one chain no two transactions have one txid (BIP 30; the two pairs of
\* coinbases from before it must not be in one range), and an input spends an
\* output that there is.
ConsistentChain(c) ==
    \A p, q \in PositionsIn(c) :
        /\ TxAt(c, p).txid = TxAt(c, q).txid => p = q
        /\ \A j \in DOMAIN TxAt(c, p).vin :
             LET in == TxAt(c, p).vin[j]
             IN  ~in.coinbase /\ in.txid = TxAt(c, q).txid =>
                    in.vout + 1 \in DOMAIN TxAt(c, q).vout

ASSUME ConsensusAssumption ==
    /\ \A b \in Hashes \ Forged : ToldRightly(b)
    /\ \A w \in Windows : \A c \in Chains(w) : ConsistentChain(c)

VARIABLES
    raw,        \* raw[h]: the block directory of height h
    part,       \* part[d][h]: data.parquet of dataset d and height h
    pc,         \* what the invocation does next, or how it ended
    window,     \* the range it is asked for
    nth,        \* the query of the checks it is at
    failed,     \* whether a check has failed
    figures,    \* what it has counted at the border of the window
    report      \* report[w]: what validation_<lo>-<hi>.json holds

Gate == INSTANCE GateContract
Derived == INSTANCE DerivedStore

files == <<raw, part>>
local == <<pc, window, nth, failed, figures>>
vars == <<files, local, report>>

Checking == {"checks", "inputs", "outputs"}
Ended == {"exit0", "exit1", "exit2", "killed"}

\* The queries of deciding checks before foreign_input_references.
BeforeForeign == 17

NoFigures == [inputs |-> "none", outputs |-> "none"]

TypeOK ==
    /\ DOMAIN raw = Heights
    /\ \A h \in Heights : raw[h] \in DirectoriesAt(h) \cup {NoDir}
    /\ DOMAIN part = Datasets
    /\ \A d \in Datasets : part[d] \in [Heights -> RowSet(d) \cup {NoFile}]
    /\ pc \in [Validators -> {"start", "open", "write"} \cup Checking \cup Ended]
    /\ window \in [Validators -> Windows]
    /\ nth \in [Validators -> 1..(NumChecks + 1)]
    /\ failed \in [Validators -> BOOLEAN]
    /\ DOMAIN figures = Validators
    /\ \A v \in Validators : DOMAIN figures[v] = {"inputs", "outputs"}
    /\ report \in [Windows -> {"none", "torn", "PASS", "FAIL"}]

Init ==
    /\ Gate!Init
    /\ pc = [v \in Validators |-> "start"]
    /\ window \in [Validators -> Windows]
    /\ nth = [v \in Validators |-> 1]
    /\ failed = [v \in Validators |-> FALSE]
    /\ figures = [v \in Validators |-> NoFigures]

Goto(v, label) == pc' = [pc EXCEPT ![v] = label]

-----------------------------------------------------------------------------
BadRange(v) ==
    /\ pc[v] = "start"
    /\ window[v].hi < window[v].lo
    /\ Goto(v, "exit2")
    /\ UNCHANGED <<files, window, nth, failed, figures, report>>

\* build_connection: a view over no file at all is an error.
Connect(v) ==
    /\ pc[v] = "start"
    /\ window[v].lo <= window[v].hi
    /\ Goto(v, IF \A d \in Datasets : Present(part, d) # {} THEN "checks" ELSE "exit1")
    /\ UNCHANGED <<files, window, nth, failed, figures, report>>

\* The checks one place on: the presence of the blocks comes last.
PresenceLast(n) == IF n = NumChecks THEN 1 ELSE n + 1

InOrder(n) == n

RunCheck(v) ==
    /\ pc[v] = "checks"
    /\ failed' = [failed EXCEPT ![v] =
          @ \/ ~Check(InOrder(nth[v]), TablesOf(part), window[v].lo, window[v].hi)]
    /\ nth' = [nth EXCEPT ![v] = @ + 1]
    /\ Goto(v, IF nth[v] = BeforeForeign THEN "inputs"
               ELSE IF nth[v] = NumChecks THEN "outputs" ELSE "checks")
    /\ UNCHANGED <<files, window, figures, report>>

\* foreign_input_references
CountInputs(v) ==
    /\ pc[v] = "inputs"
    /\ figures' = [figures EXCEPT ![v].inputs =
          InputFigures(TablesOf(part), window[v].lo, window[v].hi)]
    /\ Goto(v, "checks")
    /\ UNCHANGED <<files, window, nth, failed, report>>

\* outputs_unspent_within_window, the last one
CountOutputs(v) ==
    /\ pc[v] = "outputs"
    /\ figures' = [figures EXCEPT ![v].outputs =
          OutputFigures(TablesOf(part), window[v].lo, window[v].hi)]
    /\ Goto(v, "open")
    /\ UNCHANGED <<files, window, nth, failed, report>>

\* The results of the checks go with the process.
End(v, exit) ==
    /\ Goto(v, exit)
    /\ nth' = [nth EXCEPT ![v] = 1]
    /\ failed' = [failed EXCEPT ![v] = FALSE]
    /\ figures' = [figures EXCEPT ![v] = NoFigures]

\* A query raises (a file has gone or cannot be read), or the disk is full:
\* what has been done to the report stays done.
Raise(v) ==
    /\ pc[v] \in Checking \cup {"open", "write"}
    /\ End(v, "exit1")
    /\ UNCHANGED <<files, window, report>>

\* write_text empties the file before it fills it.
OpenReport(v) ==
    /\ pc[v] = "open"
    /\ report' = [report EXCEPT ![window[v]] = "torn"]
    /\ Goto(v, "write")
    /\ UNCHANGED <<files, window, nth, failed, figures>>

\* The worst severity there is: some check always says EXPECTED_BOUNDARY.
WorstSeverity(v) == IF failed[v] THEN "FAIL" ELSE "EXPECTED_BOUNDARY"

Status(v) == IF failed[v] THEN "FAIL" ELSE "PASS"

\* If another invocation has written the file in between, the longer of the
\* two reports sticks out.
WriteReport(v) ==
    /\ pc[v] = "write"
    /\ \E r \in {Status(v)} \cup (IF report[window[v]] = "torn" THEN {} ELSE {"torn"}) :
         report' = [report EXCEPT ![window[v]] = r]
    /\ End(v, IF Status(v) = "PASS" THEN "exit0" ELSE "exit1")
    /\ UNCHANGED <<files, window>>

Kill(v) ==
    /\ pc[v] \in Checking \cup {"open", "write"}
    /\ End(v, "killed")
    /\ UNCHANGED <<files, window, report>>

\* Blocks are ingested and partitions built or deleted meanwhile.
FilesChange == Derived!Next /\ UNCHANGED <<local, report>>

-----------------------------------------------------------------------------
Next ==
    \/ \E v \in Validators :
         \/ BadRange(v) \/ Connect(v) \/ RunCheck(v)
         \/ CountInputs(v) \/ CountOutputs(v) \/ Raise(v)
         \/ OpenReport(v) \/ WriteReport(v) \/ Kill(v)
    \/ FilesChange

Spec == Init /\ [][Next]_vars

-----------------------------------------------------------------------------
(* Properties.                                                             *)

\* Although every check sees another moment of a directory that builders are
\* filling, PASS is a statement about all of it: every partition of the
\* window is there, and every check holds of what is there now.  The checks
\* that notice a missing file come before those that pass on it vacuously
\* (the order of CHECKS).
PassHoldsOfTheData ==
    ~OperatorDeletes /\ ~ParquetDeleted =>
        \A w \in Windows : report[w] = "PASS" => Cleared(part, w)

\* The validations that are about to report PASS, on blocks with counts.
Passing(v) ==
    /\ ~OperatorDeletes /\ ~ParquetDeleted
    /\ pc[v] \in {"open", "write"} /\ ~failed[v]
    /\ CountsKnown(part, window[v])

\* The boundary metrics of a report that says PASS are those of the data it
\* says PASS of, although they are counted at two other moments
\* (run_validation, _boundary_metrics).
PassFiguresHold ==
    \A v \in Validators : Passing(v) =>
        /\ figures[v].inputs = InputFigures(TablesOf(part), window[v].lo, window[v].hi)
        /\ figures[v].outputs = OutputFigures(TablesOf(part), window[v].lo, window[v].hi)

\* In a report that says PASS the inputs that spend inside the window are as
\* many as the outputs seen spent: what the two queries call internal and
\* spent agree, which takes the checks of txids, of outputs and of internal
\* references (_check_foreign_inputs_expected_boundary,
\* _check_outputs_unspent_in_window).
SpendsAddUp ==
    \A v \in Validators : Passing(v) =>
        figures[v].inputs.total - figures[v].inputs.foreign =
        figures[v].outputs.total - figures[v].outputs.unspent

\* One query after another over files that builders add to, and a report
\* that is emptied before it is filled, are to the loader as one verdict on
\* one state of the files (GateContract).
ImplementsGate == Gate!Spec

\* PASS means that the raw blocks of the window are whole and were mined on
\* top of one another, although each was fetched on its own while the chain
\* may have reorganised (validate.py, chain linkage).
PassMeansChain ==
    ~OperatorDeletes /\ ~ParquetDeleted =>
        \A w \in Windows : report[w] = "PASS" /\ CountsKnown(part, w) =>
            /\ \A h \in w.lo..w.hi :
                  /\ raw[h] # NoDir
                  /\ raw[h][TxsJsonl] = BlockTxs(raw[h][BlockJson].hash)
            /\ \A h \in (w.lo + 1)..w.hi :
                  Prev[raw[h][BlockJson].hash] = raw[h - 1][BlockJson].hash

\* The window holds whole blocks on top of one another, none of them Forged.
SoundWindow(w) ==
    /\ PartitionsComplete(part, w)
    /\ \A h \in w.lo..w.hi :
         LET b == part["blocks"][h].hash
         IN  /\ b \notin Forged
             /\ part["transactions"][h] = [hash |-> b, txs |-> BlockTxs(b)]
             /\ part["inputs"][h] = BlockTxs(b)
             /\ part["outputs"][h] = BlockTxs(b)
    /\ \A h \in (w.lo + 1)..w.hi :
         Prev[part["blocks"][h].hash] = part["blocks"][h - 1].hash

\* What lies at the border of the window never fails the gate: inputs that
\* spend outputs of earlier blocks, on disk or not, outputs that are not
\* spent, a first block without its predecessor (validate_dataset.py:8-10).
BoundaryNeverFails ==
    \A w \in Windows : SoundWindow(w) => AllChecksPass(TablesOf(part), w.lo, w.hi)

\* "Loaded window always means exactly that range" (validate.py:8-10): the
\* verdict on any data, sound or not, is the one on the rows of the window.
VerdictIgnoresTheRest ==
    \A w \in Windows :
        LET T == TablesOf(part)
        IN  AllChecksPass(T, w.lo, w.hi) <=>
            AllChecksPass([d \in Datasets |-> In(T[d], w.lo, w.hi)], w.lo, w.hi)

-----------------------------------------------------------------------------
(* The inductive invariant behind TypeOK: where an invocation is in CHECKS *)
(* tells what it does next, and only a range that is not empty is checked. *)
(* A data.parquet stands for a block of its height, that of the raw        *)
(* directory at the time, whatever an operator has done to it since.       *)

PartsPlaced ==
    \A d \in Datasets, h \in Heights : part[d][h] # NoFile =>
        \E f \in Fetches(h) : part[d][h] = RowsOf(d, Directory(f))

IInv ==
    /\ TypeOK
    /\ PartsPlaced
    /\ \A v \in Validators :
         /\ pc[v] \in {"start", "checks"} => nth[v] <= NumChecks
         /\ pc[v] = "start" => nth[v] = 1
         /\ pc[v] = "inputs" => nth[v] = BeforeForeign + 1
         /\ pc[v] \in {"outputs", "open", "write"} => nth[v] = NumChecks + 1
         /\ pc[v] \in Checking \cup {"open", "write"} => window[v].lo <= window[v].hi

-----------------------------------------------------------------------------
(* The invariants behind PassHoldsOfTheData and PassFiguresHold: the       *)
(* checks so far have pinned down what they were about, so that they, and  *)
(* what has been counted, still hold now.                                  *)

KeptInv ==
    ~OperatorDeletes /\ ~ParquetDeleted =>
        /\ FilesKept(raw, part)
        /\ \A v \in Validators : ~failed[v] => Passed(part, nth[v] - 1, window[v])
        /\ \A w \in Windows : report[w] = "PASS" => Cleared(part, w)

FiguresKept(v) ==
    /\ nth[v] > BeforeForeign /\ pc[v] # "inputs" =>
          figures[v].inputs = InputFigures(TablesOf(part), window[v].lo, window[v].hi)
    /\ pc[v] \in {"open", "write"} =>
          figures[v].outputs = OutputFigures(TablesOf(part), window[v].lo, window[v].hi)

FiguresInv ==
    ~OperatorDeletes /\ ~ParquetDeleted =>
        \A v \in Validators :
            ~failed[v] /\ CountsKnown(part, window[v]) => FiguresKept(v)

=============================================================================
