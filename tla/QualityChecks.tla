---------------------------- MODULE QualityChecks ----------------------------
(***************************************************************************)
(* The checks of validate.py whose severity can be FAIL, each as the       *)
(* condition under which its query returns no row, for tables T and a      *)
(* window lo..hi.  The joins are scoped as the queries scope them: what is *)
(* not wrapped in In is not limited to the window there either.  A         *)
(* comparison with null is neither true nor false and so never a           *)
(* violation.                                                              *)
(*                                                                         *)
(* Seven more only ever say WARN or EXPECTED_BOUNDARY and decide nothing.  *)
(* Of these the two that count what crosses the border of the window are   *)
(* at the end; the other five are related to nothing and left out.         *)
(***************************************************************************)
EXTENDS Tables, FiniteSetsExt

CONSTANT Windows    \* the ranges that are asked for on the command lines

\* lo > hi is an error of the command line.
ASSUME WindowsAssumption ==
    \A w \in Windows : w \in [lo : Nat, hi : Nat] /\ w.lo..w.hi \subseteq Heights

\* block_height BETWEEN lo AND hi
In(rows, lo, hi) == {r \in rows : r.height \in lo..hi}

\* GROUP BY key HAVING count(*) > 1 returns nothing.
Unique(rows, Key(_)) == \A r, s \in rows : Key(r) = Key(s) => r = s

-----------------------------------------------------------------------------
(* Block completeness and chain linkage.                                   *)

HeightsPresent(T, lo, hi) ==
    \A h \in lo..hi : \E b \in T.blocks : b.height = h

NoDuplicateHeights(T, lo, hi) ==
    Unique(In(T.blocks, lo, hi), LAMBDA b : b.height)

NoDuplicateHashes(T, lo, hi) ==
    Unique(In(T.blocks, lo, hi), LAMBDA b : b.hash)

TxCountMatches(T, lo, hi) ==
    \A b \in In(T.blocks, lo, hi) : b.count # NoCount =>
        b.count = Cardinality({t \in In(T.transactions, lo, hi) : t.height = b.height})

ExactlyOneCoinbase(T, lo, hi) ==
    LET window == In(T.transactions, lo, hi)
    IN  \A t \in window :
            Cardinality({u \in window : u.height = t.height /\ u.coinbase}) = 1

BlockHeightHashAgree(T, lo, hi) ==
    \A t \in In(T.transactions, lo, hi), b \in T.blocks :
        t.height = b.height => t.hash = b.hash

\* Comparing from the first block of the window on, whose predecessor is
\* outside.
LinkedFromTheFirst(T, lo, hi) ==
    \A b \in In(T.blocks, lo, hi) :
        \E prior \in T.blocks : prior.height = b.height - 1 /\ prior.hash = b.prev

\* Leaving one block out too many.
LinkedFromTheThird(T, lo, hi) ==
    \A b \in In(T.blocks, lo + 2, hi) :
        \E prior \in T.blocks : prior.height = b.height - 1 /\ prior.hash = b.prev

ChainLinkageInternal(T, lo, hi) ==
    \A b \in In(T.blocks, lo + 1, hi) :
        \E prior \in T.blocks : prior.height = b.height - 1 /\ prior.hash = b.prev

-----------------------------------------------------------------------------
(* Transaction integrity.                                                  *)

TxidUnique(T, lo, hi) ==
    Unique(In(T.transactions, lo, hi), LAMBDA t : t.txid)

TxReferencesLoadedBlock(T, lo, hi) ==
    \A t \in In(T.transactions, lo, hi) : \E b \in T.blocks : b.height = t.height

TxIndexNonnegative(T, lo, hi) ==
    \A t \in In(T.transactions, lo, hi) : t.index >= 0

TxIndexUniquePerBlock(T, lo, hi) ==
    Unique(In(T.transactions, lo, hi), LAMBDA t : <<t.height, t.index>>)

\* each_transaction_has_input_and_output is two queries, each at its moment.
TxHasInput(T, lo, hi) ==
    \A t \in In(T.transactions, lo, hi) : \E i \in In(T.inputs, lo, hi) : i.txid = t.txid

TxHasOutput(T, lo, hi) ==
    \A t \in In(T.transactions, lo, hi) : \E o \in In(T.outputs, lo, hi) : o.txid = t.txid

OrdinaryTxNoCoinbaseInput(T, lo, hi) ==
    \A t \in In(T.transactions, lo, hi), i \in In(T.inputs, lo, hi) :
        i.txid = t.txid /\ ~t.coinbase => ~i.coinbase

-----------------------------------------------------------------------------
(* Input and output integrity.                                             *)

InputIndexUnique(T, lo, hi) ==
    Unique(In(T.inputs, lo, hi), LAMBDA i : <<i.txid, i.index>>)

OrdinaryInputs(T, lo, hi) == {i \in In(T.inputs, lo, hi) : ~i.coinbase}

OrdinaryInputsHavePrevRef(T, lo, hi) ==
    \A i \in OrdinaryInputs(T, lo, hi) : NoValue \notin {i.prevTxid, i.prevVout}

PrevOutputValueNonnegative(T, lo, hi) ==
    \A i \in In(T.inputs, lo, hi) : i.value # NoValue => i.value >= 0

\* Any transaction on disk makes a reference internal.
InternalAnywhere(T, lo, hi, i) == \E t \in T.transactions : t.txid = i.prevTxid

\* is_internal: the transaction referred to is in the window.
Internal(T, lo, hi, i) ==
    \E t \in In(T.transactions, lo, hi) : t.txid = i.prevTxid

InternalInputsResolveUniquely(T, lo, hi) ==
    \A i \in OrdinaryInputs(T, lo, hi) : Internal(T, lo, hi, i) =>
        Cardinality({o \in In(T.outputs, lo, hi) :
                        o.txid = i.prevTxid /\ o.index = i.prevVout}) = 1

OutputIndexUnique(T, lo, hi) ==
    Unique(In(T.outputs, lo, hi), LAMBDA o : <<o.txid, o.index>>)

OutputValueNonnegative(T, lo, hi) ==
    \A o \in In(T.outputs, lo, hi) : o.value >= 0

OutputsReferenceValidTx(T, lo, hi) ==
    \A o \in In(T.outputs, lo, hi) :
        \E t \in In(T.transactions, lo, hi) : t.txid = o.txid

-----------------------------------------------------------------------------
(* Money, size and weight.                                                 *)

InputsOf(T, lo, hi, txid) == {i \in OrdinaryInputs(T, lo, hi) : i.txid = txid}
OutputsOf(T, lo, hi, txid) == {o \in In(T.outputs, lo, hi) : o.txid = txid}

\* sum(...)
ValueOf(rows) == MapThenSumSet(LAMBDA r : r.value, rows)

\* Of the transactions that have rows in both sums (inner joins), with every
\* input value known.
FeeArithmetic(T, lo, hi) ==
    \A t \in In(T.transactions, lo, hi) :
        LET ins  == InputsOf(T, lo, hi, t.txid)
            outs == OutputsOf(T, lo, hi, t.txid)
        IN  /\ ~t.coinbase
            /\ ins # {} /\ outs # {}
            /\ \A i \in ins : i.value # NoValue
            => t.fee = ValueOf(ins) - ValueOf(outs)

FeesNonnegative(T, lo, hi) ==
    \A t \in In(T.transactions, lo, hi) : ~t.coinbase => t.fee >= 0

SizePositive(T, lo, hi) == \A t \in In(T.transactions, lo, hi) : t.size > 0

WeightPositive(T, lo, hi) == \A t \in In(T.transactions, lo, hi) : t.weight > 0

VsizeFormula(T, lo, hi) ==
    \A t \in In(T.transactions, lo, hi) :
        4 * (t.vsize - 1) < t.weight /\ t.weight <= 4 * t.vsize

WeightBoundedBySize(T, lo, hi) ==
    \A t \in In(T.transactions, lo, hi) : t.weight <= 4 * t.size

-----------------------------------------------------------------------------
(* CHECKS, in its order, query by query.                                   *)

NumChecks == 27

Check(n, T, lo, hi) ==
    CASE n = 1  -> HeightsPresent(T, lo, hi)
      [] n = 2  -> NoDuplicateHeights(T, lo, hi)
      [] n = 3  -> NoDuplicateHashes(T, lo, hi)
      [] n = 4  -> TxCountMatches(T, lo, hi)
      [] n = 5  -> ExactlyOneCoinbase(T, lo, hi)
      [] n = 6  -> BlockHeightHashAgree(T, lo, hi)
      [] n = 7  -> ChainLinkageInternal(T, lo, hi)
      [] n = 8  -> TxidUnique(T, lo, hi)
      [] n = 9  -> TxReferencesLoadedBlock(T, lo, hi)
      [] n = 10 -> TxIndexNonnegative(T, lo, hi)
      [] n = 11 -> TxIndexUniquePerBlock(T, lo, hi)
      [] n = 12 -> TxHasInput(T, lo, hi)
      [] n = 13 -> TxHasOutput(T, lo, hi)
      [] n = 14 -> OrdinaryTxNoCoinbaseInput(T, lo, hi)
      [] n = 15 -> InputIndexUnique(T, lo, hi)
      [] n = 16 -> OrdinaryInputsHavePrevRef(T, lo, hi)
      [] n = 17 -> PrevOutputValueNonnegative(T, lo, hi)
      [] n = 18 -> InternalInputsResolveUniquely(T, lo, hi)
      [] n = 19 -> OutputIndexUnique(T, lo, hi)
      [] n = 20 -> OutputValueNonnegative(T, lo, hi)
      [] n = 21 -> OutputsReferenceValidTx(T, lo, hi)
      [] n = 22 -> FeeArithmetic(T, lo, hi)
      [] n = 23 -> FeesNonnegative(T, lo, hi)
      [] n = 24 -> SizePositive(T, lo, hi)
      [] n = 25 -> WeightPositive(T, lo, hi)
      [] n = 26 -> VsizeFormula(T, lo, hi)
      [] n = 27 -> WeightBoundedBySize(T, lo, hi)

AllChecksPass(T, lo, hi) == \A n \in 1..NumChecks : Check(n, T, lo, hi)

-----------------------------------------------------------------------------
(* What crosses the border of the window (boundary_metrics).               *)

ForeignInputs(T, lo, hi) ==
    {i \in OrdinaryInputs(T, lo, hi) : ~Internal(T, lo, hi, i)}

\* foreign_input_references
InputFigures(T, lo, hi) ==
    [total   |-> Cardinality(OrdinaryInputs(T, lo, hi)),
     foreign |-> Cardinality(ForeignInputs(T, lo, hi))]

\* The matches of the LEFT JOIN of outputs with the inputs that spend them.
Spent(outputs, inputs) ==
    {oi \in outputs \X inputs :
        oi[2].prevTxid = oi[1].txid /\ oi[2].prevVout = oi[1].index}

Unspent(outputs, inputs) ==
    {o \in outputs : \A i \in inputs : <<o, i>> \notin Spent(outputs, inputs)}

\* outputs_unspent_within_window: the total is of the rows of the join, in
\* which an output is as often as it is spent.
JoinFigures(outputs, inputs) ==
    [total   |-> Cardinality(Spent(outputs, inputs)) + Cardinality(Unspent(outputs, inputs)),
     unspent |-> Cardinality(Unspent(outputs, inputs))]

\* Without the WHERE of the outputs.
OutputFiguresAnywhere(T, lo, hi) == JoinFigures(T.outputs, OrdinaryInputs(T, lo, hi))

OutputFigures(T, lo, hi) ==
    JoinFigures(In(T.outputs, lo, hi), OrdinaryInputs(T, lo, hi))

-----------------------------------------------------------------------------
(* What a verdict of PASS is worth, in terms of the files.                 *)

\* The server reported how many transactions each block of the range has.
CountsKnown(files, w) ==
    \A h \in w.lo..w.hi \cap Present(files, "blocks") :
        files["blocks"][h].reported # NoCount

PartitionsComplete(files, w) ==
    \A d \in Datasets : w.lo..w.hi \subseteq Present(files, d)

Sound(files, w) ==
    PartitionsComplete(files, w) /\ AllChecksPass(TablesOf(files), w.lo, w.hi)

\* Without a count nothing is certain (TxCountMatches).
Cleared(files, w) == CountsKnown(files, w) => Sound(files, w)

-----------------------------------------------------------------------------
(* What an unfinished validation is worth: parts of the invariants behind  *)
(* the gate and the loader.                                                *)

\* Without deletions a derived file stands for the raw block as it is now.
FilesKept(dirs, files) ==
    /\ \A h \in Heights :
         dirs[h] # NoDir => \E f \in Fetches(h) : dirs[h] = Directory(f)
    /\ \A d \in Datasets, h \in Heights : files[d][h] # NoFile =>
         IsComplete(dirs[h]) /\ files[d][h] = RowsOf(d, dirs[h])

\* The datasets that are complete in the window once n checks have passed:
\* a check that notices a missing file comes before those that would pass on
\* it vacuously.
PinnedBy(n) ==
    {d \in Datasets :
        \/ d = "blocks" /\ n >= 1
        \/ d = "transactions" /\ n >= 4
        \/ d = "inputs" /\ n >= 12
        \/ d = "outputs" /\ n >= 13}

\* The first n checks have passed.
Passed(files, n, w) ==
    CountsKnown(files, w) =>
        /\ \A d \in PinnedBy(n) : w.lo..w.hi \subseteq Present(files, d)
        /\ \A m \in 1..n : Check(m, TablesOf(files), w.lo, w.hi)

=============================================================================
