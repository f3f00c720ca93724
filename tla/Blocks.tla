------------------------------- MODULE Blocks -------------------------------
(***************************************************************************)
(* The data every component of the warehouse exchanges: blocks, their      *)
(* transactions, what one fetch of a block brings back, and the directory  *)
(* of three files a fetch is stored as.                                    *)
(*                                                                         *)
(* A transaction is named by its block and its position in it, so a list   *)
(* of transactions shows which block each entry came from, which entries   *)
(* are missing and which are out of order.                                 *)
(***************************************************************************)
EXTENDS Naturals, Sequences

CONSTANTS
    Heights,    \* the heights the operator works on, an interval of Nat
    Hashes,     \* the block hashes that exist
    HashesAt,   \* HashesAt[h]: the blocks that are canonical at h at some time
    Size,       \* Size[b]: how many transactions block b has
    NoCount,    \* tx_count is missing from the block's JSON
    NoDir       \* there is no directory of that name

ASSUME HeightsAssumption == Heights \subseteq Nat
ASSUME HashesAssumption == HashesAt \in [Heights -> SUBSET Hashes]
\* Every Bitcoin block has at least its coinbase transaction.
ASSUME SizeAssumption == Size \in [Hashes -> Nat \ {0}]
ASSUME NoCountAssumption == NoCount \notin Nat

-----------------------------------------------------------------------------
(* Blocks and fetches.                                                     *)

FirstTxs(b, n) == [i \in 1..n |-> <<b, i>>]

BlockTxs(b) == FirstTxs(b, Size[b])

\* The tx_count an honest server reports for b.  The code reads it with
\* dict.get, so an answer without the field is accepted.
Reports(b) == {Size[b], NoCount}

\* What ingest_block holds once get_block_txs has returned.
FetchOf(b, txs, r) == [hash |-> b, txs |-> txs, reported |-> r]

\* Every fetch of height h that can come back: one block, a prefix of its
\* transactions (a fetch may end early, see EsploraFetch), one report.
Fetches(h) ==
    UNION { { FetchOf(b, FirstTxs(b, n), r) : n \in 0..Size[b], r \in Reports(b) }
            : b \in HashesAt[h] }

-----------------------------------------------------------------------------
(* Block directories: functions from the names of the files present to    *)
(* what they hold.                                                         *)

BlockJson == "block.json"
TxsJsonl  == "txs.jsonl"
MetaJson  == "_meta.json"

RequiredFiles == {BlockJson, TxsJsonl, MetaJson}

\* The files write_block_atomic has written before it writes the given one.
WrittenBefore(file) ==
    CASE file = BlockJson -> {}
      [] file = TxsJsonl  -> {BlockJson}
      [] file = MetaJson  -> {BlockJson, TxsJsonl}

Contents(f, file) ==
    CASE file = BlockJson -> [hash |-> f.hash, reported |-> f.reported]
      [] file = TxsJsonl  -> f.txs
      [] file = MetaJson  -> [hash |-> f.hash, fetched |-> Len(f.txs),
                              reported |-> f.reported]

Part(f, files) == [file \in files |-> Contents(f, file)]

Directory(f) == Part(f, RequiredFiles)

\* Every directory that can be found at height h: a published one, or what
\* an operator who is deleting it has left of it so far.
DirectoriesAt(h) ==
    {Part(f, files) : f \in Fetches(h), files \in SUBSET RequiredFiles}

\* The absence of a directory is not a directory.
ASSUME NoDirAssumption == \A h \in Heights : NoDir \notin DirectoriesAt(h)

CountsAgree(meta) ==
    meta.reported # NoCount => meta.fetched = meta.reported

IsComplete(dir) ==
    /\ dir # NoDir
    /\ RequiredFiles \subseteq DOMAIN dir
    /\ CountsAgree(dir[MetaJson])

=============================================================================
