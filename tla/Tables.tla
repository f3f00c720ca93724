-------------------------------- MODULE Tables --------------------------------
(***************************************************************************)
(* The rows that flatten.py makes of a block and of its transactions, and  *)
(* the four tables that DuckDB sees in data/parquet.  Partitions says what *)
(* a data.parquet is computed from; this module says what is in it.        *)
(*                                                                         *)
(* Columns that nothing relates to anything else (scripts, addresses,      *)
(* nonces, versions) are left out.                                         *)
(***************************************************************************)
EXTENDS Partitions, Integers, FiniteSets

CONSTANTS
    Prev,       \* Prev[b]: the block that block b was mined on top of
    Tx,         \* Tx[b][i]: the i-th transaction of block b
    NoValue     \* null

\* A transaction: its inputs name an output each by transaction and
\* position, and what it is worth (prevout, null for a coinbase).
ASSUME TxAssumption ==
    /\ Prev \in [Hashes -> Hashes]
    /\ \A b \in Hashes : \A i \in 1..Size[b] :
         /\ DOMAIN Tx[b][i] = {"txid", "vin", "vout", "fee", "size", "weight"}
         /\ Tx[b][i].vout \in Seq(Int)
         /\ {Tx[b][i].fee, Tx[b][i].size, Tx[b][i].weight} \subseteq Int
         /\ Len(Tx[b][i].vin) \in Nat
         /\ DOMAIN Tx[b][i].vin = 1..Len(Tx[b][i].vin)
         /\ \A j \in DOMAIN Tx[b][i].vin :
              Tx[b][i].vin[j] \in
                 [txid : {Tx[b][i].vin[j].txid}, vout : Int \cup {NoValue},
                  value : Int \cup {NoValue}, coinbase : BOOLEAN]

\* No block holds a transaction twice; two blocks may (before BIP 34).
ASSUME TxidAssumption ==
    \A b \in Hashes : \A i, j \in 1..Size[b] : Tx[b][i].txid = Tx[b][j].txid => i = j

\* The transaction that an entry <<block, position>> of a list stands for.
TxOf(entry) == Tx[entry[1]][entry[2]]

-----------------------------------------------------------------------------
(* flatten.py.  Positions are counted from zero.                           *)

vsizeFromWeight(weight) == (weight + 3) \div 4

FlattenBlock(h, block) ==
    [height |-> h, hash |-> block.hash, prev |-> Prev[block.hash],
     count |-> block.reported]

IsCoinbase(tx) == tx.vin # << >> /\ tx.vin[1].coinbase

FlattenTransactions(h, hash, ts) ==
    { LET tx == TxOf(ts[i])
      IN  [height |-> h, hash |-> hash, txid |-> tx.txid, index |-> i - 1,
           size |-> tx.size, weight |-> tx.weight,
           vsize |-> vsizeFromWeight(tx.weight), fee |-> tx.fee,
           coinbase |-> IsCoinbase(tx)]
      : i \in DOMAIN ts }

FlattenInputs(h, ts) ==
    UNION { LET tx == TxOf(ts[i])
            IN  { [height |-> h, txid |-> tx.txid, index |-> j - 1,
                   prevTxid |-> tx.vin[j].txid, prevVout |-> tx.vin[j].vout,
                   value |-> tx.vin[j].value, coinbase |-> tx.vin[j].coinbase]
                  : j \in DOMAIN tx.vin }
            : i \in DOMAIN ts }

FlattenOutputs(h, ts) ==
    UNION { LET tx == TxOf(ts[i])
            IN  { [height |-> h, txid |-> tx.txid, index |-> j - 1,
                   value |-> tx.vout[j]]
                  : j \in DOMAIN tx.vout }
            : i \in DOMAIN ts }

-----------------------------------------------------------------------------
(* The views over data/parquet/<dataset>/*/data.parquet.                   *)

Present(files, d) == {h \in Heights : files[d][h] # NoFile}

TablesOf(files) ==
    [blocks |->
        { FlattenBlock(h, files["blocks"][h]) : h \in Present(files, "blocks") },
     transactions |->
        UNION { FlattenTransactions(h, files["transactions"][h].hash,
                                    files["transactions"][h].txs)
                : h \in Present(files, "transactions") },
     inputs |->
        UNION { FlattenInputs(h, files["inputs"][h]) : h \in Present(files, "inputs") },
     outputs |->
        UNION { FlattenOutputs(h, files["outputs"][h]) : h \in Present(files, "outputs") }]

=============================================================================
