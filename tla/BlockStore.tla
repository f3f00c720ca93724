------------------------------ MODULE BlockStore ------------------------------
(***************************************************************************)
(* What data/raw/blocks promises everything that reads it (extract.py's    *)
(* module comment, and the comment of parquet_partitions_complete): a      *)
(* directory appears under its final name in one step, whole and holding   *)
(* one fetch, and nothing but an operator deleting it by hand ever changes *)
(* it afterwards.                                                          *)
(***************************************************************************)
EXTENDS Blocks

CONSTANT OperatorDeletes    \* whether an operator ever deletes a directory

VARIABLE raw    \* raw[h]: the block directory of height h

Init == raw = [h \in Heights |-> NoDir]

\* A store that lets a block be fetched over an old one.
AlwaysFree(dir) == TRUE

\* A name that a directory can be renamed to.
Free(dir) == dir # NoDir => DOMAIN dir = {}

Publish(h) ==
    /\ Free(raw[h])
    /\ \E f \in Fetches(h) : raw' = [raw EXCEPT ![h] = Directory(f)]

\* rm -r takes the files of a directory one by one, then the directory.
OperatorRemoves(h) ==
    /\ OperatorDeletes
    /\ raw[h] # NoDir
    /\ \/ \E file \in DOMAIN raw[h] :
            raw' = [raw EXCEPT ![h] =
                      [g \in DOMAIN raw[h] \ {file} |-> raw[h][g]]]
       \/ DOMAIN raw[h] = {} /\ raw' = [raw EXCEPT ![h] = NoDir]

Next == \E h \in Heights : Publish(h) \/ OperatorRemoves(h)

Spec == Init /\ [][Next]_raw

=============================================================================
