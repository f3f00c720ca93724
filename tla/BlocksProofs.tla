----------------------------- MODULE BlocksProofs -----------------------------
(***************************************************************************)
(* Lemmas about block directories, for RawStoreProofs and                  *)
(* ParquetBuildProofs.                                                     *)
(***************************************************************************)
EXTENDS Blocks, TLAPS

\* A directory is one fetch of its height, or what an operator left of it.
LEMMA PartProperties ==
    ASSUME NEW h \in Heights, NEW f \in Fetches(h), NEW files \in SUBSET RequiredFiles
    PROVE  /\ Part(f, files) \in DirectoriesAt(h)
           /\ Part(f, files) # NoDir
           /\ DOMAIN Part(f, files) = files
BY NoDirAssumption DEF DirectoriesAt, Part

\* What is left after rm has taken one file is still part of the fetch.
LEMMA RemoveOneFile ==
    ASSUME NEW h \in Heights, NEW d \in DirectoriesAt(h), NEW file \in DOMAIN d
    PROVE  [g \in DOMAIN d \ {file} |-> d[g]] \in DirectoriesAt(h)
<1>1. PICK f \in Fetches(h), files \in SUBSET RequiredFiles : d = Part(f, files)
  BY DEF DirectoriesAt
<1>2. /\ DOMAIN d = files
      /\ \A g \in files : d[g] = Contents(f, g)
  BY <1>1 DEF Part
<1>3. [g \in DOMAIN d \ {file} |-> d[g]] = Part(f, files \ {file})
  BY <1>2 DEF Part
<1> QED
  BY <1>3 DEF DirectoriesAt

\* The test of is_complete on a published directory proves the block whole,
\* as far as the server said how many transactions it has.
LEMMA CompleteIsWhole ==
    ASSUME NEW h \in Heights, NEW f \in Fetches(h), IsComplete(Directory(f)),
           Directory(f)[BlockJson].reported # NoCount
    PROVE  Directory(f)[TxsJsonl] = BlockTxs(Directory(f)[BlockJson].hash)
<1>1. PICK b \in HashesAt[h] :
        f \in { FetchOf(b, FirstTxs(b, n), r) : n \in 0..Size[b], r \in Reports(b) }
  BY DEF Fetches
<1>2. PICK n \in 0..Size[b], r \in Reports(b) : f = FetchOf(b, FirstTxs(b, n), r)
  BY <1>1
<1>3. /\ Directory(f)[BlockJson] = [hash |-> b, reported |-> r]
      /\ Directory(f)[TxsJsonl] = FirstTxs(b, n)
      /\ Directory(f)[MetaJson] =
            [hash |-> b, fetched |-> Len(FirstTxs(b, n)), reported |-> r]
  BY <1>2 DEF Directory, Part, Contents, RequiredFiles, BlockJson, TxsJsonl, MetaJson, FetchOf
<1>4. b \in Hashes /\ Size[b] \in Nat /\ Len(FirstTxs(b, n)) = n
  BY HashesAssumption, SizeAssumption DEF FirstTxs
<1>5. n = Size[b]
  BY <1>3, <1>4 DEF IsComplete, CountsAgree, Reports
<1> QED
  BY <1>3, <1>5 DEF BlockTxs

=============================================================================
