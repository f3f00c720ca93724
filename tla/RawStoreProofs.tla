---------------------------- MODULE RawStoreProofs ----------------------------
(***************************************************************************)
(* Proofs about RawStore for every set of invocations, command lines,      *)
(* heights and blocks, and about BlockRange for all integers.              *)
(***************************************************************************)
EXTENDS FetchBlocks, BlocksProofs, FiniteSetTheorems, TLAPS

-----------------------------------------------------------------------------
(* The inductive invariant.                                                *)

LEMMA JobProperties ==
    \A j \in Jobs : /\ j \in [tool : Tools, lo : Nat, hi : Nat, force : BOOLEAN]
                    /\ HeightsOf(j) \subseteq Heights
                    /\ j.tool = "fetch_block" => j.lo = j.hi
BY JobsAssumption

LEMMA InitIInv == Init => IInv
<1> SUFFICES ASSUME Init PROVE IInv
  OBVIOUS
<1>1. TypeOK
  BY JobProperties DEF Init, TypeOK
<1>2. \A p \in Procs : Placed(p) /\ Holding(p)
  BY JobProperties DEF Init, Placed, Holding, Working
<1> QED
  BY <1>1, <1>2 DEF IInv

\* How a height ends, whatever happened to it: the part common to Succeed
\* and Fail.
LEMMA AdvanceIInv ==
    ASSUME IInv, NEW p \in Procs, pc[p] \in Working, NEW exit \in {"exit0", "exit1"},
           Advance(p, exit), UNCHANGED <<job, was, incomplete>>,
           result' \in [Procs -> [fetched : SUBSET Heights, skipped : SUBSET Heights,
                                  failed : SUBSET (Heights \X Reasons)]],
           DOMAIN raw' = Heights,
           \A h \in Heights : raw'[h] \in DirectoriesAt(h) \cup {NoDir}
    PROVE  IInv'
<1> USE DEF IInv
<1>1. /\ at[p] \in Nat /\ at[p] \in HeightsOf(job[p]) /\ job[p] \in Jobs
      /\ job[p].lo \in Nat /\ job[p].hi \in Nat
  BY JobProperties DEF TypeOK, Placed
<1>2. /\ at' \in [Procs -> Nat]
      /\ pc' \in [Procs -> {"start"} \cup Running \cup Ended]
      /\ pc'[p] \in {"exit0", "exit1", "check", "verify"}
      /\ pc'[p] = "check" => at'[p] \in HeightsOf(job[p])
      /\ pc'[p] = "verify" => at'[p] = job[p].lo
      /\ got' = [got EXCEPT ![p] = NoFetch] /\ tmp' = [tmp EXCEPT ![p] = NoDir]
      /\ \A q \in Procs \ {p} : at'[q] = at[q] /\ pc'[q] = pc[q]
  <2>1. PICK l \in {"exit0", "exit1", "check", "verify"}, n \in Nat :
          /\ pc' = [pc EXCEPT ![p] = l] /\ at' = [at EXCEPT ![p] = n]
          /\ l = "check" => n \in HeightsOf(job[p])
          /\ l = "verify" => n = job[p].lo
    <3>1. CASE job[p].tool = "fetch_block"
      <4>1. at' = [at EXCEPT ![p] = at[p]]
        BY <3>1 DEF Advance, TypeOK
      <4> QED BY <1>1, <3>1, <4>1 DEF Advance, Goto
    <3>2. CASE job[p].tool # "fetch_block" /\ at[p] < job[p].hi
      <4>1. at[p] + 1 \in HeightsOf(job[p]) /\ at[p] + 1 \in Nat
        BY <1>1, <3>2 DEF HeightsOf
      <4> QED BY <3>2, <4>1 DEF Advance, Goto, MoreHeights, NextHeight
    <3>3. CASE job[p].tool # "fetch_block" /\ ~(at[p] < job[p].hi)
      BY <1>1, <3>3 DEF Advance, Goto, MoreHeights
    <3> QED BY <3>1, <3>2, <3>3
  <2>2. got' = [got EXCEPT ![p] = NoFetch] /\ tmp' = [tmp EXCEPT ![p] = NoDir]
    BY DEF Advance
  <2> QED
    BY <2>1, <2>2 DEF TypeOK, Running, Ended
<1>3. TypeOK'
  BY <1>2 DEF TypeOK
<1>4. \A q \in Procs : Placed(q)' /\ Holding(q)'
  BY <1>1, <1>2 DEF TypeOK, Placed, Holding, Working
<1> QED
  BY <1>3, <1>4

LEMMA SucceedFailIInv ==
    ASSUME IInv, NEW p \in Procs, pc[p] \in Working,
           Succeed(p) \/ (\E r \in Reasons : Fail(p, r)),
           UNCHANGED <<job, was, incomplete>>,
           DOMAIN raw' = Heights,
           \A h \in Heights : raw'[h] \in DirectoriesAt(h) \cup {NoDir}
    PROVE  IInv'
<1>1. at[p] \in Heights
  BY JobProperties DEF IInv, TypeOK, Placed
<1>2. result' \in [Procs -> [fetched : SUBSET Heights, skipped : SUBSET Heights,
                             failed : SUBSET (Heights \X Reasons)]]
  <2>1. CASE Succeed(p)
    BY <1>1, <2>1 DEF IInv, TypeOK, Succeed
  <2>2. ASSUME NEW r \in Reasons, Fail(p, r)
        PROVE  result' \in [Procs -> [fetched : SUBSET Heights, skipped : SUBSET Heights,
                                      failed : SUBSET (Heights \X Reasons)]]
    BY <1>1, <2>2 DEF IInv, TypeOK, Fail
  <2> QED BY <2>1, <2>2
<1>3. Advance(p, "exit0") \/ Advance(p, "exit1")
  BY DEF Succeed, Fail
<1> QED
  BY <1>2, <1>3, AdvanceIInv

LEMMA NextIInv == IInv /\ [Next]_vars => IInv'
<1> SUFFICES ASSUME IInv, [Next]_vars PROVE IInv'
  OBVIOUS
<1> USE DEF IInv
<1>1. ASSUME NEW p \in Procs, Start(p) \/ StartFails(p) PROVE IInv'
  <2>1. /\ pc'[p] = "check" => at[p] \in HeightsOf(job[p])
        /\ job[p].lo <= at[p]
    <3>1. job[p].lo \in Nat /\ job[p].hi \in Nat /\ at[p] = job[p].lo
      BY <1>1, JobProperties DEF TypeOK, Placed, Start, StartFails
    <3> QED BY <1>1, <3>1 DEF Start, StartFails, Goto, HeightsOf, TypeOK
  <2> QED
    BY <1>1, <2>1 DEF Start, StartFails, Goto, TypeOK, Placed, Holding, Working, Running, Ended
<1>2. ASSUME NEW p \in Procs, Check(p) PROVE IInv'
  BY <1>2 DEF Check, Goto, AlreadyComplete, TypeOK, Placed, Holding, Working, Running, Ended
<1>3. ASSUME NEW p \in Procs, IngestSkips(p) PROVE IInv'
  BY <1>3, SucceedFailIInv DEF IngestSkips, TypeOK, Working
<1>4. ASSUME NEW p \in Procs, IngestStarts(p) PROVE IInv'
  BY <1>4 DEF IngestStarts, Goto, TypeOK, Placed, Holding, Working, Running
<1>5. ASSUME NEW p \in Procs, FetchReturns(p) PROVE IInv'
  <2>1. at[p] \in Heights /\ pc[p] = "fetch" /\ got[p] = NoFetch /\ tmp[p] = NoDir
    BY <1>5, JobProperties DEF FetchReturns, ThisHeight, TypeOK, Placed, Holding, Working
  <2>2. PICK f \in Fetches(at[p]) : got' = [got EXCEPT ![p] = f]
    BY <1>5 DEF FetchReturns, ThisHeight
  <2>3. f # NoFetch
    BY <2>1, NoFetchAssumption
  <2>4. TypeOK'
    BY <1>5, <2>1, <2>2 DEF FetchReturns, ThisHeight, Goto, TypeOK, Running
  <2>5. \A q \in Procs : Placed(q)' /\ Holding(q)'
    BY <1>5, <2>1, <2>2, <2>3 DEF FetchReturns, ThisHeight, Goto, TypeOK, Placed, Holding, Working
  <2> QED BY <2>4, <2>5
<1>6. ASSUME NEW p \in Procs, FetchRaises(p) \/ MakeTempFails(p) \/ WriteFails(p)
      PROVE  IInv'
  BY <1>6, SucceedFailIInv DEF FetchRaises, MakeTempFails, WriteFails, TypeOK, Working, Reasons
<1>7. ASSUME NEW p \in Procs, MakeTemp(p) PROVE IInv'
  <2>1. at[p] \in Heights /\ got[p] \in Fetches(at[p])
    BY <1>7, JobProperties DEF MakeTemp, TypeOK, Placed, Holding, Working
  <2>2. Part(got[p], {}) # NoDir
    BY <2>1, PartProperties
  <2> QED
    BY <1>7, <2>1, <2>2 DEF MakeTemp, Goto, TypeOK, Placed, Holding, Working, Running
<1>8. ASSUME NEW p \in Procs, WriteFile(p) PROVE IInv'
  <2>1. at[p] \in Heights /\ got[p] \in Fetches(at[p])
    BY <1>8, JobProperties DEF WriteFile, TypeOK, Placed, Holding, Working
  <2>2. PICK files \in SUBSET RequiredFiles :
          /\ tmp' = [tmp EXCEPT ![p] = Part(got[p], files)]
          /\ Goto(p, IF AllWritten(files) THEN "replace" ELSE "write")
    <3>1. PICK old \in SUBSET RequiredFiles : tmp[p] = Part(got[p], old)
      BY <1>8 DEF WriteFile, TypeOK, Holding
    <3>2. DOMAIN tmp[p] = old
      BY <3>1 DEF Part
    <3> QED BY <1>8, <3>2 DEF WriteFile
  <2>3. Part(got[p], files) # NoDir
    BY <2>1, PartProperties
  <2>4. TypeOK'
    <3>1. pc' \in [Procs -> {"start"} \cup Running \cup Ended]
      BY <2>2 DEF Goto, TypeOK, Running
    <3>2. \A q \in Procs : tmp'[q] # NoDir =>
             \E fs \in SUBSET RequiredFiles : tmp'[q] = Part(got[q], fs)
      BY <2>2 DEF TypeOK
    <3> QED BY <1>8, <2>2, <3>1, <3>2 DEF WriteFile, TypeOK
  <2>5. \A q \in Procs : Placed(q)' /\ Holding(q)'
    <3>1. /\ pc[p] = "write" /\ pc'[p] \in {"write", "replace"}
          /\ pc'[p] = "replace" => tmp'[p] = Directory(got[p])
          /\ tmp'[p] = Part(got[p], files)
      BY <1>8, <2>2 DEF WriteFile, Goto, AllWritten, Directory, TypeOK
    <3>2. \A q \in Procs \ {p} : pc'[q] = pc[q] /\ tmp'[q] = tmp[q]
      BY <2>2 DEF Goto, TypeOK
    <3>3. at' = at /\ got' = got /\ job' = job
      BY <1>8 DEF WriteFile
    <3>4. Placed(p)' /\ Holding(p)'
      BY <2>3, <3>1, <3>3 DEF Placed, Holding, Working
    <3>5. ASSUME NEW q \in Procs \ {p} PROVE Placed(q)' /\ Holding(q)'
      BY <3>2, <3>3 DEF Placed, Holding
    <3> QED BY <3>4, <3>5
  <2> QED BY <2>4, <2>5
<1>9. ASSUME NEW p \in Procs, Replace(p) PROVE IInv'
  <2>1. at[p] \in Heights /\ got[p] \in Fetches(at[p]) /\ tmp[p] = Directory(got[p])
    BY <1>9, JobProperties DEF Replace, TypeOK, Placed, Holding, Working
  <2>2. tmp[p] \in DirectoriesAt(at[p])
    BY <2>1, PartProperties DEF Directory
  <2>3. DOMAIN raw' = Heights /\ \A h \in Heights : raw'[h] \in DirectoriesAt(h) \cup {NoDir}
    BY <1>9, <2>1, <2>2 DEF Replace, TypeOK
  <2> QED
    BY <1>9, <2>3, SucceedFailIInv DEF Replace, Working
<1>10. ASSUME NEW p \in Procs, ReplaceRefused(p) PROVE IInv'
  BY <1>10, SucceedFailIInv DEF ReplaceRefused, TypeOK, Working, Reasons
<1>11. ASSUME NEW p \in Procs, VerifyHeight(p) PROVE IInv'
  <2>1. at[p] \in Heights /\ at[p] \in Nat /\ job[p].lo \in Nat
    BY <1>11, JobProperties DEF VerifyHeight, TypeOK, Placed, HeightsOf
  <2>2. got[p] = NoFetch /\ tmp[p] = NoDir
    BY <1>11 DEF VerifyHeight, Holding
  <2> QED
    BY <1>11, <2>1, <2>2 DEF VerifyHeight, TypeOK, Placed, Holding, Working
<1>12. ASSUME NEW p \in Procs, Exit(p) PROVE IInv'
  BY <1>12 DEF Exit, ExitCode, Goto, TypeOK, Placed, Holding, Working, Ended
<1>13. ASSUME NEW p \in Procs, Interrupt(p) \/ Kill(p) PROVE IInv'
  <2>1. CASE Interrupt(p)
    BY <2>1 DEF Interrupt, AfterInterrupt, Goto, TypeOK, Placed, Holding, Working, Ended
  <2>2. CASE Kill(p)
    <3>1. TypeOK'
      BY <2>2 DEF Kill, Goto, TypeOK, Ended
    <3>2. \A q \in Procs : Placed(q)' /\ Holding(q)'
      BY <2>2 DEF Kill, Goto, TypeOK, Placed, Holding, Working
    <3> QED BY <3>1, <3>2
  <2> QED BY <1>13, <2>1, <2>2
<1>14. ASSUME NEW h \in Heights, OperatorRemoves(h) PROVE IInv'
  <2>1. DOMAIN raw' = Heights /\ \A k \in Heights : raw'[k] \in DirectoriesAt(k) \cup {NoDir}
    <3>1. raw[h] \in DirectoriesAt(h)
      BY <1>14 DEF OperatorRemoves, Store!OperatorRemoves, TypeOK
    <3>2. PICK d \in DirectoriesAt(h) \cup {NoDir} : raw' = [raw EXCEPT ![h] = d]
      BY <1>14, <3>1, RemoveOneFile DEF OperatorRemoves, Store!OperatorRemoves
    <3> QED BY <3>2 DEF TypeOK
  <2> QED
    BY <1>14, <2>1 DEF OperatorRemoves, TypeOK, Placed, Holding
<1>15. CASE UNCHANGED vars
  BY <1>15 DEF vars, TypeOK, Placed, Holding
<1> QED
  BY <1>1, <1>2, <1>3, <1>4, <1>5, <1>6, <1>7, <1>8, <1>9, <1>10, <1>11, <1>12, <1>13,
     <1>14, <1>15 DEF Next, Step

THEOREM InductiveInvariant == Spec => []IInv
BY InitIInv, NextIInv, PTL DEF Spec, SafeSpec

-----------------------------------------------------------------------------
(* Properties that hold whatever operators do.                             *)

\* Every variable keeps its type; in particular what is on disk at a height
\* is one fetch of that height, or what an operator has left of it.
THEOREM TypeCorrect == Spec => []TypeOK
<1>1. IInv => TypeOK
  BY DEF IInv
<1> QED
  BY <1>1, InductiveInvariant, PTL

\* No error leaves a temporary directory behind, and no KeyboardInterrupt
\* leaves one with files in it.
THEOREM NoTempLeaks == Spec => []NoTempLeak
<1>1. IInv => NoTempLeak
  BY DEF IInv, Holding, NoTempLeak
<1> QED
  BY <1>1, InductiveInvariant, PTL

-----------------------------------------------------------------------------
(* Refinement of BlockStore.                                               *)

\* The operators BlockStore has of its own copy of Blocks are Blocks'.
LEMMA SameData ==
    /\ \A h : Store!Fetches(h) = Fetches(h)
    /\ \A f : Store!Directory(f) = Directory(f)
BY DEF Store!Fetches, Store!FetchOf, Store!FirstTxs, Store!Reports,
       Fetches, FetchOf, FirstTxs, Reports,
       Store!Directory, Store!Part, Store!Contents, Store!RequiredFiles,
       Store!BlockJson, Store!TxsJsonl, Store!MetaJson,
       Directory, Part, Contents, RequiredFiles, BlockJson, TxsJsonl, MetaJson

\* Only Replace and an operator touch the disk; Replace publishes.
LEMMA StepRefines == IInv /\ [Next]_vars => [Store!Next]_raw
<1> SUFFICES ASSUME IInv, Next PROVE Store!Next \/ raw' = raw
  BY DEF vars
<1>1. ASSUME NEW p \in Procs, Replace(p) PROVE Store!Next
  <2>1. at[p] \in Heights /\ got[p] \in Fetches(at[p]) /\ tmp[p] = Directory(got[p])
    BY <1>1, JobProperties DEF Replace, IInv, TypeOK, Placed, Holding, Working
  <2>2. Store!Publish(at[p])
    BY <1>1, <2>1, SameData DEF Replace, CanReplace, Store!Publish, Store!Free
  <2> QED
    BY <2>1, <2>2 DEF Store!Next
<1>2. ASSUME NEW h \in Heights, OperatorRemoves(h) PROVE Store!Next
  BY <1>2 DEF OperatorRemoves, Store!Next
<1>3. ASSUME NEW p \in Procs, Step(p) \/ Interrupt(p) \/ Kill(p), ~Replace(p)
      PROVE  raw' = raw
  BY <1>3 DEF Step, Start, StartFails, Check, IngestSkips, IngestStarts, FetchReturns,
              FetchRaises, MakeTemp, MakeTempFails, WriteFile, WriteFails, ReplaceRefused,
              VerifyHeight, Exit, Interrupt, Kill
<1> QED
  BY <1>1, <1>2, <1>3 DEF Next

\* All that any number of invocations do to data/raw/blocks, whatever fails
\* and whoever is killed, is what BlockStore promises its readers.
THEOREM RefinesStore == Spec => ImplementsStore
<1>1. Init => Store!Init
  BY DEF Init, Store!Init
<1> QED
  BY <1>1, StepRefines, InductiveInvariant, PTL DEF ImplementsStore, Store!Spec, Spec, SafeSpec

\* A directory with files in it is never written again: neither --force nor
\* a lost race replaces a block that is on disk.
THEOREM NeverOverwrites == Spec => NeverOverwritten
<1> DEFINE Kept(h) == /\ raw'[h] # NoDir
                      /\ DOMAIN raw'[h] \subseteq DOMAIN raw[h]
                      /\ \A file \in DOMAIN raw'[h] : raw'[h][file] = raw[h][file]
<1>1. IInv /\ [Store!Next]_raw =>
        [\A h \in Heights : raw[h] # NoDir /\ DOMAIN raw[h] # {} => Kept(h)]_raw
  <2> SUFFICES ASSUME IInv, Store!Next,
                      NEW h \in Heights, raw[h] # NoDir, DOMAIN raw[h] # {}
               PROVE  Kept(h)
    OBVIOUS
  <2>1. DOMAIN raw = Heights /\ raw[h] \in DirectoriesAt(h)
    BY DEF IInv, TypeOK
  <2>2. ASSUME NEW k \in Heights, Store!Publish(k) PROVE Kept(h)
    BY <2>1, <2>2 DEF Store!Publish, Store!Free
  <2>3. ASSUME NEW k \in Heights, Store!OperatorRemoves(k) PROVE Kept(h)
    <3>1. CASE k # h
      BY <2>1, <2>3, <3>1 DEF Store!OperatorRemoves
    <3>2. CASE k = h
      <4>1. PICK file \in DOMAIN raw[h] :
              raw' = [raw EXCEPT ![h] = [g \in DOMAIN raw[h] \ {file} |-> raw[h][g]]]
        BY <2>3, <3>2 DEF Store!OperatorRemoves
      <4>2. raw'[h] = [g \in DOMAIN raw[h] \ {file} |-> raw[h][g]]
        BY <2>1, <4>1
      <4>3. raw'[h] # NoDir
        BY <2>1, <4>2, RemoveOneFile, NoDirAssumption
      <4> QED BY <4>2, <4>3
    <3> QED BY <3>1, <3>2
  <2> QED
    BY <2>2, <2>3 DEF Store!Next
<1> QED
  BY <1>1, StepRefines, InductiveInvariant, PTL DEF NeverOverwritten, Spec, SafeSpec

-----------------------------------------------------------------------------
(* Every invocation runs out of steps.                                     *)

LEMMA RangeProperties ==
    ASSUME TypeOK, NEW p \in Procs
    PROVE  /\ job[p].lo \in Nat /\ job[p].hi \in Nat /\ at[p] \in Nat
           /\ \A n \in Nat : HeightsFrom(p, n) \in Nat
           /\ \A n \in Nat : n <= job[p].hi =>
                 HeightsFrom(p, n) = HeightsFrom(p, n + 1) + 1
<1>1. job[p].lo \in Nat /\ job[p].hi \in Nat /\ at[p] \in Nat
  BY JobProperties DEF TypeOK
<1> QED
  BY <1>1 DEF HeightsFrom

\* The three files, one more of which is written.
LEMMA FilesLeft ==
    ASSUME NEW files \in SUBSET RequiredFiles
    PROVE  /\ Cardinality(RequiredFiles \ files) \in 0..3
           /\ Cardinality(RequiredFiles \ {}) = 3
           /\ \A file \in RequiredFiles \ files :
                 Cardinality(RequiredFiles \ (files \cup {file}))
                    = Cardinality(RequiredFiles \ files) - 1
<1>1. IsFiniteSet(RequiredFiles) /\ Cardinality(RequiredFiles) = 3
  <2>1. IsFiniteSet({}) /\ Cardinality({}) = 0
    BY FS_EmptySet
  <2>2. IsFiniteSet({BlockJson}) /\ Cardinality({BlockJson}) = 1
    BY <2>1, FS_AddElement, FS_Singleton
  <2>3. /\ IsFiniteSet({BlockJson, TxsJsonl})
        /\ Cardinality({BlockJson, TxsJsonl}) = 2
    <3>1. TxsJsonl \notin {BlockJson} /\ {BlockJson} \cup {TxsJsonl} = {BlockJson, TxsJsonl}
      BY DEF BlockJson, TxsJsonl
    <3> QED BY <2>2, <3>1, FS_AddElement
  <2>4. /\ MetaJson \notin {BlockJson, TxsJsonl}
        /\ {BlockJson, TxsJsonl} \cup {MetaJson} = RequiredFiles
    BY DEF RequiredFiles, BlockJson, TxsJsonl, MetaJson
  <2> QED
    BY <2>3, <2>4, FS_AddElement
<1>2. ASSUME NEW left \in SUBSET RequiredFiles
      PROVE  IsFiniteSet(left) /\ Cardinality(left) \in 0..3
  BY <1>1, FS_Subset, FS_CardinalityType
<1>3. ASSUME NEW file \in RequiredFiles \ files
      PROVE  Cardinality(RequiredFiles \ (files \cup {file}))
               = Cardinality(RequiredFiles \ files) - 1
  <2>1. RequiredFiles \ (files \cup {file}) = (RequiredFiles \ files) \ {file}
    OBVIOUS
  <2> QED
    BY <1>2, <2>1, FS_RemoveElement
<1>4. RequiredFiles \ {} = RequiredFiles
  OBVIOUS
<1> QED
  BY <1>1, <1>2, <1>3, <1>4

\* While it works on a height it has between one and eight steps left there.
LEMMA WorkingSteps ==
    ASSUME IInv, NEW p \in Procs, pc[p] \in Working
    PROVE  /\ StepsAtHeight(p) \in 1..8
           /\ at[p] <= job[p].hi
           /\ StepsLeft(p) = StepsAtHeight(p) + 8 * HeightsFrom(p, at[p] + 1)
                                + HeightsFrom(p, job[p].lo) + 1
<1>1. StepsAtHeight(p) \in 1..8
  <2>1. CASE pc[p] = "write"
    <3>1. PICK files \in SUBSET RequiredFiles : tmp[p] = Part(got[p], files)
      BY <2>1 DEF IInv, TypeOK, Holding
    <3>2. DOMAIN tmp[p] = files
      BY <3>1 DEF Part
    <3> QED BY <2>1, <3>2, FilesLeft DEF StepsAtHeight
  <2> QED
    BY <2>1 DEF StepsAtHeight, Working
<1>2. at[p] <= job[p].hi
  BY RangeProperties DEF IInv, Placed, HeightsOf
<1> QED
  BY <1>1, <1>2 DEF StepsLeft, Working, Ended

\* Leaving a height, for the next, for the final check or for good.
LEMMA AdvanceTakesStep ==
    ASSUME IInv, NEW p \in Procs, pc[p] \in Working,
           Succeed(p) \/ (\E r \in Reasons : Fail(p, r)), UNCHANGED job
    PROVE  StepsLeft(p)' \in 0..(StepsLeft(p) - 1)
<1>1. PICK exit \in {"exit0", "exit1"} : Advance(p, exit)
  BY DEF Succeed, Fail
<1> DEFINE n == HeightsFrom(p, at[p] + 1)
           m == HeightsFrom(p, job[p].lo)
<1>2. /\ job[p].hi \in Nat /\ job[p].lo \in Nat /\ at[p] \in Nat
      /\ n \in Nat /\ m \in Nat
      /\ StepsLeft(p) \in Nat /\ StepsLeft(p) >= 8 * n + m + 2
  BY RangeProperties, WorkingSteps DEF IInv
<1>3. CASE job[p].tool = "fetch_block"
  <2>1. pc'[p] = exit
    BY <1>1, <1>3 DEF Advance, Goto, IInv, TypeOK
  <2> QED
    BY <1>2, <2>1 DEF StepsLeft, Working, Ended
<1>4. CASE job[p].tool # "fetch_block" /\ MoreHeights(p, exit)
  <2>1. pc'[p] = "check" /\ at'[p] = at[p] + 1
    BY <1>1, <1>4 DEF Advance, Goto, NextHeight, IInv, TypeOK
  <2>2. n = HeightsFrom(p, at[p] + 2) + 1
    BY <1>2, <1>4 DEF MoreHeights, HeightsFrom
  <2>3. StepsLeft(p)' = 8 + 8 * HeightsFrom(p, at[p] + 2) + m + 1
    <3>1. StepsAtHeight(p)' = 8
      BY <2>1 DEF StepsAtHeight
    <3>2. HeightsFrom(p, at[p] + 1)' = HeightsFrom(p, at[p] + 2)
      BY <1>2, <2>1 DEF HeightsFrom
    <3>3. HeightsFrom(p, job[p].lo)' = m
      BY DEF HeightsFrom
    <3> QED BY <2>1, <3>1, <3>2, <3>3 DEF StepsLeft, Working, Ended
  <2>4. HeightsFrom(p, at[p] + 2) \in Nat
    BY <1>2 DEF HeightsFrom
  <2> QED
    BY <1>2, <2>2, <2>3, <2>4
<1>5. CASE job[p].tool # "fetch_block" /\ ~MoreHeights(p, exit)
  <2>1. pc'[p] = "verify" /\ at'[p] = job[p].lo
    BY <1>1, <1>5 DEF Advance, Goto, IInv, TypeOK
  <2>2. StepsLeft(p)' = m + 1
    BY <2>1 DEF StepsLeft, Working, HeightsFrom, Ended
  <2> QED
    BY <1>2, <2>2
<1> QED
  BY <1>3, <1>4, <1>5

LEMMA OwnStepTakesStep ==
    ASSUME IInv, NEW p \in Procs, Step(p) \/ Interrupt(p) \/ Kill(p)
    PROVE  StepsLeft(p)' \in 0..(StepsLeft(p) - 1)
<1> DEFINE n == HeightsFrom(p, at[p] + 1)
           m == HeightsFrom(p, job[p].lo)
<1>0. /\ job[p].hi \in Nat /\ job[p].lo \in Nat /\ at[p] \in Nat
      /\ n \in Nat /\ m \in Nat
      /\ pc \in [Procs -> {"start"} \cup Running \cup Ended]
      /\ DOMAIN tmp = Procs /\ at \in [Procs -> Nat]
  BY RangeProperties DEF IInv, TypeOK
<1>1. ASSUME pc[p] \in {"start", "verify"} \cup Working, pc'[p] \in Ended
      PROVE  StepsLeft(p)' \in 0..(StepsLeft(p) - 1)
  <2>1. StepsLeft(p)' = 0
    BY <1>1 DEF StepsLeft, Working, Ended
  <2>2. StepsLeft(p) \in Nat \ {0}
    <3>1. CASE pc[p] \in Working
      BY <1>0, <3>1, WorkingSteps
    <3>2. CASE pc[p] = "start"
      BY <1>0, <3>2 DEF StepsLeft, Working, Ended
    <3>3. CASE pc[p] = "verify"
      BY <1>0, <3>3, RangeProperties DEF StepsLeft, Working, IInv, Ended
    <3> QED BY <1>1, <3>1, <3>2, <3>3
  <2> QED BY <2>1, <2>2
<1>2. CASE Interrupt(p) \/ Kill(p) \/ StartFails(p) \/ Exit(p)
  BY <1>0, <1>1, <1>2 DEF Interrupt, Kill, StartFails, Exit, ExitCode, Goto, Running, Working, Ended
<1>3. CASE Start(p)
  <2>1. pc[p] = "start" /\ at[p] = job[p].lo
    BY <1>3 DEF Start, IInv, Placed
  <2>2. StepsLeft(p) = 9 * m + 2
    BY <2>1 DEF StepsLeft, Ended, Working
  <2>3. CASE HeightsOf(job[p]) = {}
    <3>1. pc'[p] = "verify"
      BY <1>0, <1>3, <2>3 DEF Start, Goto
    <3>2. StepsLeft(p)' = m + 1
      BY <1>3, <2>1, <3>1 DEF Start, StepsLeft, HeightsFrom, Working, Ended
    <3> QED BY <1>0, <2>2, <3>2
  <2>4. CASE HeightsOf(job[p]) # {}
    <3>1. pc'[p] = "check"
      BY <1>0, <1>3, <2>4 DEF Start, Goto
    <3>2. StepsLeft(p)' = 8 + 8 * n + m + 1
      BY <1>3, <3>1 DEF Start, StepsLeft, StepsAtHeight, HeightsFrom, Working, Ended
    <3>3. m = n + 1
      BY <1>0, <2>1, <2>4 DEF HeightsOf, HeightsFrom
    <3> QED BY <1>0, <2>2, <3>2, <3>3
  <2> QED BY <2>3, <2>4
<1>4. ASSUME pc[p] \in Working, pc'[p] \in Working, UNCHANGED <<at, job>>,
             StepsAtHeight(p)' \in 1..(StepsAtHeight(p) - 1)
      PROVE  StepsLeft(p)' \in 0..(StepsLeft(p) - 1)
  <2>1. StepsLeft(p)' = StepsAtHeight(p)' + 8 * n + m + 1
    BY <1>4 DEF StepsLeft, HeightsFrom, Working, Ended
  <2>2. StepsLeft(p) = StepsAtHeight(p) + 8 * n + m + 1 /\ StepsAtHeight(p) \in 1..8
    BY <1>4, WorkingSteps
  <2> QED BY <1>0, <1>4, <2>1, <2>2
<1>5. CASE Check(p)
  <2>1. pc[p] = "check" /\ pc'[p] \in {"exit0", "ingest"} /\ UNCHANGED <<at, job>>
    BY <1>0, <1>5 DEF Check, Goto
  <2>2. CASE pc'[p] = "ingest"
    BY <1>4, <2>1, <2>2 DEF StepsAtHeight, Working
  <2> QED BY <1>1, <2>1, <2>2 DEF Ended, Working
<1>6. CASE IngestStarts(p) \/ FetchReturns(p)
  BY <1>0, <1>4, <1>6 DEF IngestStarts, FetchReturns, Goto, StepsAtHeight, Working
<1>7. CASE MakeTemp(p)
  <2>1. /\ pc[p] = "mkdtemp" /\ pc'[p] = "write" /\ UNCHANGED <<at, job>>
        /\ DOMAIN tmp'[p] = {}
    BY <1>0, <1>7 DEF MakeTemp, Goto, Part
  <2>2. StepsAtHeight(p)' = 4 /\ StepsAtHeight(p) = 5
    BY <2>1, FilesLeft DEF StepsAtHeight
  <2> QED BY <1>4, <2>1, <2>2 DEF Working
<1>8. CASE WriteFile(p)
  <2>1. PICK old \in SUBSET RequiredFiles : tmp[p] = Part(got[p], old)
    BY <1>8 DEF WriteFile, IInv, TypeOK, Holding
  <2>2. DOMAIN tmp[p] = old
    BY <2>1 DEF Part
  <2>3. PICK file \in RequiredFiles \ old :
          /\ tmp' = [tmp EXCEPT ![p] = Part(got[p], old \cup {file})]
          /\ Goto(p, IF AllWritten(old \cup {file}) THEN "replace" ELSE "write")
    BY <1>8, <2>2 DEF WriteFile
  <2>4. DOMAIN tmp'[p] = old \cup {file}
    BY <1>0, <2>3 DEF Part
  <2>5. pc[p] = "write" /\ UNCHANGED <<at, job>>
    BY <1>8 DEF WriteFile
  <2> DEFINE c == Cardinality(RequiredFiles \ old)
  <2>6. /\ c \in 1..3
        /\ Cardinality(RequiredFiles \ (old \cup {file})) = c - 1
        /\ StepsAtHeight(p) = 1 + c
    <3>1. c \in 0..3 /\ Cardinality(RequiredFiles \ (old \cup {file})) = c - 1
      BY <2>3, FilesLeft
    <3>2. c - 1 \in 0..3
      BY <3>1, FilesLeft
    <3> QED BY <2>2, <2>5, <3>1, <3>2 DEF StepsAtHeight
  <2>7. CASE AllWritten(old \cup {file})
    <3>1. pc'[p] = "replace"
      BY <1>0, <2>3, <2>7 DEF Goto
    <3> QED BY <1>4, <2>5, <2>6, <3>1 DEF StepsAtHeight, Working
  <2>8. CASE ~AllWritten(old \cup {file})
    <3>1. pc'[p] = "write"
      BY <1>0, <2>3, <2>8 DEF Goto
    <3>2. StepsAtHeight(p)' = c
      BY <2>4, <2>6, <3>1 DEF StepsAtHeight
    <3> QED BY <1>4, <2>5, <2>6, <3>1, <3>2 DEF Working
  <2> QED BY <2>7, <2>8
<1>9. CASE \/ IngestSkips(p) \/ FetchRaises(p) \/ MakeTempFails(p)
           \/ WriteFails(p) \/ Replace(p) \/ ReplaceRefused(p)
  BY <1>9, AdvanceTakesStep DEF IngestSkips, FetchRaises, MakeTempFails, WriteFails,
                                Replace, ReplaceRefused, Working, Reasons
<1>10. CASE VerifyHeight(p)
  <2>1. pc[p] = "verify" /\ pc'[p] = "verify" /\ at'[p] = at[p] + 1 /\ job' = job
        /\ at[p] <= job[p].hi
    BY <1>0, <1>10 DEF VerifyHeight
  <2>2. StepsLeft(p) = HeightsFrom(p, at[p]) + 1 /\ StepsLeft(p)' = n + 1
    BY <2>1 DEF StepsLeft, HeightsFrom, Working, Ended
  <2>3. HeightsFrom(p, at[p]) = n + 1
    BY <1>0, <2>1 DEF HeightsFrom
  <2> QED BY <1>0, <2>2, <2>3
<1> QED
  BY <1>2, <1>3, <1>5, <1>6, <1>7, <1>8, <1>9, <1>10 DEF Step

\* A step of another invocation, or of an operator, leaves alone what is
\* this one's own, and the number of its steps with it.
LEMMA OthersTakeNone ==
    ASSUME IInv, NEW p \in Procs, own(p)' = own(p), job' = job
    PROVE  StepsLeft(p)' = StepsLeft(p)
BY DEF own, StepsLeft, StepsAtHeight, HeightsFrom, Ended, Working

LEMMA OthersKeepOwn ==
    ASSUME IInv, NEW p \in Procs, NEW q \in Procs \ {p},
           Step(q) \/ Interrupt(q) \/ Kill(q)
    PROVE  own(p)' = own(p)
<1>1. /\ DOMAIN pc = Procs /\ DOMAIN at = Procs /\ DOMAIN was = Procs
      /\ DOMAIN got = Procs /\ DOMAIN tmp = Procs /\ DOMAIN result = Procs
      /\ DOMAIN incomplete = Procs
  BY DEF IInv, TypeOK
<1>2. ASSUME NEW label, Goto(q, label) PROVE pc'[p] = pc[p]
  BY <1>1, <1>2 DEF Goto
<1>3. ASSUME NEW exit, Advance(q, exit)
      PROVE  <<pc[p], at[p], got[p], tmp[p]>>' = <<pc[p], at[p], got[p], tmp[p]>>
  BY <1>1, <1>3 DEF Advance, Goto
<1>4. ASSUME Succeed(q) \/ (\E r \in Reasons : Fail(q, r))
      PROVE  <<pc[p], at[p], got[p], tmp[p], result[p]>>'
                = <<pc[p], at[p], got[p], tmp[p], result[p]>>
  BY <1>1, <1>3, <1>4 DEF Succeed, Fail
<1>5. CASE Start(q) \/ StartFails(q) \/ Check(q) \/ IngestStarts(q) \/ FetchReturns(q)
  BY <1>1, <1>2, <1>5 DEF Start, StartFails, Check, IngestStarts, FetchReturns, own
<1>6. CASE MakeTemp(q) \/ WriteFile(q) \/ VerifyHeight(q) \/ Exit(q)
  BY <1>1, <1>2, <1>6 DEF MakeTemp, WriteFile, VerifyHeight, Exit, own
<1>7. CASE Interrupt(q) \/ Kill(q)
  BY <1>1, <1>2, <1>7 DEF Interrupt, Kill, own
<1>8. CASE \/ IngestSkips(q) \/ FetchRaises(q) \/ MakeTempFails(q)
           \/ WriteFails(q) \/ Replace(q) \/ ReplaceRefused(q)
  BY <1>4, <1>8 DEF IngestSkips, FetchRaises, MakeTempFails, WriteFails, Replace,
                    ReplaceRefused, Reasons, own
<1> QED
  BY <1>5, <1>6, <1>7, <1>8 DEF Step

\* No invocation can go on for ever, whatever fails, whoever else runs and
\* whatever an operator deletes: it has at most nine steps for each height
\* of its range and two more.
THEOREM StepsAreBounded == Spec => StepsRunOut
<1>1. IInv /\ [Next]_vars =>
        [\A p \in Procs : IF own(p)' = own(p) THEN StepsLeft(p)' = StepsLeft(p)
                          ELSE StepsLeft(p)' \in 0..(StepsLeft(p) - 1)]_vars
  <2> SUFFICES ASSUME IInv, Next, NEW p \in Procs
               PROVE  IF own(p)' = own(p) THEN StepsLeft(p)' = StepsLeft(p)
                      ELSE StepsLeft(p)' \in 0..(StepsLeft(p) - 1)
    OBVIOUS
  <2>1. job' = job
    BY DEF Next, Step, Start, StartFails, Check, IngestSkips, IngestStarts, FetchReturns,
           FetchRaises, MakeTemp, MakeTempFails, WriteFile, WriteFails, Replace, ReplaceRefused,
           VerifyHeight, Exit, Interrupt, Kill, OperatorRemoves
  <2>2. CASE own(p)' = own(p)
    BY <2>1, <2>2, OthersTakeNone
  <2>3. CASE own(p)' # own(p)
    <3>1. ASSUME NEW h \in Heights, OperatorRemoves(h) PROVE FALSE
      BY <2>3, <3>1 DEF OperatorRemoves, own
    <3>2. Step(p) \/ Interrupt(p) \/ Kill(p)
      BY <2>3, <3>1, OthersKeepOwn DEF Next
    <3> QED BY <2>3, <3>2, OwnStepTakesStep
  <2> QED BY <2>2, <2>3
<1> QED
  BY <1>1, InductiveInvariant, PTL DEF StepsRunOut, Spec, SafeSpec

-----------------------------------------------------------------------------
(* Properties that hold as long as nobody deletes directories.             *)

LEMMA CompleteHoldsBlock ==
    ASSUME NEW h \in Heights, StoredWhole(h), IsComplete(raw[h])
    PROVE  HoldsBlock(h)
<1>1. PICK f \in Fetches(h) : raw[h] = Directory(f)
  BY DEF StoredWhole, IsComplete
<1> QED
  BY <1>1, CompleteIsWhole, PartProperties DEF HoldsBlock, Directory, IsComplete

\* Without deletions a directory never changes, and a new one is whole.
LEMMA DirectoryStays ==
    ASSUME IInv, [Next]_vars, ~OperatorDeletes, \A h \in Heights : StoredWhole(h)
    PROVE  /\ \A h \in Heights : raw[h] # NoDir => raw'[h] = raw[h]
           /\ \A h \in Heights : StoredWhole(h)'
<1>1. \A h \in Heights : \A f \in Fetches(h) : DOMAIN Directory(f) # {}
  BY DEF Directory, Part, RequiredFiles
<1>2. CASE raw' = raw
  BY <1>2 DEF StoredWhole
<1>3. ASSUME NEW k \in Heights, Store!Publish(k)
      PROVE  /\ \A h \in Heights : raw[h] # NoDir => raw'[h] = raw[h]
             /\ \A h \in Heights : StoredWhole(h)'
  <2>1. raw[k] = NoDir /\ DOMAIN raw = Heights
    BY <1>1, <1>3 DEF Store!Publish, Store!Free, StoredWhole, IInv, TypeOK
  <2>2. PICK f \in Fetches(k) : raw' = [raw EXCEPT ![k] = Directory(f)]
    BY <1>3, SameData DEF Store!Publish
  <2> QED
    BY <2>1, <2>2 DEF StoredWhole
<1> QED
  BY <1>2, <1>3, StepRefines DEF Store!Next, Store!OperatorRemoves

LEMMA InitKept == Init => KeptInv
<1> SUFFICES ASSUME Init PROVE KeptInv
  OBVIOUS
<1>1. \A h \in Heights : StoredWhole(h)
  BY DEF Init, StoredWhole
<1>2. ASSUME NEW p \in Procs PROVE SkipTest(p) /\ Reported(p) /\ Verified(p)
  <2>1. /\ pc[p] = "start" /\ was[p] = FALSE
        /\ result[p] = [fetched |-> {}, skipped |-> {}, failed |-> {}]
    BY DEF Init
  <2> QED
    BY <2>1 DEF SkipTest, Reported, Verified
<1> QED
  BY <1>1, <1>2 DEF KeptInv

\* An invocation that takes no step keeps its part of the invariant.
LEMMA IdleKept ==
    ASSUME IInv, NEW q \in Procs, SkipTest(q), Reported(q), Verified(q),
           \A h \in Heights : raw[h] # NoDir => raw'[h] = raw[h],
           was'[q] = was[q], pc'[q] = pc[q], at'[q] = at[q], job'[q] = job[q],
           result'[q] = result[q], incomplete'[q] = incomplete[q]
    PROVE  SkipTest(q)' /\ Reported(q)' /\ Verified(q)'
<1>1. \A h \in Heights : IsComplete(raw[h]) => IsComplete(raw'[h])
  BY DEF IsComplete
<1>2. /\ result[q].skipped \subseteq Heights /\ result[q].fetched \subseteq Heights
      /\ HeightsOf(job[q]) \subseteq Heights
      /\ pc[q] = "ingest" => at[q] \in Heights
  BY JobProperties DEF IInv, TypeOK, Placed, Working
<1>3. SkipTest(q)'
  BY <1>1, <1>2 DEF SkipTest, AlreadyComplete
<1>4. Reported(q)'
  BY <1>1, <1>2, NoDirAssumption DEF Reported
<1>5. Verified(q)'
  BY <1>1, <1>2 DEF Verified
<1> QED
  BY <1>3, <1>4, <1>5

\* A step of one invocation leaves the others' variables alone.
LEMMA OthersIdle ==
    ASSUME IInv, NEW p \in Procs, Step(p) \/ Interrupt(p) \/ Kill(p), NEW q \in Procs \ {p}
    PROVE  /\ was'[q] = was[q] /\ pc'[q] = pc[q] /\ at'[q] = at[q] /\ job'[q] = job[q]
           /\ result'[q] = result[q] /\ incomplete'[q] = incomplete[q]
<1> USE DEF IInv, TypeOK
<1>1. ASSUME NEW exit, Advance(p, exit) PROVE pc'[q] = pc[q] /\ at'[q] = at[q]
  BY <1>1 DEF Advance, Goto
<1>2. ASSUME Succeed(p) \/ (\E r \in Reasons : Fail(p, r))
      PROVE  pc'[q] = pc[q] /\ at'[q] = at[q] /\ result'[q] = result[q]
  BY <1>1, <1>2 DEF Succeed, Fail
<1>3. CASE Start(p) \/ StartFails(p) \/ Check(p) \/ IngestStarts(p) \/ FetchReturns(p)
           \/ MakeTemp(p) \/ WriteFile(p) \/ VerifyHeight(p) \/ Exit(p)
           \/ Interrupt(p) \/ Kill(p)
  BY <1>3 DEF Start, StartFails, Check, IngestStarts, FetchReturns, MakeTemp, WriteFile,
              VerifyHeight, Exit, Interrupt, Kill, Goto
<1>4. CASE IngestSkips(p) \/ FetchRaises(p) \/ MakeTempFails(p) \/ WriteFails(p)
           \/ Replace(p) \/ ReplaceRefused(p)
  BY <1>2, <1>4 DEF IngestSkips, FetchRaises, MakeTempFails, WriteFails, Replace,
                    ReplaceRefused, Reasons
<1> QED
  BY <1>3, <1>4 DEF Step

\* What the end of a height leaves of the invariant to prove: its report.
LEMMA AdvanceKept ==
    ASSUME IInv, NEW p \in Procs, pc[p] \in Working, NEW exit \in {"exit0", "exit1"},
           Advance(p, exit), job' = job
    PROVE  SkipTest(p)' /\ Verified(p)'
<1>1. \/ job[p].tool = "fetch_block" /\ pc'[p] = exit
      \/ pc'[p] = "check"
      \/ pc'[p] = "verify" /\ at'[p] = job[p].lo
  BY DEF IInv, TypeOK, Advance, Goto
<1>2. SkipTest(p)'
  BY <1>1 DEF SkipTest
<1>3. \A h \in HeightsOf(job[p]) : ~(h < job[p].lo)
  BY JobProperties DEF IInv, TypeOK, HeightsOf
<1>4. Verified(p)'
  BY <1>1, <1>3 DEF Verified
<1> QED
  BY <1>2, <1>4

LEMMA NextKept == IInv /\ KeptInv /\ [Next]_vars => KeptInv'
<1> SUFFICES ASSUME IInv, KeptInv, [Next]_vars, ~OperatorDeletes
             PROVE  /\ \A h \in Heights : StoredWhole(h)'
                    /\ \A q \in Procs : SkipTest(q)' /\ Reported(q)' /\ Verified(q)'
  BY DEF KeptInv
<1>1. /\ \A h \in Heights : StoredWhole(h)
      /\ \A q \in Procs : SkipTest(q) /\ Reported(q) /\ Verified(q)
  BY DEF KeptInv
<1>2. /\ \A h \in Heights : raw[h] # NoDir => raw'[h] = raw[h]
      /\ \A h \in Heights : StoredWhole(h)'
  BY <1>1, DirectoryStays
<1>3. \A h \in Heights : IsComplete(raw[h]) => IsComplete(raw'[h]) /\ raw[h] # NoDir
  BY <1>2 DEF IsComplete
<1>4. ASSUME NEW p \in Procs, Step(p) \/ Interrupt(p) \/ Kill(p)
      PROVE  SkipTest(p)' /\ Reported(p)' /\ Verified(p)'
  <2>1. /\ SkipTest(p) /\ Reported(p) /\ Verified(p)
        /\ result[p].skipped \subseteq Heights /\ result[p].fetched \subseteq Heights
        /\ HeightsOf(job[p]) \subseteq Heights
        /\ pc[p] \in Working => at[p] \in Heights
        /\ job[p].lo \in Nat /\ job[p].hi \in Nat /\ at[p] \in Nat
    BY <1>1, JobProperties DEF IInv, TypeOK, Placed
  <2>2. Reported(p) /\ result' = result => Reported(p)'
    BY <1>2, <1>3, <2>1 DEF Reported
  <2>3. ASSUME pc[p] \in Working, Succeed(p), job' = job, raw'[at[p]] # NoDir,
               was[p] => IsComplete(raw[at[p]])
        PROVE  SkipTest(p)' /\ Reported(p)' /\ Verified(p)'
    <3>1. \/ /\ was[p]
             /\ result'[p] = [result[p] EXCEPT !.skipped = @ \cup {at[p]}]
          \/ /\ ~was[p]
             /\ result'[p] = [result[p] EXCEPT !.fetched = @ \cup {at[p]}]
      BY <2>3 DEF Succeed, IInv, TypeOK
    <3>2. Reported(p)'
      <4>1. /\ \A h \in result'[p].skipped : h \in result[p].skipped \/ (was[p] /\ h = at[p])
            /\ \A h \in result'[p].fetched : h \in result[p].fetched \/ h = at[p]
            /\ result'[p].failed = result[p].failed
        BY <3>1 DEF IInv, TypeOK
      <4> QED
        BY <1>2, <1>3, <2>1, <2>3, <4>1, NoDirAssumption DEF Reported
    <3> QED
      BY <2>3, <3>2, AdvanceKept DEF Succeed
  <2>4. ASSUME NEW r \in Reasons, pc[p] \in Working, Fail(p, r), job' = job,
               r = "not empty" => raw[at[p]] # NoDir
        PROVE  SkipTest(p)' /\ Reported(p)' /\ Verified(p)'
    <3>1. result'[p] = [result[p] EXCEPT !.failed = @ \cup {<<at[p], r>>}]
      BY <2>4 DEF Fail, IInv, TypeOK
    <3>2. Reported(p)'
      <4>1. /\ result'[p].skipped = result[p].skipped
            /\ result'[p].fetched = result[p].fetched
            /\ \A x \in result'[p].failed : x \in result[p].failed \/ x = <<at[p], r>>
        BY <3>1 DEF IInv, TypeOK
      <4> QED
        BY <1>2, <1>3, <2>1, <2>4, <4>1 DEF Reported
    <3> QED
      BY <2>4, <3>2, AdvanceKept DEF Fail
  <2>5. CASE Start(p) \/ StartFails(p)
    <3>1. /\ pc'[p] \in {"verify", "check", "exit1"} /\ result' = result
          /\ at'[p] = job[p].lo /\ job' = job
      BY <2>5 DEF Start, StartFails, Goto, IInv, TypeOK, Placed
    <3>2. \A h \in HeightsOf(job[p]) : ~(h < job[p].lo)
      BY <2>1 DEF HeightsOf
    <3> QED
      BY <2>1, <2>2, <3>1, <3>2 DEF SkipTest, Verified
  <2>6. CASE Check(p)
    <3>1. /\ pc'[p] = "ingest" \/ (pc'[p] = "exit0" /\ job[p].tool = "fetch_block")
          /\ was'[p] = AlreadyComplete(p) /\ result' = result
          /\ at' = at /\ job' = job /\ raw' = raw
      BY <2>6 DEF Check, Goto, IInv, TypeOK
    <3> QED
      BY <2>1, <2>2, <3>1 DEF SkipTest, Verified, AlreadyComplete
  <2>7. CASE IngestSkips(p)
    BY <1>3, <2>1, <2>3, <2>7 DEF IngestSkips, AlreadyComplete, Working
  <2>8. CASE IngestStarts(p)
    <3>1. /\ pc'[p] = "fetch" /\ was' = was /\ ~was[p] /\ result' = result
      BY <2>1, <2>8 DEF IngestStarts, Goto, SkipTest, IInv, TypeOK
    <3> QED
      BY <2>1, <2>2, <3>1 DEF SkipTest, Verified
  <2>9. CASE FetchReturns(p) \/ MakeTemp(p) \/ WriteFile(p)
    <3>1. /\ pc'[p] \in {"mkdtemp", "write", "replace"} /\ was' = was /\ ~was[p]
          /\ result' = result
      BY <2>1, <2>9 DEF FetchReturns, ThisHeight, MakeTemp, WriteFile, Goto, SkipTest, IInv, TypeOK
    <3> QED
      BY <2>1, <2>2, <3>1 DEF SkipTest, Verified
  <2>10. CASE FetchRaises(p) \/ MakeTempFails(p) \/ WriteFails(p)
    BY <2>4, <2>10 DEF FetchRaises, MakeTempFails, WriteFails, Working, Reasons
  <2>11. CASE Replace(p)
    <3>1. /\ at[p] \in Heights /\ pc[p] = "replace" /\ ~was[p]
          /\ got[p] \in Fetches(at[p]) /\ tmp[p] = Directory(got[p])
      BY <2>1, <2>11 DEF Replace, SkipTest, IInv, TypeOK, Holding, Working
    <3>2. raw'[at[p]] = tmp[p] /\ tmp[p] # NoDir
      BY <2>11, <3>1, PartProperties DEF Replace, IInv, TypeOK, Directory
    <3> QED
      BY <2>3, <2>11, <3>1, <3>2 DEF Replace, Working
  <2>12. CASE ReplaceRefused(p)
    BY <2>4, <2>12 DEF ReplaceRefused, CanReplace, Working, Reasons
  <2>13. CASE VerifyHeight(p)
    <3>1. /\ pc[p] = "verify" /\ pc' = pc /\ job' = job /\ raw' = raw /\ result' = result
          /\ at'[p] = at[p] + 1
          /\ incomplete'[p] = IF IsComplete(raw[at[p]]) THEN incomplete[p]
                              ELSE incomplete[p] \cup {at[p]}
      BY <2>13 DEF VerifyHeight, IInv, TypeOK
    <3>2. \A h \in HeightsOf(job[p]) : h < at[p] + 1 => h < at[p] \/ h = at[p]
      BY <2>1 DEF HeightsOf
    <3> QED
      BY <2>1, <2>2, <3>1, <3>2 DEF SkipTest, Verified
  <2>14. CASE Exit(p)
    <3>1. /\ pc[p] = "verify" /\ at[p] > job[p].hi /\ job' = job /\ raw' = raw
          /\ result' = result
          /\ pc'[p] = IF incomplete[p] = {} THEN "exit0" ELSE "exit1"
      BY <2>14 DEF Exit, ExitCode, Goto, IInv, TypeOK
    <3>2. \A h \in HeightsOf(job[p]) : h < at[p]
      BY <2>1, <3>1 DEF HeightsOf
    <3> QED
      BY <2>1, <2>2, <3>1, <3>2 DEF SkipTest, Verified
  <2>15. CASE Interrupt(p) \/ Kill(p)
    <3>1. pc'[p] \in {"interrupted", "killed"} /\ result' = result
      BY <2>15 DEF Interrupt, Kill, Goto, IInv, TypeOK
    <3> QED
      BY <2>1, <2>2, <3>1 DEF SkipTest, Verified
  <2> QED
    BY <1>4, <2>5, <2>6, <2>7, <2>8, <2>9, <2>10, <2>11, <2>12, <2>13, <2>14, <2>15 DEF Step
<1>5. ASSUME NEW p \in Procs, Step(p) \/ Interrupt(p) \/ Kill(p)
      PROVE  \A q \in Procs : SkipTest(q)' /\ Reported(q)' /\ Verified(q)'
  <2>1. ASSUME NEW q \in Procs \ {p} PROVE SkipTest(q)' /\ Reported(q)' /\ Verified(q)'
    BY <1>1, <1>2, <1>5, OthersIdle, IdleKept
  <2> QED
    BY <1>4, <1>5, <2>1
<1>6. ASSUME UNCHANGED <<pc, job, at, was, result, incomplete>>
      PROVE  \A q \in Procs : SkipTest(q)' /\ Reported(q)' /\ Verified(q)'
  BY <1>1, <1>2, <1>6, IdleKept
<1> QED
  BY <1>2, <1>5, <1>6 DEF Next, vars, OperatorRemoves

THEOREM KeptInvariant == Spec => []KeptInv
BY InitKept, NextKept, InductiveInvariant, PTL DEF Spec, SafeSpec

\* Exit status 0 of fetch_blocks means every block of its range is on disk
\* in full, with any number of invocations, failures and kills around it.
THEOREM ExitZeroMeansComplete == Spec => []ExitZeroIsComplete
<1>1. IInv /\ KeptInv => ExitZeroIsComplete
  BY CompleteHoldsBlock, JobProperties
     DEF IInv, TypeOK, KeptInv, Verified, ExitZeroIsComplete
<1> QED
  BY <1>1, InductiveInvariant, KeptInvariant, PTL

\* What an invocation reports of a height agrees with the disk, though the
\* list it reports it in was chosen before the ingest.
THEOREM ResultsAgree == Spec => []ResultsMatchStore
<1>1. IInv /\ KeptInv => ResultsMatchStore
  BY CompleteHoldsBlock DEF IInv, TypeOK, KeptInv, Reported, ResultsMatchStore
<1> QED
  BY <1>1, InductiveInvariant, KeptInvariant, PTL

-----------------------------------------------------------------------------
(* Every height of a range is reported once.                               *)

\* The lists after a height has ended.
LEMMA EndAccounted ==
    ASSUME IInv, NEW p \in Procs, pc[p] \in Working, Accounted(p), job' = job,
           Succeed(p) \/ (\E r \in Reasons : Fail(p, r))
    PROVE  Accounted(p)'
<1>1. /\ at[p] \in HeightsOf(job[p]) /\ at[p] \in Heights /\ at[p] \in Nat
      /\ job[p].lo \in Nat /\ job[p].hi \in Nat /\ HeightsOf(job[p]) \subseteq Nat
      /\ at[p] \notin ReportedHeights(p) /\ ListsDisjoint(p)
      /\ ReportedHeights(p) = {h \in HeightsOf(job[p]) : h < at[p]}
  BY JobProperties DEF IInv, TypeOK, Placed, Accounted, HeightsOf
<1>2. ReportedHeights(p)' = ReportedHeights(p) \cup {at[p]} /\ ListsDisjoint(p)'
  <2>1. CASE Succeed(p)
    <3>1. \/ result'[p] = [result[p] EXCEPT !.skipped = @ \cup {at[p]}]
          \/ result'[p] = [result[p] EXCEPT !.fetched = @ \cup {at[p]}]
      BY <2>1 DEF Succeed, IInv, TypeOK
    <3>2. FailedHeights(p)' = FailedHeights(p)
      <4>1. result'[p].failed = result[p].failed
        BY <3>1 DEF IInv, TypeOK
      <4> QED BY <4>1 DEF FailedHeights
    <3>3. \/ /\ result'[p].skipped = result[p].skipped \cup {at[p]}
             /\ result'[p].fetched = result[p].fetched
          \/ /\ result'[p].fetched = result[p].fetched \cup {at[p]}
             /\ result'[p].skipped = result[p].skipped
      BY <3>1 DEF IInv, TypeOK
    <3> QED
      BY <1>1, <3>2, <3>3 DEF ReportedHeights, ListsDisjoint
  <2>2. ASSUME NEW r \in Reasons, Fail(p, r)
        PROVE  ReportedHeights(p)' = ReportedHeights(p) \cup {at[p]} /\ ListsDisjoint(p)'
    <3>1. result'[p] = [result[p] EXCEPT !.failed = @ \cup {<<at[p], r>>}]
      BY <2>2 DEF Fail, IInv, TypeOK
    <3>2. /\ result'[p].failed = result[p].failed \cup {<<at[p], r>>}
          /\ result'[p].fetched = result[p].fetched
          /\ result'[p].skipped = result[p].skipped
      BY <3>1 DEF IInv, TypeOK
    <3>3. FailedHeights(p)' = FailedHeights(p) \cup {at[p]}
      BY <1>1, <3>2 DEF FailedHeights
    <3> QED
      BY <1>1, <3>2, <3>3 DEF ReportedHeights, ListsDisjoint
  <2> QED BY <2>1, <2>2
<1>3. PICK exit \in {"exit0", "exit1"} : Advance(p, exit)
  BY DEF Succeed, Fail
<1>4. CASE job[p].tool = "fetch_block"
  BY <1>3, <1>4 DEF IInv, TypeOK, Advance, Goto, Accounted, Working
<1>5. CASE job[p].tool # "fetch_block" /\ at[p] < job[p].hi
  <2>1. pc'[p] = "check" /\ at'[p] = at[p] + 1
    BY <1>3, <1>5 DEF IInv, TypeOK, Advance, Goto, MoreHeights, NextHeight
  <2>2. {h \in HeightsOf(job[p]) : h < at[p] + 1} = {h \in HeightsOf(job[p]) : h < at[p]} \cup {at[p]}
    BY <1>1 DEF HeightsOf
  <2> QED
    BY <1>1, <1>2, <2>1, <2>2 DEF Accounted, Working
<1>6. CASE job[p].tool # "fetch_block" /\ ~(at[p] < job[p].hi)
  <2>1. pc'[p] = "verify"
    BY <1>3, <1>6 DEF IInv, TypeOK, Advance, Goto, MoreHeights
  <2>2. HeightsOf(job[p]) = {h \in HeightsOf(job[p]) : h < at[p]} \cup {at[p]}
    BY <1>1, <1>6 DEF HeightsOf
  <2> QED
    BY <1>1, <1>2, <2>1, <2>2 DEF Accounted, Working
<1> QED
  BY <1>4, <1>5, <1>6

LEMMA NextAccounted ==
    IInv /\ (\A p \in Procs : Accounted(p)) /\ [Next]_vars => (\A p \in Procs : Accounted(p)')
<1> SUFFICES ASSUME IInv, \A q \in Procs : Accounted(q), [Next]_vars
             PROVE  \A q \in Procs : Accounted(q)'
  OBVIOUS
<1>1. ASSUME NEW q \in Procs, pc'[q] = pc[q], at'[q] = at[q], job'[q] = job[q],
             result'[q] = result[q]
      PROVE  Accounted(q)'
  BY <1>1 DEF Accounted, ReportedHeights, FailedHeights, ListsDisjoint
<1>2. ASSUME NEW p \in Procs, Step(p) \/ Interrupt(p) \/ Kill(p) PROVE Accounted(p)'
  <2>1. ASSUME result' = result
        PROVE  /\ ReportedHeights(p)' = ReportedHeights(p)
               /\ ListsDisjoint(p)' <=> ListsDisjoint(p)
    BY <2>1 DEF ReportedHeights, FailedHeights, ListsDisjoint
  <2>2. CASE Start(p) \/ StartFails(p)
    <3>1. /\ pc[p] = "start" /\ result' = result /\ job' = job /\ at'[p] = job[p].lo
          /\ pc'[p] \in {"check", "verify", "exit1"}
          /\ pc'[p] = "verify" => HeightsOf(job[p]) = {}
      BY <2>2 DEF Start, StartFails, Goto, IInv, TypeOK, Placed
    <3>2. {h \in HeightsOf(job[p]) : h < job[p].lo} = {}
      BY JobProperties DEF IInv, TypeOK, HeightsOf
    <3> QED
      BY <2>1, <3>1, <3>2 DEF Accounted, Working
  <2>3. CASE Check(p) \/ IngestStarts(p) \/ FetchReturns(p) \/ MakeTemp(p) \/ WriteFile(p)
    <3>1. /\ pc[p] \in Working /\ pc'[p] \in Working \cup {"exit0"}
          /\ result' = result /\ job' = job /\ at' = at
      BY <2>3 DEF Check, IngestStarts, FetchReturns, MakeTemp, WriteFile, Goto, Working,
                  IInv, TypeOK
    <3> QED
      BY <2>1, <3>1 DEF Accounted, Working
  <2>4. CASE IngestSkips(p) \/ FetchRaises(p) \/ MakeTempFails(p) \/ WriteFails(p)
             \/ Replace(p) \/ ReplaceRefused(p)
    <3>1. /\ pc[p] \in Working /\ job' = job
          /\ Succeed(p) \/ (\E r \in Reasons : Fail(p, r))
      BY <2>4 DEF IngestSkips, FetchRaises, MakeTempFails, WriteFails, Replace,
                  ReplaceRefused, Working, Reasons
    <3> QED BY <3>1, EndAccounted
  <2>5. CASE VerifyHeight(p)
    <3>1. pc[p] = "verify" /\ pc' = pc /\ result' = result /\ job' = job
      BY <2>5 DEF VerifyHeight
    <3> QED
      BY <2>1, <3>1 DEF Accounted, Working
  <2>6. CASE Exit(p) \/ Interrupt(p) \/ Kill(p)
    <3>1. pc'[p] \in Ended
      BY <2>6 DEF Exit, ExitCode, Interrupt, Kill, Goto, Ended, IInv, TypeOK
    <3> QED
      BY <3>1 DEF Accounted, Working, Ended
  <2> QED
    BY <1>2, <2>2, <2>3, <2>4, <2>5, <2>6 DEF Step
<1>3. ASSUME NEW p \in Procs, Step(p) \/ Interrupt(p) \/ Kill(p)
      PROVE  \A q \in Procs : Accounted(q)'
  BY <1>1, <1>2, <1>3, OthersIdle
<1>4. CASE UNCHANGED <<pc, job, at, result>>
  BY <1>1, <1>4
<1> QED
  BY <1>3, <1>4 DEF Next, vars, OperatorRemoves

\* Each height of a range ends in exactly one of fetched, skipped, failed.
THEOREM EveryHeightIsReported == Spec => []EveryHeightReported
<1> DEFINE AInv == \A p \in Procs : Accounted(p)
<1>1. Init => AInv
  <2> SUFFICES ASSUME Init, NEW p \in Procs PROVE Accounted(p)
    OBVIOUS
  <2>1. pc[p] = "start" /\ result[p] = [fetched |-> {}, skipped |-> {}, failed |-> {}]
    BY DEF Init
  <2>2. FailedHeights(p) = {}
    BY <2>1 DEF FailedHeights
  <2> QED
    BY <2>1, <2>2 DEF Accounted, ReportedHeights, ListsDisjoint, Working
<1>2. IInv /\ AInv /\ [Next]_vars => AInv'
  BY NextAccounted
<1>3. AInv => EveryHeightReported
  BY DEF Accounted, EveryHeightReported
<1> HIDE DEF AInv
<1> QED
  BY <1>1, <1>2, <1>3, InductiveInvariant, PTL DEF Spec, SafeSpec

-----------------------------------------------------------------------------
(* The command lines of fetch_blocks.py, for all integers.                 *)

\* The heights from From to To are those that the options name.
LEMMA RangeIsAsked ==
    ASSUME NEW c \in Command, NEW tip \in Int, NEW h \in Int, ~Rejected(c)
    PROVE  h \in From(c, tip)..To(c, tip) <=> Asked(c, tip, h)
<1> USE UnsetAssumption, DefaultsAssumption
        DEF Command, Option, Given, OrDefault, Count, From, To, Asked, Rejected
<1>1. CASE Given(c.start)
  BY <1>1
<1>2. CASE ~Given(c.start)
  BY <1>2
<1> QED
  BY <1>1, <1>2

\* The range of --start-height s --count n.
Counted(s, n) == [start |-> s, end |-> Unset, count |-> n, behind |-> Unset]

\* Ranges fetched one after the other by --start-height and --count, each
\* from where the one before ends, leave no gap and no overlap, whatever the
\* counts, 0 included.
THEOREM CountedRangesTile ==
    ASSUME NEW s \in Int, NEW n \in Nat, NEW m \in Nat, NEW tip \in Int
    PROVE  LET Heights1 == From(Counted(s, n), tip)..To(Counted(s, n), tip)
               Heights2 == From(Counted(s + n, m), tip)..To(Counted(s + n, m), tip)
           IN  /\ Heights1 \cap Heights2 = {}
               /\ Heights1 \cup Heights2
                    = From(Counted(s, n + m), tip)..To(Counted(s, n + m), tip)
BY UnsetAssumption DEF Counted, Given, OrDefault, Count, From, To

\* A range taken from the tip keeps its distance however far the chain has
\* grown when its blocks are fetched: a block that deep is not reorganised
\* any more (config.py:33-35).
THEOREM DepthIsKept ==
    ASSUME NEW c \in Command, ~Given(c.start),
           NEW tip \in Int, NEW grown \in Int, grown >= tip,
           NEW h \in From(c, tip)..To(c, tip)
    PROVE  grown - h >= OrDefault(c.behind, DefaultBehindTip)
BY UnsetAssumption, DefaultsAssumption
   DEF Command, Option, Given, OrDefault, Count, From, To

\* The heights that the options name are those that fetch_blocks.py tries,
\* and those that are on disk when it exits with 0.
THEOREM AskedHeightsAreFetched == Spec => []AskedIsFetched
<1>1. TypeOK /\ ExitZeroIsComplete /\ EveryHeightReported => AskedIsFetched
  <2> SUFFICES ASSUME TypeOK, ExitZeroIsComplete, EveryHeightReported,
                      NEW p \in Procs, NEW c \in Commands, NEW tip \in Tips,
                      Runs(p, c, tip)
               PROVE  /\ pc[p] = "verify" =>
                           ReportedHeights(p) = {h \in Heights : Asked(c, tip, h)}
                      /\ ~OperatorDeletes /\ pc[p] = "exit0" =>
                           \A h \in Heights : Asked(c, tip, h) => HoldsBlock(h)
    BY DEF AskedIsFetched
  <2>1. ~Rejected(c) /\ job[p].tool = "fetch_blocks" /\ HeightsOf(job[p]) = From(c, tip)..To(c, tip)
    BY DEF Runs, Resolve, HeightsOf
  <2>2. HeightsOf(job[p]) \subseteq Heights
    BY JobProperties DEF TypeOK
  <2>3. \A h \in Heights : h \in HeightsOf(job[p]) <=> Asked(c, tip, h)
    <3> TAKE h \in Heights
    <3>1. c \in Command /\ tip \in Int /\ h \in Int
      BY CommandsAssumption, TipsAssumption, HeightsAssumption
    <3> QED
      BY <2>1, <3>1, RangeIsAsked
  <2> QED
    BY <2>1, <2>2, <2>3 DEF ExitZeroIsComplete, EveryHeightReported
<1> QED
  BY <1>1, TypeCorrect, ExitZeroMeansComplete, EveryHeightIsReported, PTL

=============================================================================
