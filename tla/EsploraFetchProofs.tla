-------------------------- MODULE EsploraFetchProofs --------------------------
(***************************************************************************)
(* Proofs, for every page size, number of retries, set of competing blocks *)
(* and block sizes, of the safety properties of EsploraFetch and of the    *)
(* safety part of its refinement of FetchContract.                         *)
(***************************************************************************)
EXTENDS EsploraFetch, SequenceTheorems, TLAPS

-----------------------------------------------------------------------------
(* Lists of transactions.                                                  *)

LEMMA FirstTxsType ==
    ASSUME NEW b \in Hashes, NEW n \in Nat
    PROVE  /\ FirstTxs(b, n) \in Seq(Hashes \X Nat)
           /\ Len(FirstTxs(b, n)) = n
BY DEF FirstTxs

LEMMA FirstTxsEmpty == ASSUME NEW b PROVE FirstTxs(b, 0) = << >>
BY DEF FirstTxs

\* A page appended to the transactions before it.
LEMMA FirstTxsPage ==
    ASSUME NEW b \in Hashes, NEW s \in Nat
    PROVE  /\ PageAt(b, s) \in Seq(Hashes \X Nat)
           /\ Len(PageAt(b, s)) = PageLength(b, s)
           /\ PageLength(b, s) \in Nat
           /\ FirstTxs(b, s) \o PageAt(b, s) = FirstTxs(b, s + PageLength(b, s))
<1>1. PageLength(b, s) \in Nat
  BY SizeAssumption, PageSizeAssumption DEF PageLength
<1>2. /\ PageAt(b, s) \in Seq(Hashes \X Nat)
      /\ Len(PageAt(b, s)) = PageLength(b, s)
  BY <1>1 DEF PageAt
<1>3. FirstTxs(b, s) \o PageAt(b, s) = FirstTxs(b, s + PageLength(b, s))
  <2> DEFINE m == PageLength(b, s)
             l == FirstTxs(b, s) \o PageAt(b, s)
             r == FirstTxs(b, s + m)
  <2>1. l \in Seq(Hashes \X Nat) /\ Len(l) = s + m
    BY <1>1, <1>2, FirstTxsType, ConcatProperties
  <2>2. r \in Seq(Hashes \X Nat) /\ Len(r) = s + m
    BY <1>1, FirstTxsType
  <2>3. ASSUME NEW i \in 1..(s + m) PROVE l[i] = r[i]
    BY <1>1, <1>2, FirstTxsType, ConcatProperties DEF FirstTxs, PageAt
  <2> QED
    BY <1>1, <2>1, <2>2, <2>3, SeqEqual
<1> QED
  BY <1>1, <1>2, <1>3

-----------------------------------------------------------------------------
(* The inductive invariant.                                                *)

LEMMA BlockAtHeight ==
    \A b \in HashesAt[Height] : b \in Hashes /\ b # NoHash /\ Size[b] \in Nat \ {0}
BY HashesAssumption, HeightAssumption, NoHashAssumption, SizeAssumption

LEMMA InitIInv == Init => IInv
<1> SUFFICES ASSUME Init PROVE IInv
  OBVIOUS
<1>1. TypeOK
  <2>1. << >> \in Seq(Hashes \X Nat)
    BY EmptySeq
  <2>2. 0 \in 0..(MaxRetries - 1)
    BY MaxRetriesAssumption
  <2> QED
    BY <2>1, <2>2 DEF Init, TypeOK
<1>2. Merged /\ LookedUp /\ Paging /\ AtEnd
  BY DEF Init, Merged, LookedUp, Paging, AtEnd
<1> QED
  BY <1>1, <1>2 DEF IInv

\* One turn of the pagination loop, with the page the server sent or with
\* the empty page a 404 stands for.
LEMMA AddPageIInv ==
    ASSUME IInv, pc = "page", NEW page,
           \/ page = PageAt(hash, startIndex) /\ cut' = cut
           \/ page = << >> /\ cut' = (cut \/ startIndex < Size[hash]),
           AddPage(page)
    PROVE  IInv'
<1> USE DEF IInv
<1>1. /\ hash \in HashesAt[Height] /\ hash \in Hashes /\ hash # NoHash
      /\ Size[hash] \in Nat \ {0}
      /\ startIndex \in Nat /\ pages \in Nat
      /\ txs = FirstTxs(hash, startIndex) /\ Len(txs) = startIndex
      /\ startIndex <= Size[hash]
      /\ PageSize \in Nat \ {0}
      /\ ~cut
  BY BlockAtHeight, PageSizeAssumption DEF TypeOK, Merged, LookedUp, Paging
<1>0. startIndex = pages * PageSize
  BY DEF Paging
<1>2. CASE page = PageAt(hash, startIndex) /\ cut' = cut
  <2> DEFINE m == PageLength(hash, startIndex)
  <2>1. /\ m \in Nat
        /\ Len(page) = m
        /\ txs' = FirstTxs(hash, startIndex + m)
        /\ txs' \in Seq(Hashes \X Nat) /\ Len(txs') = startIndex + m
    <3>1. /\ m \in Nat
          /\ Len(page) = m
          /\ txs' = FirstTxs(hash, startIndex + m)
      BY <1>1, <1>2, FirstTxsPage DEF AddPage
    <3>2. startIndex + m \in Nat
      BY <1>1, <3>1
    <3> HIDE DEF m
    <3> QED BY <1>1, <3>1, <3>2, FirstTxsType
  <2>2. /\ startIndex + m <= Size[hash]
        /\ m <= PageSize
        /\ m < PageSize => startIndex + m = Size[hash]
    BY <1>1 DEF PageLength
  <2>3. CASE IsLastPage(page)
    <3>1. /\ pc' = "done" /\ startIndex' = startIndex /\ pages' = pages + 1
          /\ m < PageSize
      BY <2>1, <2>3, <1>1 DEF AddPage, IsLastPage
    <3>2. (pages + 1 - 1) * PageSize <= Size[hash] /\ Size[hash] < (pages + 1) * PageSize
      <4>1. (pages + 1) * PageSize = startIndex + PageSize
        BY <1>0, <1>1
      <4>2. pages + 1 - 1 = pages
        BY <1>1
      <4> QED BY <1>0, <1>1, <2>1, <2>2, <3>1, <4>1, <4>2
    <3>3. TypeOK'
      BY <1>1, <1>2, <2>1, <3>1, MaxRetriesAssumption DEF TypeOK, AddPage
    <3>4. Merged'
      BY <1>1, <2>1, <2>2 DEF Merged, AddPage
    <3>5. LookedUp'
      BY <1>1, <3>1 DEF LookedUp, AddPage
    <3>6. Paging' /\ AtEnd'
      BY <1>1, <2>1, <2>2, <3>1, <3>2 DEF Paging, AtEnd, AddPage
    <3> QED BY <3>3, <3>4, <3>5, <3>6
  <2>4. CASE ~IsLastPage(page)
    <3>1. /\ pc' = "page" /\ startIndex' = startIndex + PageSize /\ pages' = pages + 1
          /\ m = PageSize
      BY <2>1, <2>2, <2>4, <1>1 DEF AddPage, IsLastPage, NextIndex
    <3>2. (pages + 1) * PageSize = startIndex + PageSize
      BY <1>0, <1>1
    <3>3. TypeOK'
      BY <1>1, <1>2, <2>1, <3>1, MaxRetriesAssumption DEF TypeOK, AddPage
    <3>4. Merged'
      BY <1>1, <2>1, <2>2 DEF Merged, AddPage
    <3>5. LookedUp'
      BY <1>1, <1>2, <3>1 DEF LookedUp, AddPage
    <3>6. Paging' /\ AtEnd'
      BY <1>1, <2>1, <3>1, <3>2 DEF Paging, AtEnd
    <3> QED BY <3>3, <3>4, <3>5, <3>6
  <2> QED BY <2>3, <2>4
<1>3. CASE page = << >> /\ cut' = (cut \/ startIndex < Size[hash])
  <2>1. /\ pc' = "done" /\ startIndex' = startIndex /\ pages' = pages + 1
        /\ txs' = txs /\ hash' = hash /\ reported' = reported
    <3>1. IsLastPage(page)
      BY <1>1, <1>3, EmptySeq DEF IsLastPage
    <3>2. txs \o << >> = txs
      BY ConcatEmptySeq DEF TypeOK
    <3> QED BY <1>3, <3>1, <3>2 DEF AddPage
  <2>2. (pages + 1 - 1) * PageSize = startIndex /\ (pages + 1) * PageSize = startIndex + PageSize
    <3>1. pages + 1 - 1 = pages
      BY <1>1
    <3> QED BY <1>0, <1>1, <3>1
  <2>3. TypeOK'
    BY <1>1, <1>3, <2>1, MaxRetriesAssumption DEF TypeOK, AddPage
  <2>4. Merged'
    BY <1>1, <2>1 DEF Merged
  <2>5. LookedUp'
    BY <1>1, <2>1 DEF LookedUp
  <2>6. startIndex < Size[hash] => cut'
    BY <1>3, Zenon
  <2>7. Paging' /\ AtEnd'
    BY <1>1, <2>1, <2>2, <2>6 DEF Paging, AtEnd
  <2> QED BY <2>3, <2>4, <2>5, <2>7
<1> QED
  BY <1>2, <1>3

LEMMA NextIInv == IInv /\ [Next]_vars => IInv'
<1> SUFFICES ASSUME IInv, [Next]_vars PROVE IInv'
  OBVIOUS
<1> USE DEF IInv
<1>1. CASE AnswerHash
  BY <1>1, BlockAtHeight, MaxRetriesAssumption, FirstTxsEmpty, EmptySeq
     DEF AnswerHash, TypeOK, Merged, LookedUp, Paging, AtEnd
<1>2. CASE AnswerBlock
  <2>1. hash \in HashesAt[Height] /\ Reports(hash) \subseteq Nat \cup {NoCount}
    BY <1>2, BlockAtHeight DEF AnswerBlock, TypeOK, LookedUp, Reports
  <2> QED
    BY <1>2, <2>1, MaxRetriesAssumption, PageSizeAssumption, EmptySeq
       DEF AnswerBlock, TypeOK, Merged, LookedUp, Paging, AtEnd
<1>3. CASE AnswerPage
  BY <1>3, AddPageIInv DEF AnswerPage, PageSource
<1>4. CASE NotFoundPage
  BY <1>4, AddPageIInv DEF NotFoundPage
<1>5. CASE NotFoundLookup \/ MalformedBody \/ GiveUp
  BY <1>5 DEF NotFoundLookup, MalformedBody, GiveUp, progress,
              TypeOK, Merged, LookedUp, Paging, AtEnd
<1>6. CASE RetryAfterError
  BY <1>6, MaxRetriesAssumption
     DEF RetryAfterError, AttemptsLeft, NextAttempt, progress,
         TypeOK, Merged, LookedUp, Paging, AtEnd
<1>7. CASE Reorg
  BY <1>7 DEF Reorg, progress, TypeOK, Merged, LookedUp, Paging, AtEnd
<1>8. CASE UNCHANGED vars
  BY <1>8 DEF vars, progress, TypeOK, Merged, LookedUp, Paging, AtEnd
<1> QED
  BY <1>1, <1>2, <1>3, <1>4, <1>5, <1>6, <1>7, <1>8 DEF Next, ClientStep

\* The invariant below which everything else here follows: what has been
\* merged is a prefix of one block, and the loop's counters agree with it.
THEOREM InductiveInvariant == Spec => []IInv
BY InitIInv, NextIInv, PTL DEF Spec, SafeSpec

-----------------------------------------------------------------------------
(* The properties.                                                         *)

\* Every variable keeps its type, attempt its bound among them: _get never
\* makes more than REQUEST_MAX_RETRIES attempts at one request.
THEOREM TypeCorrect == Spec => []TypeOK
<1>1. IInv => TypeOK
  BY DEF IInv
<1> QED
  BY <1>1, InductiveInvariant, PTL

\* The merged transactions are always the beginning of the one block whose
\* hash was looked up, whatever is reorganised between two pages.
THEOREM MergesInOrder == Spec => []MergedInOrder
<1>1. IInv => MergedInOrder
  BY DEF IInv, Merged, MergedInOrder
<1> QED
  BY <1>1, InductiveInvariant, PTL

\* What every state of a fetch that has returned looks like.
LEMMA AtReturn ==
    ASSUME IInv, pc = "done"
    PROVE  /\ hash \in HashesAt[Height]
           /\ hash \in Hashes
           /\ Size[hash] \in Nat
           /\ Len(txs) \in 0..Size[hash]
           /\ txs = FirstTxs(hash, Len(txs))
           /\ reported \in Reports(hash)
           /\ IsWhole <=> Len(txs) = Size[hash]
<1>1. /\ hash \in HashesAt[Height] /\ hash \in Hashes
      /\ Size[hash] \in Nat
      /\ txs = FirstTxs(hash, Len(txs)) /\ Len(txs) <= Size[hash]
      /\ reported \in Reports(hash)
  BY BlockAtHeight DEF IInv, TypeOK, Merged, LookedUp
<1>2. Len(txs) \in Nat
  BY LenProperties DEF IInv, TypeOK
<1>3. IsWhole <=> Len(txs) = Size[hash]
  BY <1>1, FirstTxsType DEF IsWhole, BlockTxs
<1> QED
  BY <1>1, <1>2, <1>3

\* A count that agrees with what was fetched proves the block whole: the
\* test of is_complete is enough against every fetch that ended early.
THEOREM ShortFetchesShow == Spec => []ShortFetchIsVisible
<1>1. IInv => ShortFetchIsVisible
  BY AtReturn DEF ShortFetchIsVisible, IsFetched, Reports
<1> QED
  BY <1>1, InductiveInvariant, PTL

\* No error of the network, however often it is retried, shortens a block;
\* only a 404 on a page inside it does.
THEOREM OnlyNotFoundShortens == Spec => []OnlyNotFoundTruncates
<1>1. IInv => OnlyNotFoundTruncates
  BY AtReturn DEF OnlyNotFoundTruncates, IsFetched, IInv, AtEnd
<1> QED
  BY <1>1, InductiveInvariant, PTL

\* A whole block costs floor(size / page size) + 1 pages and no page is
\* asked for that starts beyond its end.
THEOREM PagesCounted == Spec => []PageCount
<1>1. IInv => PageCount
  <2> SUFFICES ASSUME IInv PROVE PageCount
    OBVIOUS
  <2>1. pc = "page" => startIndex = pages * PageSize /\ startIndex <= Size[hash]
    BY DEF IInv, Merged, LookedUp, Paging
  <2>2. IsFetched /\ IsWhole =>
          (pages - 1) * PageSize <= Size[hash] /\ Size[hash] < pages * PageSize
    BY AtReturn DEF IInv, AtEnd, IsFetched
  <2> QED
    BY <2>1, <2>2 DEF PageCount
<1> QED
  BY <1>1, InductiveInvariant, PTL

-----------------------------------------------------------------------------
(* The fetch runs out of requests.                                         *)

LEMMA AddPageAdvances ==
    ASSUME IInv, pc = "page", NEW page,
           page = PageAt(hash, startIndex) \/ page = << >>,
           AddPage(page)
    PROVE  \/ pc' = "done"
           \/ pc' = "page" /\ startIndex' \in (startIndex + 1)..Size[hash]
<1>1. /\ hash \in Hashes /\ Size[hash] \in Nat \ {0}
      /\ startIndex \in Nat /\ PageSize \in Nat \ {0}
  BY BlockAtHeight, PageSizeAssumption DEF IInv, TypeOK, LookedUp
<1>2. CASE IsLastPage(page)
  BY <1>2 DEF AddPage
<1>3. CASE ~IsLastPage(page)
  <2>1. Len(<< >>) < PageSize
    BY <1>1, EmptySeq
  <2>2. /\ page = PageAt(hash, startIndex)
        /\ Len(page) = PageLength(hash, startIndex)
    BY <1>1, <1>3, <2>1, FirstTxsPage DEF IsLastPage
  <2>3. startIndex + PageSize <= Size[hash]
    BY <1>1, <1>3, <2>2 DEF IsLastPage, PageLength
  <2> QED
    BY <1>1, <1>3, <2>3 DEF AddPage, NextIndex
<1> QED
  BY <1>2, <1>3

\* Whatever the server answers and however often the chain reorganises, a
\* fetch makes finitely many requests: attempts are bounded by MaxRetries,
\* pages by the size of the block.
THEOREM RequestsAreBounded == Spec => RequestsRunOut
<1> DEFINE Closer ==
      \/ Stage' > Stage
      \/ pc = "page" /\ UNCHANGED pc /\ startIndex' \in (startIndex + 1)..Size[hash]
      \/ UNCHANGED <<pc, startIndex>> /\ attempt' \in (attempt + 1)..(MaxRetries - 1)
<1>1. IInv /\ [Next]_vars => [UNCHANGED canon => Closer]_vars
  <2> SUFFICES ASSUME IInv, Next, UNCHANGED canon PROVE Closer
    OBVIOUS
  <2>1. CASE AnswerHash \/ AnswerBlock
    BY <2>1 DEF AnswerHash, AnswerBlock, Stage
  <2>2. CASE AnswerPage \/ NotFoundPage
    BY <2>2, AddPageAdvances DEF AnswerPage, PageSource, NotFoundPage, Stage
  <2>3. CASE NotFoundLookup \/ MalformedBody \/ GiveUp
    BY <2>3 DEF NotFoundLookup, MalformedBody, GiveUp, Requesting, Stage
  <2>4. CASE RetryAfterError
    BY <2>4, MaxRetriesAssumption
       DEF RetryAfterError, AttemptsLeft, NextAttempt, progress, IInv, TypeOK
  <2>5. ~Reorg
    BY DEF Reorg
  <2> QED
    BY <2>1, <2>2, <2>3, <2>4, <2>5 DEF Next, ClientStep
<1> QED
  BY <1>1, InductiveInvariant, PTL DEF RequestsRunOut, Spec, SafeSpec

-----------------------------------------------------------------------------
(* Refinement.                                                             *)

LEMMA ReturnIsAFetch ==
    IInv /\ pc = "done" => FetchOf(hash, txs, reported) \in Fetches(Height)
<1> SUFFICES ASSUME IInv, pc = "done"
             PROVE  FetchOf(hash, txs, reported) \in Fetches(Height)
  OBVIOUS
<1>1. FetchOf(hash, FirstTxs(hash, Len(txs)), reported)
        \in { FetchOf(hash, FirstTxs(hash, n), r) : n \in 0..Size[hash], r \in Reports(hash) }
  BY AtReturn
<1>2. FetchOf(hash, txs, reported)
        \in { FetchOf(hash, FirstTxs(hash, n), r) : n \in 0..Size[hash], r \in Reports(hash) }
  BY <1>1, AtReturn
<1> QED
  BY <1>2, AtReturn DEF Fetches

\* Once a fetch has returned or raised its answer never changes, and until
\* then there is none.
LEMMA StepRefines ==
    IInv /\ IInv' /\ [Next]_vars => [Contract!Next]_answerBar
<1> SUFFICES ASSUME IInv, IInv', [Next]_vars
             PROVE  Contract!Next \/ answerBar' = answerBar
  OBVIOUS
<1>1. CASE UNCHANGED vars
  BY <1>1 DEF vars, progress, answerBar
<1>2. CASE Reorg
  BY <1>2 DEF Reorg, progress, answerBar
<1>3. CASE ClientStep
  <2>1. answerBar = [status |-> "pending"]
    BY <1>3 DEF ClientStep, AnswerHash, AnswerBlock, AnswerPage, NotFoundPage,
                NotFoundLookup, MalformedBody, RetryAfterError, GiveUp,
                Requesting, answerBar
  <2>2. pc' \in {"hash", "block", "page", "done", "raised"}
    BY DEF IInv, TypeOK
  <2>3. CASE pc' \in {"hash", "block", "page"}
    BY <2>1, <2>3 DEF answerBar
  <2>4. CASE pc' = "raised"
    BY <2>1, <2>4 DEF answerBar, Contract!Next, Contract!Raise, Contract!Pending,
                      Contract!Raised
  <2>5. CASE pc' = "done"
    <3>1. FetchOf(hash, txs, reported)' \in Fetches(Height)
      <4>1. (IInv /\ pc = "done" => FetchOf(hash, txs, reported) \in Fetches(Height))'
        BY ReturnIsAFetch, PTL
      <4> QED BY <2>5, <4>1
    <3>2. answerBar' = [status |-> "fetched", fetch |-> FetchOf(hash, txs, reported)']
      BY <2>5 DEF answerBar
    <3>3. Contract!Fetches(Height) = Fetches(Height)
      BY DEF Contract!Fetches, Contract!FetchOf, Contract!FirstTxs, Contract!Reports,
             Fetches, FetchOf, FirstTxs, Reports
    <3> QED
      BY <2>1, <3>1, <3>2, <3>3
         DEF Contract!Next, Contract!Return, Contract!Pending, Contract!Fetched
  <2> QED
    BY <2>2, <2>3, <2>4, <2>5
<1> QED
  BY <1>1, <1>2, <1>3 DEF Next

\* The fetch implements the safety part of FetchContract: it goes in one
\* step from no answer to an error or to one of the fetches of its height.
THEOREM RefinesContract == Spec => Contract!SafeSpec
<1>1. Init => Contract!Init
  BY DEF Init, answerBar, Contract!Init, Contract!Pending
<1> QED
  BY <1>1, StepRefines, InductiveInvariant, PTL DEF Contract!SafeSpec, Spec, SafeSpec

=============================================================================
