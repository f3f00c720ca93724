---------------------------- MODULE EsploraFetch ----------------------------
(***************************************************************************)
(* The network half of ingest_block (extract.py): the height's hash, the   *)
(* block's metadata and then its transactions page by page, every request  *)
(* through EsploraClient._get with its bounded retries (esplora.py).  The  *)
(* server answers, fails, or says 404; the chain may reorganise between    *)
(* any two requests.                                                       *)
(***************************************************************************)
EXTENDS Blocks

CONSTANTS
    Height,         \* the height that is fetched
    NoHash,         \* the hash before the server has answered
    PageSize,       \* TX_PAGE_SIZE
    MaxRetries      \* REQUEST_MAX_RETRIES

ASSUME HeightAssumption == Height \in Heights /\ HashesAt[Height] # {}
ASSUME NoHashAssumption == NoHash \notin Hashes
ASSUME PageSizeAssumption == PageSize \in Nat \ {0}
ASSUME MaxRetriesAssumption == MaxRetries \in Nat \ {0}

VARIABLES
    pc,         \* the request under way: "hash", "block", "page"; or the end
    attempt,    \* the loop variable of _get
    hash,       \* block_hash
    reported,   \* block_json.get("tx_count")
    txs,        \* the transactions merged so far
    startIndex, \* start_index of the page asked for
    pages,      \* pages_fetched
    canon,      \* environment: the block now canonical at Height
    cut         \* history: a page inside the block was answered 404

progress == <<hash, reported, txs, startIndex, pages>>
vars == <<pc, attempt, progress, canon, cut>>

TypeOK ==
    /\ pc \in {"hash", "block", "page", "done", "raised"}
    /\ attempt \in 0..(MaxRetries - 1)
    /\ hash \in HashesAt[Height] \cup {NoHash}
    /\ reported \in Nat \cup {NoCount}
    /\ txs \in Seq(Hashes \X Nat)
    /\ startIndex \in Nat
    /\ pages \in Nat
    /\ canon \in HashesAt[Height]
    /\ cut \in BOOLEAN

Init ==
    /\ pc = "hash"
    /\ attempt = 0
    /\ hash = NoHash
    /\ reported = NoCount
    /\ txs = << >>
    /\ startIndex = 0
    /\ pages = 0
    /\ canon \in HashesAt[Height]
    /\ cut = FALSE

Requesting == pc \in {"hash", "block", "page"}

-----------------------------------------------------------------------------
(* The server.                                                             *)

\* How many transactions there are on the page of block b that starts at s.
PageLength(b, s) ==
    IF Size[b] <= s THEN 0
    ELSE IF Size[b] - s < PageSize THEN Size[b] - s ELSE PageSize

PageAt(b, s) == [i \in 1..PageLength(b, s) |-> <<b, s + i>>]

\* The chain reorganises: another block becomes canonical at Height.
Reorg ==
    /\ Requesting
    /\ canon' \in HashesAt[Height] \ {canon}
    /\ UNCHANGED <<pc, attempt, progress, cut>>

-----------------------------------------------------------------------------
(* Requests that are answered.                                             *)

AnswerHash ==
    /\ pc = "hash"
    /\ hash' = canon
    /\ pc' = "block"
    /\ attempt' = 0
    /\ UNCHANGED <<reported, txs, startIndex, pages, canon, cut>>

AnswerBlock ==
    /\ pc = "block"
    /\ reported' \in Reports(hash)
    /\ pc' = "page"
    /\ attempt' = 0
    /\ UNCHANGED <<hash, txs, startIndex, pages, canon, cut>>

\* A client that pages by height.
PageSourceByHeight == canon

\* The block whose pages get_block_txs asks for.
PageSource == hash

\* A client that asks on until it gets an empty page.
LastPageIsEmpty(page) == Len(page) = 0

IsLastPage(page) == Len(page) < PageSize

\* A client that forgets to advance.
IndexNotAdvanced(s) == s

NextIndex(s) == s + PageSize

\* One turn of the loop of paginate_block_txs.
AddPage(page) ==
    /\ pages' = pages + 1
    /\ txs' = txs \o page
    /\ IF IsLastPage(page)
       THEN pc' = "done" /\ UNCHANGED startIndex
       ELSE startIndex' = NextIndex(startIndex) /\ UNCHANGED pc
    /\ attempt' = 0
    /\ UNCHANGED <<hash, reported, canon>>

AnswerPage ==
    /\ pc = "page"
    /\ AddPage(PageAt(PageSource, startIndex))
    /\ UNCHANGED cut

\* fetch_page turns a 404 into an empty page.  The server answers 404 past
\* the end of the block, and for any page when it does not (any longer, or
\* yet) serve the block.
NotFoundPage ==
    /\ pc = "page"
    /\ AddPage(<< >>)
    /\ cut' = (cut \/ startIndex < Size[hash])

-----------------------------------------------------------------------------
(* Requests that fail.                                                     *)

\* A 404 for the height or for the block is not retried and ends the fetch.
NotFoundLookup ==
    /\ pc \in {"hash", "block"}
    /\ pc' = "raised"
    /\ UNCHANGED <<attempt, progress, canon, cut>>

\* The body is not the JSON expected: .json() is outside the retry loop.
MalformedBody ==
    /\ pc \in {"block", "page"}
    /\ pc' = "raised"
    /\ UNCHANGED <<attempt, progress, canon, cut>>

\* One retry too many.
AttemptsLeftOffByOne == attempt < MaxRetries

AttemptsLeft == attempt < MaxRetries - 1

\* A loop that starts over before its last attempt.
AttemptsStartOver(a) == (a + 1) % (MaxRetries - 1)

NextAttempt(a) == a + 1

\* A timeout, a broken connection or an error status.
RetryAfterError ==
    /\ Requesting
    /\ AttemptsLeft
    /\ attempt' = NextAttempt(attempt)
    /\ UNCHANGED <<pc, progress, canon, cut>>

\* A page that cannot be had taken for the end of the pagination.
GiveUpEndsPagination ==
    /\ Requesting
    /\ ~AttemptsLeft
    /\ IF pc = "page"
       THEN AddPage(<< >>) /\ UNCHANGED cut
       ELSE pc' = "raised" /\ UNCHANGED <<attempt, progress, canon, cut>>

\* The RuntimeError after the last attempt.
GiveUp ==
    /\ Requesting
    /\ ~AttemptsLeft
    /\ pc' = "raised"
    /\ UNCHANGED <<attempt, progress, canon, cut>>

-----------------------------------------------------------------------------
ClientStep ==
    \/ AnswerHash \/ AnswerBlock \/ AnswerPage \/ NotFoundPage
    \/ NotFoundLookup \/ MalformedBody \/ RetryAfterError \/ GiveUp

Next == ClientStep \/ Reorg

SafeSpec == Init /\ [][Next]_vars

\* Every request returns or times out (REQUEST_TIMEOUT_SECONDS), and the
\* client is a single thread that only ever waits for one: its next step
\* comes.  Nothing is assumed of what the server answers.
Spec == SafeSpec /\ WF_vars(ClientStep)

-----------------------------------------------------------------------------
(* Properties.                                                             *)

IsFetched == pc = "done"

IsWhole == txs = BlockTxs(hash)

\* What has been merged is at every moment the beginning of the one block
\* whose hash was looked up: no transaction twice, none out of order, none
\* of the block that replaced it in a reorganisation between two pages.
\* (get_block_txs pages by hash and paginate_block_txs advances by a page.)
MergedInOrder ==
    txs # << >> => txs = FirstTxs(hash, Len(txs))

\* A fetch that ended early is visible in its own metadata: whenever the
\* server reported a count and it equals the number of transactions fetched
\* (the test is_complete makes later), the transactions are the whole block.
ShortFetchIsVisible ==
    IsFetched /\ reported # NoCount /\ Len(txs) = reported => IsWhole

\* Timeouts, broken connections, error statuses and bodies that do not parse
\* never shorten a block: only a 404 on a page inside the block does.
OnlyNotFoundTruncates ==
    IsFetched /\ ~IsWhole => cut

\* A whole block took exactly the pages it has, and no page is asked for
\* beyond the first empty one: a block whose size is a multiple of the page
\* size costs one more request, any other none.
PageCount ==
    /\ pc = "page" => startIndex = pages * PageSize /\ startIndex <= Size[hash]
    /\ IsFetched /\ IsWhole =>
          (pages - 1) * PageSize <= Size[hash] /\ Size[hash] < pages * PageSize

\* Every fetch comes to an end, however often requests fail.
FetchEnds == <>(pc \in {"done", "raised"})

\* How far the fetch has come.
Stage ==
    CASE pc = "hash"  -> 0
      [] pc = "block" -> 1
      [] pc = "page"  -> 2
      [] pc \in {"done", "raised"} -> 3

\* Every request brings the fetch closer to an end it cannot put off: it is
\* the last of its kind, or it gets to a later page of the same block, or it
\* uses up one of the attempts.  Neither errors (_get) nor reorganisations
\* or pages past the end of the block (paginate_block_txs) make it go round
\* in a circle.
RequestsRunOut ==
    [][UNCHANGED canon =>
           \/ Stage' > Stage
           \/ pc = "page" /\ UNCHANGED pc /\ startIndex' \in (startIndex + 1)..Size[hash]
           \/ UNCHANGED <<pc, startIndex>> /\ attempt' \in (attempt + 1)..(MaxRetries - 1)]_vars

\* The inductive invariant behind the properties above.
Merged ==
    /\ hash = NoHash => txs = << >>
    /\ hash # NoHash => Len(txs) <= Size[hash] /\ txs = FirstTxs(hash, Len(txs))

LookedUp ==
    /\ pc \in {"block", "page", "done"} => hash # NoHash
    /\ pc \in {"hash", "block"} => txs = << >> /\ startIndex = 0 /\ pages = 0
    /\ pc \in {"page", "done"} => reported \in Reports(hash)
    /\ pc \in {"hash", "block", "page"} => ~cut

Paging ==
    pc = "page" =>
        /\ startIndex = pages * PageSize
        /\ Len(txs) = startIndex

AtEnd ==
    pc = "done" =>
        /\ Len(txs) # Size[hash] => cut
        /\ Len(txs) = Size[hash] =>
              (pages - 1) * PageSize <= Size[hash] /\ Size[hash] < pages * PageSize

IInv == TypeOK /\ Merged /\ LookedUp /\ Paging /\ AtEnd

\* What FetchContract calls the answer.
answerBar ==
    IF pc = "done" THEN [status |-> "fetched", fetch |-> FetchOf(hash, txs, reported)]
    ELSE IF pc = "raised" THEN [status |-> "raised"]
    ELSE [status |-> "pending"]

Contract == INSTANCE FetchContract WITH answer <- answerBar

\* The fetch implements the contract the raw store is built on: at any
\* moment it ends at once with one of the fetches of its height, or raises.
ImplementsContract == Contract!Spec

=============================================================================
