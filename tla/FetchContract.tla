---------------------------- MODULE FetchContract ----------------------------
(***************************************************************************)
(* What the ingestion relies on of one fetch over the network, whatever    *)
(* the server, the network and the chain do meanwhile: it ends, and it     *)
(* either raises or brings back transactions of one single block of that   *)
(* height, from the first one on, in order and without holes.              *)
(***************************************************************************)
EXTENDS Blocks

CONSTANT Height     \* the height that is fetched

VARIABLE answer     \* what ingest_block has from the network

Pending    == [status |-> "pending"]
Raised     == [status |-> "raised"]
Fetched(f) == [status |-> "fetched", fetch |-> f]

Init == answer = Pending

Raise == answer = Pending /\ answer' = Raised

Return ==
    /\ answer = Pending
    /\ \E f \in Fetches(Height) : answer' = Fetched(f)

Next == Raise \/ Return

SafeSpec == Init /\ [][Next]_answer

Spec == SafeSpec /\ WF_answer(Next)

=============================================================================
