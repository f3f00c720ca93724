------------------------------ MODULE FetchBlocks ------------------------------
(***************************************************************************)
(* The command lines of fetch_blocks.py (BlockRange) in front of the range *)
(* ingest (RawStore).                                                      *)
(***************************************************************************)
EXTENDS RawStore, BlockRange

CONSTANTS
    Commands,   \* the command lines
    Tips        \* the heights of the tip that the server may name

ASSUME CommandsAssumption == \A c \in Commands : c \in Command
ASSUME TipsAssumption == Tips \subseteq Nat

\* The invocation a command line starts.
Resolve(c, tip, force) ==
    [tool |-> "fetch_blocks", lo |-> From(c, tip), hi |-> To(c, tip), force |-> force]

Runs(p, c, tip) ==
    ~Rejected(c) /\ \E force \in BOOLEAN : job[p] = Resolve(c, tip, force)

-----------------------------------------------------------------------------
\* The heights that the options name are those that are tried, each of them
\* and no other, and on exit status 0 their blocks are on disk in full.
AskedIsFetched ==
    \A p \in Procs, c \in Commands, tip \in Tips : Runs(p, c, tip) =>
        /\ pc[p] = "verify" => ReportedHeights(p) = {h \in Heights : Asked(c, tip, h)}
        /\ ~OperatorDeletes /\ pc[p] = "exit0" =>
              \A h \in Heights : Asked(c, tip, h) => HoldsBlock(h)

=============================================================================
