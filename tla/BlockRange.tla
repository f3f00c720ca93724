------------------------------ MODULE BlockRange ------------------------------
(***************************************************************************)
(* From a command line of fetch_blocks.py to the heights it fetches        *)
(* (resolve_block_range).  An option is an integer, of any sign, or Unset; *)
(* tip is the height the server names when --start-height is not given.    *)
(***************************************************************************)
EXTENDS Integers

CONSTANTS
    Unset,              \* the option is not on the command line
    DefaultCount,       \* DEFAULT_RANGE_COUNT
    DefaultBehindTip    \* DEFAULT_BLOCKS_BEHIND_TIP

ASSUME UnsetAssumption == Unset \notin Int
ASSUME DefaultsAssumption == DefaultCount \in Nat /\ DefaultBehindTip \in Nat

Option == Int \cup {Unset}

Command == [start : Option, end : Option, count : Option, behind : Option]

Given(option) == option # Unset

OrDefault(option, default) == IF Given(option) THEN option ELSE default

\* ValueError: an end and a count, or a backward range.
Rejected(c) ==
    /\ Given(c.start)
    /\ Given(c.end)
    /\ Given(c.count) \/ c.end < c.start

Count(c) == OrDefault(c.count, DefaultCount)

From(c, tip) ==
    IF Given(c.start) THEN c.start
    ELSE tip - OrDefault(c.behind, DefaultBehindTip) - Count(c) + 1

ExclusiveTo(c, tip) ==
    IF Given(c.start)
    THEN IF Given(c.end) THEN c.end ELSE c.start + Count(c)
    ELSE tip - OrDefault(c.behind, DefaultBehindTip)

\* --end-height without --start-height is ignored, and so is --behind-tip
\* with it.
To(c, tip) ==
    IF Given(c.start)
    THEN IF Given(c.end) THEN c.end ELSE c.start + Count(c) - 1
    ELSE tip - OrDefault(c.behind, DefaultBehindTip)

-----------------------------------------------------------------------------
(* What the options mean (fetch_blocks.py:4-13).                           *)

Asked(c, tip, h) ==
    IF Given(c.start)
    THEN /\ c.start <= h
         /\ IF Given(c.end) THEN h <= c.end ELSE h - c.start < Count(c)
    ELSE LET depth == tip - h
         IN  /\ OrDefault(c.behind, DefaultBehindTip) <= depth
             /\ depth < OrDefault(c.behind, DefaultBehindTip) + Count(c)

=============================================================================
