---------------------------- MODULE GateContract ----------------------------
(***************************************************************************)
(* What the quality gate promises the loader: a report that says PASS was  *)
(* written when every partition of its range was there and every check     *)
(* held of all of them at once.  The report carries nothing but its range, *)
(* so it says nothing of what is done to the files afterwards, and nothing *)
(* of blocks without a count, where TxCountMatches is null.                *)
(***************************************************************************)
EXTENDS QualityChecks

CONSTANTS
    OperatorDeletes,    \* whether an operator ever deletes a raw directory
    ParquetDeleted      \* whether an operator ever deletes a data.parquet

VARIABLES
    raw,        \* raw[h]: the block directory of height h
    part,       \* part[d][h]: data.parquet of dataset d and height h
    report      \* report[w]: what validation_<lo>-<hi>.json holds

Derived == INSTANCE DerivedStore

Outcomes == {"torn", "PASS", "FAIL"}

Init == Derived!Init /\ report = [w \in Windows |-> "none"]

Write(w, outcome) ==
    /\ w.lo <= w.hi
    /\ outcome = "PASS" => Cleared(part, w)
    /\ report' = [report EXCEPT ![w] = outcome]
    /\ UNCHANGED <<raw, part>>

Next ==
    \/ Derived!Next /\ UNCHANGED report
    \/ \E w \in Windows, outcome \in Outcomes : Write(w, outcome)

Spec == Init /\ [][Next]_<<raw, part, report>>

=============================================================================
