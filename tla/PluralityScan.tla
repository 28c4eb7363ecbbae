---------------------------- MODULE PluralityScan ----------------------------
(* plurality() (plurality.rs) as the two loops it is: the first counts the    *)
(* votes into a table, the second scans the table for the highest count and   *)
(* notes whether another option has reached it.  Its outcome is compared with *)
(* the definition the lifecycle uses.                                         *)
EXTENDS Plurality, Sequences

CONSTANT MaxVotes           \* MAX_PROPOSERS, the length of the caller's buffer

ASSUME MaxVotesAssumption == MaxVotes \in Nat

VARIABLES
    ballot,         \* the argument votes: one claim_option per survivor
    counted,        \* ballot[1 .. counted] is in the table
    tally,          \* the table counts of the code
    scanned,        \* the second loop has seen options 0 .. scanned - 1
    best_option,
    best_count,
    tied,
    returned,       \* has plurality() returned, and what
    decided

scan ==
    <<ballot, counted, tally, scanned, best_option, best_count, tied, returned, decided>>

Ballots == UNION { [1 .. n -> Options] : n \in 0 .. MaxVotes }

ScanTypeOK ==
    /\ ballot \in Ballots
    /\ counted \in 0 .. Len(ballot)
    /\ tally \in [Options -> 0 .. Len(ballot)]
    /\ scanned \in 0 .. OptionsCount
    /\ best_option \in Options
    /\ best_count \in 0 .. Len(ballot)
    /\ tied \in BOOLEAN
    /\ returned \in BOOLEAN
    /\ decided \in Options \cup {CLAIM_OPTION_NONE}

-----------------------------------------------------------------------------
ScanInit ==
    /\ ballot \in Ballots
    /\ counted = 0
    /\ tally = [o \in Options |-> 0]
    /\ scanned = 0
    /\ best_option = 0
    /\ best_count = 0
    /\ tied = FALSE
    /\ returned = FALSE
    /\ decided = CLAIM_OPTION_NONE

\* The early return for an empty slice.
ReturnNoSurvivors ==
    /\ ~returned
    /\ Len(ballot) = 0
    /\ returned' = TRUE
    /\ decided' = CLAIM_OPTION_NONE
    /\ UNCHANGED <<ballot, counted, tally, scanned, best_option, best_count, tied>>

CountVote ==
    /\ ~returned
    /\ counted < Len(ballot)
    /\ counted' = counted + 1
    /\ tally' = [tally EXCEPT ![ballot[counted + 1]] = @ + 1]
    /\ UNCHANGED <<ballot, scanned, best_option, best_count, tied,
                   returned, decided>>

\* Mutant: a new maximum does not clear the tie of the old one.
ScanOption_TieKept ==
    /\ ~returned
    /\ Len(ballot) > 0
    /\ counted = Len(ballot)
    /\ scanned < OptionsCount
    /\ scanned' = scanned + 1
    /\ IF tally[scanned] > best_count
       THEN /\ best_count' = tally[scanned]
            /\ best_option' = scanned
            /\ tied' = tied
       ELSE /\ tied' = (tied \/ (tally[scanned] = best_count /\ best_count # 0))
            /\ UNCHANGED <<best_count, best_option>>
    /\ UNCHANGED <<ballot, counted, tally, returned, decided>>

\* The table has 256 entries; those from OptionsCount up stay 0 and leave the
\* scan as it is, so it may stop at OptionsCount.
ScanOption ==
    /\ ~returned
    /\ Len(ballot) > 0
    /\ counted = Len(ballot)
    /\ scanned < OptionsCount
    /\ scanned' = scanned + 1
    /\ IF tally[scanned] > best_count
       THEN /\ best_count' = tally[scanned]
            /\ best_option' = scanned
            /\ tied' = FALSE
       ELSE /\ tied' = (tied \/ (tally[scanned] = best_count /\ best_count # 0))
            /\ UNCHANGED <<best_count, best_option>>
    /\ UNCHANGED <<ballot, counted, tally, returned, decided>>

Return ==
    /\ ~returned
    /\ Len(ballot) > 0
    /\ scanned = OptionsCount
    /\ returned' = TRUE
    /\ decided' = IF tied THEN CLAIM_OPTION_NONE ELSE best_option
    /\ UNCHANGED <<ballot, counted, tally, scanned, best_option, best_count, tied>>

ScanNext == ReturnNoSurvivors \/ CountVote \/ ScanOption \/ Return

ScanSpec == ScanInit /\ [][ScanNext]_scan

-----------------------------------------------------------------------------
\* The scan returns the option with strictly the most votes, and no option at
\* all when two share the maximum or nobody survives (plurality.rs).
ReturnsStrictPlurality == returned => decided = Plurality(ballot)
=============================================================================
