----------------------------- MODULE MCBackups -----------------------------
(***************************************************************************)
(* Small instances of Backups for TLC.                                     *)
(***************************************************************************)
EXTENDS Backups, TLC

CONSTANTS e1, e2, d1

TwoObjects == {1, 2}
OneThere == [o \in Object |-> IF o = 1 THEN e1 ELSE Unborn]
AllThere == [o \in Object |-> e1]

\* A Drive destination is watched from the start; another one may be later.
Watched == Fresh("on_change", TRUE)
WatchedOrNot == {Watched, NoSchedule}
MCInit == Init /\ \A d \in Dest : kind[d] = "drive" <=> schedule[d].exists
MCSpec == MCInit /\ [][Next]_vars /\ Fairness

=============================================================================
