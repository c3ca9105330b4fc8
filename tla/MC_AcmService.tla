--------------------------- MODULE MC_AcmService ---------------------------
(***************************************************************************)
(* Instances of AcmService for TLC.  The counters of the code (10, 6, 10   *)
(* ticks) are scaled down to 2, 2, 1: what matters is that a period, a     *)
(* tolerated miss and a mode text that outlives a tick all happen.         *)
(***************************************************************************)
EXTENDS AcmService, TLC

CONSTANTS Quiet, Loud      \* two Master levels

TwoLevels == {Quiet, Loud}

\* Levels are only stored and compared, so they may be exchanged.  Used in
\* runs that check invariants only.
LevelSymmetry == Permutations(TwoLevels)
=============================================================================
