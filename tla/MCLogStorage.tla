--------------------------- MODULE MCLogStorage ---------------------------
(* Small instances of LogStorage for TLC.                                  *)
EXTENDS LogStorage, TLC

(* Days of four ticks.  The end of day 0 and the start of day 1 in UTC; a  *)
(* clock half a day ahead, for which day 1 has begun, and one half a day   *)
(* behind, for which day 0 has not ended.                                  *)
MCRowTime ==
    {[at |-> 3, zone |-> 0], [at |-> 4, zone |-> 0],
     [at |-> 2, zone |-> 2], [at |-> 5, zone |-> -2]}

Symmetry == Permutations(Row) \union Permutations(Worker)
=============================================================================
