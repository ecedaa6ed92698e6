--------------------------- MODULE MCCancellation ---------------------------
(***************************************************************************)
(* An instance of Cancellation for TLC: fees of nothing, less than nothing *)
(* and more than the total, two conditions with the same delay and one     *)
(* with a longer delay; a price below nothing, one of nothing, and one     *)
(* below the total.                                                        *)
(***************************************************************************)
EXTENDS Cancellation

Condition(hours, fee) == [delaiLimiteHeures |-> hours, fraisAnnulation |-> fee]

SomeConditions == {Condition(48, 0), Condition(48, 30000), Condition(72, -4000)}
SomePrices == {-500, 0, 9000}
SomeTotals == {20000}
SomeCheckIns == {48, 72}
ReopenOrBlock == {"EN_ATTENTE", "BLOQUEE"}
=============================================================================
