-------------------------- MODULE MCAnnouncements --------------------------
(***************************************************************************)
(* Instances of Announcements for TLC.                                     *)
(***************************************************************************)
EXTENDS Announcements, TLC

Symmetry == Permutations(Handlers)
MCStatuses == {"CONFIRMEE"}
MCAllStatuses == {"EN_ATTENTE", "CONFIRMEE", "ANNULEE", "REFUSEE", "TERMINEE", "BLOQUEE"}

\* The second change of an account is for the promotions, which look at it
\* twice: it is explored while nothing has failed and no complaint was filed.
SecondEdit == edits = 2 => faults = 0 /\ complaint.statut = "none"
=============================================================================
