--------------------------- MODULE MCHouseholdStore ---------------------------
(* Values of the constants of HouseholdStore for the model checker.          *)
EXTENDS HouseholdStore

CONSTANTS scheduled, submitted  \* the orchestrator's thread and an API request's

Old == [h \in 0..1 |-> MaxSaves + 1]

NoLegacy == {[f \in Files |-> Missing]}
\* At most one version in the legacy files: none, both written by the first save,
\* or only the backup of it readable; or nothing readable at all.
OneVersion ==
  NoLegacy \cup {[f \in Files |-> Old], [f \in Files |-> Damaged],
               [f \in Files |-> IF f = "backup" THEN Old ELSE Damaged]}
=============================================================================
