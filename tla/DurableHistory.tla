---------------------------- MODULE DurableHistory ----------------------------
(***************************************************************************)
(* What HouseholdLoadHistoryStore promises one client at a time            *)
(* (household_load_store.py): the history a load returns changes only by   *)
(* an append to the history that was there, completed or cut off, and      *)
(* otherwise by what damages a file. A damaged file costs at most what was *)
(* appended since the copy beside it was made; that copy is itself a       *)
(* history the store held. Restoring, migrating, compacting and repairing  *)
(* files never change what a load returns.                                 *)
(***************************************************************************)
EXTENDS Naturals

CONSTANTS Histories,  \* the histories a load can return, the empty one included
          Extends,    \* pairs <<history, the same after an append>>
          Lost        \* no file can be read

VARIABLES value,     \* what a load returns
          fallback,  \* what a load would return if the newest file were damaged
          damage     \* the number of damaged files so far

Init == value \in Histories \cup {Lost} /\ fallback = value /\ damage = 0

\* A save: the copy beside the history still holds it from before the save, or is
\* made afresh.
Extend ==
  /\ value' # value
  /\ <<value, value'>> \in Extends
  /\ fallback' \in {fallback, value'}
  /\ UNCHANGED damage

\* The history is copied: as it is, or, by a compaction, as it was before the append
\* just made.
Shelve ==
  /\ fallback' # fallback
  /\ value # Lost
  /\ UNCHANGED <<value, damage>>
  /\ fallback' = value \/ <<fallback', value>> \in Extends

Fall == damage' = damage + 1 /\ value' = fallback /\ UNCHANGED fallback

\* The copy is damaged. With no copy the history is lost when its file is.
LoseBackup ==
  /\ damage' = damage + 1
  /\ fallback' = Lost
  /\ value' = value \/ (value = fallback /\ value' = Lost)

Next == Extend \/ Shelve \/ Fall \/ LoseBackup

Spec == Init /\ [][Next]_<<value, fallback, damage>>
=============================================================================
