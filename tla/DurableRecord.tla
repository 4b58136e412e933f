---------------------------- MODULE DurableRecord ----------------------------
(***************************************************************************)
(* What ProviderDataStore promises about one key (README, "Normalized      *)
(* provider-data persistence"): the record a load returns only changes by  *)
(* a save, or, when the file holding it is damaged, by falling back to the *)
(* version before the last change.  It takes two damaged copies to lose it *)
(* and a lost record is never mistaken for one that was never stored.      *)
(*                                                                         *)
(* A version is the set of submitted batches it contains: a history keeps  *)
(* the batches saved before (Merges), any other record replaces them.      *)
(***************************************************************************)
CONSTANTS Batches,  \* what a save can submit
          Merges,   \* the record is a history that saves extend
          Lost      \* neither copy can be read

VARIABLES value,     \* the version a load returns; {} when nothing is stored
          fallback   \* the version that remains if the newest file is damaged

Merged(version, b) == IF Merges THEN version \cup {b} ELSE {b}

Init == value = {} /\ fallback = {}

Commit(b) ==
  /\ Merges => value # Lost
  /\ value' = Merged(IF value = Lost THEN {} ELSE value, b)
  /\ fallback' = IF value \notin {{}, Lost} THEN value ELSE value'

\* The version a load returns is copied to the other file.
Shelve == fallback' = value /\ UNCHANGED value

Fall == value' = fallback /\ UNCHANGED fallback

Lose == value = fallback /\ value # {} /\ value' = Lost /\ fallback' = Lost

Next == (\E b \in Batches : Commit(b)) \/ Shelve \/ Fall \/ Lose

Spec == Init /\ [][Next]_<<value, fallback>>
=============================================================================
