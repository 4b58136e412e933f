------------------------------ MODULE JsonStore ------------------------------
(***************************************************************************)
(* The replace-based JSON files of ProviderDataStore                       *)
(* (src/src/energy_optimizer/storage.py): save and load of one key, which  *)
(* is stored in a primary file and a backup of the version before.         *)
(*                                                                         *)
(* Nothing locks a key: the orchestrator's thread and the threads of API   *)
(* requests run save and load side by side.  A step of a client is one     *)
(* read or one replacement of a file.  Any write may fail, before or after *)
(* the file was replaced; the process may die between two steps; a file    *)
(* may be damaged on the disk while no client uses it.                     *)
(*                                                                         *)
(* A version is the set of batches submitted into it (see DurableRecord).  *)
(***************************************************************************)
EXTENDS Naturals

CONSTANTS
  Clients,     \* threads that use the store
  Batches,     \* what a save can submit; each at most once
  Merges,      \* histories: a save loads the record and extends it
  MaxDamage,   \* bound on damaged files
  Missing, Damaged, Lost, NoBatch, Pending, Error

ASSUME StoreAssumption ==
  /\ Merges \in BOOLEAN
  /\ NoBatch \notin Batches
  /\ \A v \in SUBSET Batches : v \notin {Missing, Damaged, Lost, Pending, Error}
  /\ Missing # Damaged /\ Pending # Error

VARIABLES
  file,      \* the content of the primary and of the backup file
  pc,        \* the next step of each client
  batch,     \* what the client saves, NoBatch when it only loads
  held,      \* the version the client is about to write
  payload,   \* the version the client's save stores in the primary
  answer,    \* what the client's last call returned
  submitted, \* ghost: the batches saved so far
  acked,     \* ghost: batches whose save returned and no damage took away
  current,   \* ghost: the versions a call may return
  damage,    \* how many files were damaged
  wounds     \* ghost: how many of them since the last save that returned

clientVars == <<pc, batch, held, payload, answer>>
vars == <<file, clientVars, submitted, acked, current, damage, wounds>>

Versions == (SUBSET Batches) \ {{}}
Files == {"primary", "backup"}
Steps == {"idle", "load-primary", "load-backup", "load-absent", "restore",
          "inspect", "inspect-backup", "shelve", "replace"}

Saving(c) == pc[c] \in {"inspect", "inspect-backup", "shelve", "replace"}

\* What a client is about to write is a version, never nothing.
TypeOK ==
  /\ file \in [Files -> {Missing, Damaged} \cup Versions]
  /\ pc \in [Clients -> Steps]
  /\ batch \in [Clients -> {NoBatch} \cup Batches]
  /\ held \in [Clients -> SUBSET Batches]
  /\ payload \in [Clients -> SUBSET Batches]
  /\ answer \in [Clients -> {Pending, Error} \cup SUBSET Batches]
  /\ submitted \subseteq Batches /\ acked \subseteq Batches
  /\ current \subseteq (SUBSET Batches) \cup {Lost}
  /\ damage \in Nat /\ wounds \in Nat
  /\ \A c \in Clients :
       /\ pc[c] \in {"restore", "shelve"} => held[c] # {}
       /\ Saving(c) => payload[c] # {} /\ batch[c] # NoBatch

-----------------------------------------------------------------------------
\* _read_valid: the file exists and its content passes the model's validation.
Valid(f) == file[f] \notin {Missing, Damaged}

Merged_IncomingOnly(version, b) == {b}
Merged(version, b) == IF Merges THEN version \cup {b} ELSE {b}

Goto(c, step) == pc' = [pc EXCEPT ![c] = step]

\* The call of client c raises.
Raise(c) ==
  /\ Goto(c, "idle")
  /\ answer' = [answer EXCEPT ![c] = Error]

\* Client c knows the version it will save; from here on a load may find it.
Offer(c, version) ==
  /\ payload' = [payload EXCEPT ![c] = version]
  /\ current' = current \cup {version}

\* The load is done: answer the caller, or go on with the save it serves.
Loaded(c, version) ==
  IF batch[c] = NoBatch
  THEN /\ Goto(c, "idle")
       /\ answer' = [answer EXCEPT ![c] = version]
       /\ UNCHANGED <<payload, current>>
  ELSE /\ Goto(c, "inspect")
       /\ Offer(c, Merged(version, batch[c]))
       /\ UNCHANGED answer

\* _atomic_write: the new content replaces the old one in one step.  It fails
\* before that (file unchanged) or after it, when syncing the directory fails.
ReplaceFile(f, version) == file' = [file EXCEPT ![f] = version]

WriteFails(c, f, version) ==
  /\ file' = file \/ ReplaceFile(f, version)
  /\ Raise(c)
  /\ UNCHANGED <<batch, held, payload, submitted, acked, current, damage, wounds>>

-----------------------------------------------------------------------------
(* load *)

BeginLoad(c) ==
  /\ pc[c] = "idle"
  /\ Goto(c, "load-primary")
  /\ batch' = [batch EXCEPT ![c] = NoBatch]
  /\ answer' = [answer EXCEPT ![c] = Pending]
  /\ UNCHANGED <<file, held, payload, submitted, acked, current, damage, wounds>>

LoadPrimary(c) ==
  /\ pc[c] = "load-primary"
  /\ IF Valid("primary")
     THEN Loaded(c, file["primary"])
     ELSE Goto(c, "load-backup") /\ UNCHANGED <<payload, current, answer>>
  /\ UNCHANGED <<file, batch, held, submitted, acked, damage, wounds>>

LoadBackup(c) ==
  /\ pc[c] = "load-backup"
  /\ IF Valid("backup")
     THEN /\ Goto(c, "restore")
          /\ held' = [held EXCEPT ![c] = file["backup"]]
     ELSE Goto(c, "load-absent") /\ UNCHANGED held
  /\ UNCHANGED <<file, batch, payload, answer, submitted, acked, current, damage, wounds>>

\* No valid copy: "nothing stored" only if neither file exists by now.
LoadAbsent(c) ==
  /\ pc[c] = "load-absent"
  /\ IF \A f \in Files : file[f] = Missing
     THEN Loaded(c, {})
     ELSE Raise(c) /\ UNCHANGED <<payload, current>>
  /\ UNCHANGED <<file, batch, held, submitted, acked, damage, wounds>>

Restore(c) ==
  /\ pc[c] = "restore"
  /\ \/ /\ ReplaceFile("primary", held[c])
        /\ Loaded(c, held[c])
        /\ UNCHANGED <<batch, held, submitted, acked, damage, wounds>>
     \/ WriteFails(c, "primary", held[c])

-----------------------------------------------------------------------------
(* save *)

BeginSave(c, b) ==
  /\ pc[c] = "idle" /\ b \notin submitted
  /\ submitted' = submitted \cup {b}
  /\ batch' = [batch EXCEPT ![c] = b]
  /\ answer' = [answer EXCEPT ![c] = Pending]
  /\ IF Merges
     THEN Goto(c, "load-primary") /\ UNCHANGED <<payload, current>>
     ELSE Goto(c, "inspect") /\ Offer(c, {b})
  /\ UNCHANGED <<file, held, acked, damage, wounds>>

Inspect_Unvalidated(c) ==
  /\ pc[c] = "inspect"
  /\ IF file["primary"] # Missing
     THEN Goto(c, "shelve") /\ held' = [held EXCEPT ![c] = file["primary"]]
     ELSE Goto(c, "inspect-backup") /\ UNCHANGED held
  /\ UNCHANGED <<file, batch, payload, answer, submitted, acked, current, damage, wounds>>
\* A valid current version goes to the backup; without one the backup is read.
Inspect_NewVersion(c) ==
  /\ pc[c] = "inspect"
  /\ IF Valid("primary")
     THEN Goto(c, "shelve") /\ held' = [held EXCEPT ![c] = payload[c]]
     ELSE Goto(c, "inspect-backup") /\ UNCHANGED held
  /\ UNCHANGED <<file, batch, payload, answer, submitted, acked, current, damage, wounds>>
Inspect(c) ==
  /\ pc[c] = "inspect"
  /\ IF Valid("primary")
     THEN Goto(c, "shelve") /\ held' = [held EXCEPT ![c] = file["primary"]]
     ELSE Goto(c, "inspect-backup") /\ UNCHANGED held
  /\ UNCHANGED <<file, batch, payload, answer, submitted, acked, current, damage, wounds>>

\* A valid backup is left alone, anything else gets the new version too.
InspectBackup(c) ==
  /\ pc[c] = "inspect-backup"
  /\ IF Valid("backup")
     THEN Goto(c, "replace") /\ UNCHANGED held
     ELSE Goto(c, "shelve") /\ held' = [held EXCEPT ![c] = payload[c]]
  /\ UNCHANGED <<file, batch, payload, answer, submitted, acked, current, damage, wounds>>

Shelve(c) ==
  /\ pc[c] = "shelve"
  /\ \/ /\ ReplaceFile("backup", held[c])
        /\ Goto(c, "replace")
        /\ UNCHANGED <<batch, held, payload, answer, submitted, acked, current, damage, wounds>>
     \/ WriteFails(c, "backup", held[c])

\* A load between its unsuccessful read of the primary and its own write of it.
Recovering(c) == pc[c] \in {"load-backup", "restore"}

\* A save that returns supersedes every version but those of the saves still
\* under way, unless a load is recovering: what that one read it writes yet.
Supersede ==
  IF \E d \in Clients : Recovering(d)
  THEN UNCHANGED current
  ELSE current' = {payload[d] : d \in {d \in Clients : Saving(d)}}

Replace(c) ==
  /\ pc[c] = "replace"
  /\ \/ /\ ReplaceFile("primary", payload[c])
        /\ Goto(c, "idle")
        /\ answer' = [answer EXCEPT ![c] = payload[c]]
        /\ acked' = acked \cup {batch[c]}
        /\ wounds' = 0
        /\ Supersede
        /\ UNCHANGED <<batch, held, payload, submitted, damage>>
     \/ WriteFails(c, "primary", payload[c])

-----------------------------------------------------------------------------
(* Failures. *)

\* Reading a file raises an OSError.
ReadFails_Recovers(c) ==
  /\ pc[c] \in {"load-primary", "load-backup", "inspect", "inspect-backup"}
  /\ IF pc[c] = "load-primary" THEN Goto(c, "load-backup") /\ UNCHANGED answer ELSE Raise(c)
  /\ UNCHANGED <<file, batch, held, payload, submitted, acked, current, damage, wounds>>
ReadFails(c) ==
  /\ pc[c] \in {"load-primary", "load-backup", "inspect", "inspect-backup"}
  /\ Raise(c)
  /\ UNCHANGED <<file, batch, held, payload, submitted, acked, current, damage, wounds>>

\* The process dies and starts again; the files are what they were.
Crash ==
  /\ \E c \in Clients : pc[c] # "idle"
  /\ pc' = [c \in Clients |-> "idle"]
  /\ UNCHANGED <<file, batch, held, payload, answer, submitted, acked, current, damage, wounds>>

\* The version a load finds.
Effective ==
  IF Valid("primary") THEN file["primary"]
  ELSE IF Valid("backup") THEN file["backup"]
  ELSE IF \A f \in Files : file[f] = Missing THEN {} ELSE Lost

\* A file no client is using is damaged; what only it held is gone.
Damage(f) ==
  /\ damage < MaxDamage /\ damage' = damage + 1 /\ wounds' = wounds + 1
  /\ \A c \in Clients : pc[c] = "idle"
  /\ Valid(f)
  /\ ReplaceFile(f, Damaged)
  /\ acked' = IF f = "backup" /\ Valid("primary") THEN acked
              ELSE IF f = "primary" /\ Valid("backup")
              THEN acked \cap file["backup"] ELSE {}
  /\ current' = {Effective'}
  /\ UNCHANGED <<clientVars, submitted>>

-----------------------------------------------------------------------------
Init ==
  /\ file = [f \in Files |-> Missing]
  /\ pc = [c \in Clients |-> "idle"]
  /\ batch = [c \in Clients |-> NoBatch]
  /\ held = [c \in Clients |-> {}] /\ payload = [c \in Clients |-> {}]
  /\ answer = [c \in Clients |-> Pending]
  /\ submitted = {} /\ acked = {} /\ current = {{}} /\ damage = 0 /\ wounds = 0

ClientStep(c) ==
  \/ BeginLoad(c) \/ LoadPrimary(c) \/ LoadBackup(c) \/ LoadAbsent(c) \/ Restore(c)
  \/ \E b \in Batches : BeginSave(c, b)
  \/ Inspect(c) \/ InspectBackup(c) \/ Shelve(c) \/ Replace(c)
  \/ ReadFails(c)

Next ==
  \/ \E c \in Clients : ClientStep(c)
  \/ Crash
  \/ \E f \in Files : Damage(f)

Spec == Init /\ [][Next]_vars

-----------------------------------------------------------------------------
(* Properties. *)

\* Interrupted saves never leave a key without a valid copy: a record that was
\* stored can be loaded as long as no second file is damaged before the next
\* save returns, whatever step of whatever save failed or was cut off.  (Until
\* the first save has written both files there is only the backup.)
CopyRemains == wounds <= 1 /\ file["primary"] # Missing => Effective # Lost

\* "Each save is merged into one contiguous hourly history" (README): what a
\* history's save acknowledged is contained in what every later load finds, until
\* the disk loses the only file that held it.
AcknowledgedIsStored == \A b \in acked : b \in Effective

Answered(c) == answer[c] = Pending /\ answer'[c] # Pending

\* A call returns the version of the last save that returned, or of one that is
\* under way or failed since: never an older one, whatever threads read, restore
\* and replace the same key in between, fail or are cut off, and never "nothing
\* stored" for a damaged record.  The code keeps this for all loads but those that
\* had found no valid primary before the save returned: their restore puts the
\* backup they read over the new primary (storage.py:224, 235).
AnswersAreCurrent ==
  [][\A c \in Clients : Answered(c) => answer'[c] \in {Error} \cup current']_vars

\* The files implement the record of the abstract specification.
Record == INSTANCE DurableRecord WITH
  value <- Effective,
  fallback <- IF Valid("backup") THEN file["backup"] ELSE Effective
ImplementsRecord == Record!Spec
=============================================================================
