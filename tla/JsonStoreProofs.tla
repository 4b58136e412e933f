--------------------------- MODULE JsonStoreProofs ---------------------------
(***************************************************************************)
(* Theorems about JsonStore, for any set of clients and batches and any    *)
(* number of damaged files.  Where no theorem restricts the clients, their *)
(* steps interleave freely; the two facts that need a single client (the   *)
(* abstract record is implemented, acknowledged batches stay) say so.      *)
(***************************************************************************)
EXTENDS JsonStore, TLAPS

USE DEF Files

LEMMA ValidContent ==
  ASSUME TypeOK, NEW f \in Files, Valid(f)
  PROVE  file[f] \in Versions /\ file[f] # {} /\ file[f] \subseteq Batches
BY DEF TypeOK, Valid, Versions

LEMMA MergedContent ==
  ASSUME NEW v \in SUBSET Batches, NEW b \in Batches
  PROVE  Merged(v, b) \in Versions /\ b \in Merged(v, b)
BY DEF Merged, Versions

LEMMA EffectiveType == ASSUME TypeOK PROVE Effective \in (SUBSET Batches) \cup {Lost}
BY ValidContent DEF Effective

LEMMA LoadedType ==
  ASSUME TypeOK, NEW c \in Clients, NEW v \in SUBSET Batches, Loaded(c, v),
         ~Saving(c), UNCHANGED batch
  PROVE  /\ pc' \in [Clients -> Steps]
         /\ payload' \in [Clients -> SUBSET Batches]
         /\ answer' \in [Clients -> {Pending, Error} \cup SUBSET Batches]
         /\ current' \subseteq (SUBSET Batches) \cup {Lost}
         /\ pc'[c] \in {"idle", "inspect"}
         /\ pc'[c] = "inspect" => payload'[c] # {} /\ batch[c] # NoBatch
         /\ \A d \in Clients \ {c} : pc'[d] = pc[d] /\ payload'[d] = payload[d]
<1>1. CASE batch[c] = NoBatch
  BY <1>1 DEF Loaded, Goto, TypeOK, Steps
<1>2. CASE batch[c] # NoBatch
  <2>1. batch[c] \in Batches
    BY <1>2 DEF TypeOK
  <2>2. Merged(v, batch[c]) \in SUBSET Batches /\ Merged(v, batch[c]) # {}
    BY <2>1, MergedContent DEF Versions
  <2>3. pc' = [pc EXCEPT ![c] = "inspect"] /\ answer' = answer
        /\ payload' = [payload EXCEPT ![c] = Merged(v, batch[c])]
        /\ current' = current \cup {Merged(v, batch[c])}
    BY <1>2 DEF Loaded, Offer, Goto
  <2>4. QED
    BY <1>2, <2>2, <2>3 DEF TypeOK, Steps
<1>3. QED
  BY <1>1, <1>2

\* A file that is replaced holds a version from then on.
LEMMA ReplacedFile ==
  ASSUME TypeOK, NEW f \in Files, NEW v \in SUBSET Batches, v # {}, ReplaceFile(f, v)
  PROVE  /\ file' \in [Files -> {Missing, Damaged} \cup Versions]
         /\ Valid(f)' /\ file'[f] = v
         /\ \A g \in Files \ {f} : file'[g] = file[g]
<1>1. v \in Versions
  BY DEF Versions
<1>2. v \notin {Missing, Damaged}
  BY StoreAssumption
<1>3. QED
  BY <1>1, <1>2 DEF ReplaceFile, TypeOK, Valid

LEMMA TypeInit == Init => TypeOK
BY DEF Init, TypeOK, Steps, Saving

LEMMA TypeLoad ==
  ASSUME TypeOK, NEW c \in Clients,
         BeginLoad(c) \/ LoadPrimary(c) \/ LoadBackup(c) \/ LoadAbsent(c) \/ Restore(c)
  PROVE  TypeOK'
<1>1. CASE BeginLoad(c)
  BY <1>1 DEF BeginLoad, Goto, TypeOK, Steps, Saving
<1>2. CASE LoadPrimary(c)
  <2>1. CASE Valid("primary")
    <3>1. file["primary"] \in SUBSET Batches
      BY <2>1, ValidContent
    <3>2. Loaded(c, file["primary"]) /\ ~Saving(c)
      BY <1>2, <2>1 DEF LoadPrimary, Saving
    <3>3. QED
      BY <1>2, <3>1, <3>2, LoadedType DEF LoadPrimary, TypeOK, Saving
  <2>2. CASE ~Valid("primary")
    BY <1>2, <2>2 DEF LoadPrimary, Goto, TypeOK, Steps, Saving
  <2>3. QED
    BY <2>1, <2>2
<1>3. CASE LoadBackup(c)
  <2>1. CASE Valid("backup")
    <3>1. file["backup"] \in SUBSET Batches /\ file["backup"] # {}
      BY <2>1, ValidContent
    <3>2. QED
      BY <1>3, <2>1, <3>1 DEF LoadBackup, Goto, TypeOK, Steps, Saving
  <2>2. CASE ~Valid("backup")
    BY <1>3, <2>2 DEF LoadBackup, Goto, TypeOK, Steps, Saving
  <2>3. QED
    BY <2>1, <2>2
<1>4. CASE LoadAbsent(c)
  <2>1. CASE \A f \in Files : file[f] = Missing
    <3>1. Loaded(c, {}) /\ ~Saving(c)
      BY <1>4, <2>1 DEF LoadAbsent, Saving
    <3>2. QED
      BY <1>4, <3>1, LoadedType DEF LoadAbsent, TypeOK, Saving
  <2>2. CASE ~(\A f \in Files : file[f] = Missing)
    BY <1>4, <2>2 DEF LoadAbsent, Raise, Goto, TypeOK, Steps, Saving
  <2>3. QED
    BY <2>1, <2>2
<1>5. CASE Restore(c)
  <2>1. held[c] \in SUBSET Batches /\ held[c] # {} /\ ~Saving(c)
    BY <1>5 DEF Restore, WriteFails, TypeOK, Saving
  <2>2. CASE WriteFails(c, "primary", held[c])
    <3>1. file' \in [Files -> {Missing, Damaged} \cup Versions]
      BY <2>1, <2>2, ReplacedFile DEF WriteFails, TypeOK
    <3>2. QED
      BY <2>2, <3>1 DEF WriteFails, Raise, Goto, TypeOK, Steps, Saving
  <2>3. CASE ReplaceFile("primary", held[c]) /\ Loaded(c, held[c])
             /\ UNCHANGED <<batch, held, submitted, acked, damage, wounds>>
    <3>1. file' \in [Files -> {Missing, Damaged} \cup Versions]
      BY <2>1, <2>3, ReplacedFile
    <3>2. QED
      BY <2>1, <2>3, <3>1, LoadedType DEF TypeOK, Saving
  <2>4. QED
    BY <1>5, <2>2, <2>3 DEF Restore
<1>6. QED
  BY <1>1, <1>2, <1>3, <1>4, <1>5

LEMMA TypeSave ==
  ASSUME TypeOK, NEW c \in Clients,
         \/ \E b \in Batches : BeginSave(c, b)
         \/ Inspect(c) \/ InspectBackup(c) \/ Shelve(c) \/ Replace(c) \/ ReadFails(c)
  PROVE  TypeOK'
<1>1. ASSUME NEW b \in Batches, BeginSave(c, b) PROVE TypeOK'
  <2>1. b # NoBatch
    BY StoreAssumption
  <2>2. /\ pc' \in [Clients -> Steps] /\ payload' \in [Clients -> SUBSET Batches]
        /\ current' \subseteq (SUBSET Batches) \cup {Lost}
        /\ \A d \in Clients \ {c} : pc'[d] = pc[d] /\ payload'[d] = payload[d]
        /\ pc'[c] \in {"inspect", "load-primary"}
        /\ pc'[c] = "inspect" => payload'[c] # {}
    <3>1. CASE Merges
      <4>1. pc' = [pc EXCEPT ![c] = "load-primary"] /\ UNCHANGED <<payload, current>>
        BY <1>1, <3>1 DEF BeginSave, Goto
      <4> QED BY <4>1 DEF TypeOK, Steps
    <3>2. CASE ~Merges
      <4>1. /\ pc' = [pc EXCEPT ![c] = "inspect"]
            /\ payload' = [payload EXCEPT ![c] = {b}] /\ current' = current \cup {{b}}
        BY <1>1, <3>2 DEF BeginSave, Offer, Goto
      <4>2. {b} \in SUBSET Batches /\ {b} # {} OBVIOUS
      <4>3. /\ pc \in [Clients -> Steps] /\ payload \in [Clients -> SUBSET Batches]
            /\ current \subseteq (SUBSET Batches) \cup {Lost}
        BY DEF TypeOK
      <4> QED BY <4>1, <4>2, <4>3 DEF Steps
    <3> QED BY <3>1, <3>2
  <2>3. batch' = [batch EXCEPT ![c] = b] /\ answer' = [answer EXCEPT ![c] = Pending]
        /\ submitted' = submitted \cup {b}
        /\ UNCHANGED <<file, held, acked, damage, wounds>>
    BY <1>1 DEF BeginSave
  <2>4. batch' \in [Clients -> {NoBatch} \cup Batches]
    BY <2>3 DEF TypeOK
  <2>5. answer' \in [Clients -> {Pending, Error} \cup SUBSET Batches]
    BY <2>3 DEF TypeOK
  <2>6. QED
    BY <2>1, <2>2, <2>3, <2>4, <2>5 DEF TypeOK, Saving
<1>2. CASE Inspect(c)
  <2>1. CASE Valid("primary")
    <3>1. file["primary"] \in SUBSET Batches /\ file["primary"] # {}
      BY <2>1, ValidContent
    <3>2. QED
      BY <1>2, <2>1, <3>1 DEF Inspect, Goto, TypeOK, Steps, Saving
  <2>2. CASE ~Valid("primary")
    BY <1>2, <2>2 DEF Inspect, Goto, TypeOK, Steps, Saving
  <2>3. QED
    BY <2>1, <2>2
<1>3. CASE InspectBackup(c)
  BY <1>3 DEF InspectBackup, Goto, TypeOK, Steps, Saving
<1>4. CASE Shelve(c)
  <2>1. held[c] \in SUBSET Batches /\ held[c] # {}
    BY <1>4 DEF Shelve, WriteFails, TypeOK
  <2>2. file' \in [Files -> {Missing, Damaged} \cup Versions]
    BY <1>4, <2>1, ReplacedFile DEF Shelve, WriteFails, TypeOK
  <2>3. QED
    BY <1>4, <2>2 DEF Shelve, WriteFails, Raise, Goto, TypeOK, Steps, Saving
<1>5. CASE Replace(c)
  <2>1. payload[c] \in SUBSET Batches /\ payload[c] # {} /\ batch[c] \in Batches
    BY <1>5 DEF Replace, WriteFails, TypeOK, Saving
  <2>2. file' \in [Files -> {Missing, Damaged} \cup Versions]
    BY <1>5, <2>1, ReplacedFile DEF Replace, WriteFails, TypeOK
  <2>3. current' \subseteq (SUBSET Batches) \cup {Lost}
    BY <1>5 DEF Replace, WriteFails, Supersede, TypeOK
  <2>4. QED
    BY <1>5, <2>1, <2>2, <2>3 DEF Replace, WriteFails, Raise, Goto, TypeOK, Steps, Saving
<1>6. CASE ReadFails(c)
  BY <1>6 DEF ReadFails, Raise, Goto, TypeOK, Steps, Saving
<1>7. QED
  BY <1>1, <1>2, <1>3, <1>4, <1>5, <1>6

LEMMA TypeNext == TypeOK /\ [Next]_vars => TypeOK'
<1> SUFFICES ASSUME TypeOK, [Next]_vars PROVE TypeOK'
  OBVIOUS
<1>1. ASSUME NEW c \in Clients, ClientStep(c) PROVE TypeOK'
  BY <1>1, TypeLoad, TypeSave DEF ClientStep
<1>2. CASE Crash
  BY <1>2 DEF Crash, TypeOK, Steps, Saving
<1>3. ASSUME NEW f \in Files, Damage(f) PROVE TypeOK'
  <2>1. file' \in [Files -> {Missing, Damaged} \cup Versions]
    BY <1>3 DEF Damage, ReplaceFile, TypeOK
  <2>2. acked' \subseteq Batches
    BY <1>3 DEF Damage, TypeOK
  <2>3. current' \subseteq (SUBSET Batches) \cup {Lost}
    <3>1. Effective' \in (SUBSET Batches) \cup {Lost}
      BY <2>1 DEF Effective, Valid, Versions
    <3>2. QED
      BY <1>3, <3>1 DEF Damage
  <2>4. QED
    BY <1>3, <2>1, <2>2, <2>3 DEF Damage, clientVars, TypeOK, Saving
<1>4. CASE UNCHANGED vars
  BY <1>4 DEF vars, clientVars, TypeOK, Saving
<1>5. QED
  BY <1>1, <1>2, <1>3, <1>4 DEF Next

\* The files hold versions or nothing, and a client never writes an empty record.
THEOREM StoreTypeCorrect == Spec => []TypeOK
BY TypeInit, TypeNext, PTL DEF Spec

-----------------------------------------------------------------------------
(***************************************************************************)
(* A valid copy remains, whatever the interleaving.  Two facts carry it:   *)
(* a client is only about to write the primary while the backup is valid,  *)
(* and while no file was damaged since the last save that returned, a      *)
(* primary that exists is valid together with its backup.                  *)
(***************************************************************************)
BackupFirst == \A c \in Clients : pc[c] \in {"restore", "replace"} => Valid("backup")

CopyInv ==
  /\ BackupFirst
  /\ wounds = 0 /\ file["primary"] # Missing => Valid("primary") /\ Valid("backup")
  /\ wounds = 1 /\ file["primary"] # Missing => Valid("primary") \/ Valid("backup")

\* What a step of a client does to the files.
LEMMA ClientFiles ==
  ASSUME TypeOK, NEW c \in Clients, ClientStep(c)
  PROVE  /\ \/ UNCHANGED file
            \/ /\ pc[c] \in {"restore", "replace"}
               /\ Valid("primary")' /\ file'["backup"] = file["backup"]
            \/ /\ pc[c] = "shelve"
               /\ Valid("backup")' /\ file'["primary"] = file["primary"]
         /\ \A d \in Clients \ {c} : pc'[d] = pc[d]
         /\ \/ pc'[c] \notin {"restore", "replace"}
            \/ Valid("backup") /\ UNCHANGED file
            \/ pc[c] = "shelve" /\ Valid("backup")'
         /\ wounds' = wounds \/ (wounds' = 0 /\ pc[c] = "replace" /\ Valid("primary")')
<1>1. CASE BeginLoad(c) \/ LoadPrimary(c) \/ LoadBackup(c) \/ LoadAbsent(c) \/ ReadFails(c)
  BY <1>1 DEF BeginLoad, LoadPrimary, LoadBackup, LoadAbsent, ReadFails, Loaded, Offer, Raise,
              Goto, TypeOK, Steps
<1>2. CASE (\E b \in Batches : BeginSave(c, b)) \/ Inspect(c) \/ InspectBackup(c)
  BY <1>2 DEF BeginSave, Inspect, InspectBackup, Goto, TypeOK, Steps
<1>3. CASE Restore(c)
  <2>1. pc[c] = "restore" /\ held[c] \in SUBSET Batches /\ held[c] # {}
    BY <1>3 DEF Restore, TypeOK
  <2>2. UNCHANGED file \/ (Valid("primary")' /\ file'["backup"] = file["backup"])
    BY <1>3, <2>1, ReplacedFile DEF Restore, WriteFails
  <2>3. pc'[c] \notin {"restore", "replace"} /\ wounds' = wounds
        /\ \A d \in Clients \ {c} : pc'[d] = pc[d]
    BY <1>3 DEF Restore, WriteFails, Loaded, Raise, Goto, TypeOK, Steps
  <2>4. QED
    BY <2>1, <2>2, <2>3
<1>4. CASE Shelve(c)
  <2>1. pc[c] = "shelve" /\ held[c] \in SUBSET Batches /\ held[c] # {}
    BY <1>4 DEF Shelve, TypeOK
  <2>2. /\ UNCHANGED file \/ (Valid("backup")' /\ file'["primary"] = file["primary"])
        /\ Valid("backup")' \/ pc'[c] = "idle"
    BY <1>4, <2>1, ReplacedFile DEF Shelve, WriteFails, Raise, Goto, TypeOK
  <2>3. wounds' = wounds /\ \A d \in Clients \ {c} : pc'[d] = pc[d]
    BY <1>4 DEF Shelve, WriteFails, Raise, Goto, TypeOK
  <2>4. QED
    BY <2>1, <2>2, <2>3
<1>5. CASE Replace(c)
  <2>1. pc[c] = "replace" /\ payload[c] \in SUBSET Batches /\ payload[c] # {}
    BY <1>5 DEF Replace, TypeOK, Saving
  <2>2. /\ UNCHANGED file \/ (Valid("primary")' /\ file'["backup"] = file["backup"])
        /\ wounds' = wounds \/ (wounds' = 0 /\ Valid("primary")')
    BY <1>5, <2>1, ReplacedFile DEF Replace, WriteFails
  <2>3. pc'[c] = "idle" /\ \A d \in Clients \ {c} : pc'[d] = pc[d]
    BY <1>5 DEF Replace, WriteFails, Raise, Goto, TypeOK
  <2>4. QED
    BY <2>1, <2>2, <2>3
<1>6. QED
  BY <1>1, <1>2, <1>3, <1>4, <1>5 DEF ClientStep

LEMMA CopyInit == Init => CopyInv
BY DEF Init, CopyInv, BackupFirst, Valid

LEMMA CopyNext == TypeOK /\ CopyInv /\ [Next]_vars => CopyInv'
<1> SUFFICES ASSUME TypeOK, CopyInv, [Next]_vars PROVE CopyInv'
  OBVIOUS
<1>1. ASSUME NEW c \in Clients, ClientStep(c) PROVE CopyInv'
  <2>1. BackupFirst'
    BY <1>1, ClientFiles DEF CopyInv, BackupFirst, Valid
  <2>2. \/ UNCHANGED file
        \/ /\ Valid("backup") /\ Valid("primary")' /\ file'["backup"] = file["backup"]
        \/ /\ Valid("backup")' /\ file'["primary"] = file["primary"]
    BY <1>1, ClientFiles DEF CopyInv, BackupFirst
  <2>3. wounds' = wounds \/ (wounds' = 0 /\ Valid("backup")' /\ Valid("primary")')
    <3>1. ASSUME pc[c] = "replace", Valid("primary")' PROVE Valid("backup")'
      BY <1>1, <3>1, ClientFiles DEF CopyInv, BackupFirst, Valid
    <3>2. QED
      BY <1>1, <3>1, ClientFiles
  <2>4. QED
    BY <2>1, <2>2, <2>3 DEF CopyInv, Valid
<1>2. CASE Crash
  BY <1>2 DEF Crash, CopyInv, BackupFirst, Valid
<1>3. ASSUME NEW f \in Files, Damage(f) PROVE CopyInv'
  <2>1. BackupFirst'
    BY <1>3 DEF Damage, clientVars, BackupFirst
  <2>2. wounds' = wounds + 1 /\ wounds \in Nat /\ Valid(f)
        /\ \A g \in Files \ {f} : file'[g] = file[g]
    BY <1>3 DEF Damage, ReplaceFile, TypeOK
  <2>3. wounds' # 0 /\ (wounds' = 1 => wounds = 0)
    BY <2>2
  <2>4. wounds' = 1 /\ file'["primary"] # Missing => Valid("primary")' \/ Valid("backup")'
    <3>1. file'["primary"] # Missing => file["primary"] # Missing
      BY <2>2 DEF Valid
    <3>2. QED
      BY <2>2, <2>3, <3>1 DEF CopyInv, Valid
  <2>5. QED
    BY <2>1, <2>3, <2>4 DEF CopyInv
<1>4. CASE UNCHANGED vars
  BY <1>4 DEF vars, clientVars, CopyInv, BackupFirst, Valid
<1>5. QED
  BY <1>1, <1>2, <1>3, <1>4 DEF Next

LEMMA NotLost ==
  ASSUME TypeOK, Valid("primary") \/ Valid("backup")
  PROVE  Effective # Lost
<1>1. Effective \in SUBSET Batches
  BY ValidContent DEF Effective
<1>2. QED
  BY <1>1, StoreAssumption

\* A record that was stored is not lost by interrupted, failed or concurrent saves
\* and restores: losing it takes two damaged files with no save between them.
THEOREM CopyStays == Spec => []CopyRemains
<1>1. TypeOK /\ CopyInv => CopyRemains
  <2> SUFFICES ASSUME TypeOK, CopyInv, wounds <= 1, file["primary"] # Missing
               PROVE  Effective # Lost
    BY DEF CopyRemains
  <2>1. wounds = 0 \/ wounds = 1
    BY DEF TypeOK
  <2>2. QED
    BY <2>1, NotLost DEF CopyInv
<1>2. Spec => []CopyInv
  BY CopyInit, CopyNext, StoreTypeCorrect, PTL DEF Spec
<1>3. QED
  BY <1>1, <1>2, StoreTypeCorrect, PTL

-----------------------------------------------------------------------------
(***************************************************************************)
(* Answers are current.  What the files hold, what the savers offer and    *)
(* what a restore is about to write is current.  The backup, and what a    *)
(* saver is about to put there, is an older version and need not be: it    *)
(* must be current only while a load may read it, which is while there is  *)
(* no valid primary or while a load that found none is at its next step.   *)
(***************************************************************************)
BackupMatters == ~Valid("primary") \/ \E c \in Clients : pc[c] = "load-backup"

CurrentInv ==
  /\ Effective \in current
  /\ \A c \in Clients : Saving(c) => payload[c] \in current
  /\ \A c \in Clients : pc[c] = "restore" => held[c] \in current
  /\ BackupMatters =>
       /\ Valid("backup") => file["backup"] \in current
       /\ \A c \in Clients : pc[c] = "shelve" => held[c] \in current

\* A step of a client changes nothing of another client.
LEMMA OwnStep ==
  ASSUME TypeOK, NEW c \in Clients, ClientStep(c), NEW d \in Clients, d # c
  PROVE  /\ pc'[d] = pc[d] /\ held'[d] = held[d]
         /\ payload'[d] = payload[d] /\ answer'[d] = answer[d]
<1> /\ pc \in [Clients -> Steps] /\ held \in [Clients -> SUBSET Batches]
    /\ payload \in [Clients -> SUBSET Batches]
    /\ answer \in [Clients -> {Pending, Error} \cup SUBSET Batches]
  BY DEF TypeOK
<1>1. CASE BeginLoad(c) \/ LoadPrimary(c) \/ LoadBackup(c) \/ LoadAbsent(c) \/ ReadFails(c)
  BY <1>1 DEF BeginLoad, LoadPrimary, LoadBackup, LoadAbsent, ReadFails, Loaded, Offer,
              Raise, Goto
<1>2. CASE (\E b \in Batches : BeginSave(c, b)) \/ Inspect(c) \/ InspectBackup(c)
  BY <1>2 DEF BeginSave, Inspect, InspectBackup, Offer, Goto
<1>3. CASE Restore(c) \/ Shelve(c) \/ Replace(c)
  BY <1>3 DEF Restore, Shelve, Replace, WriteFails, Loaded, Offer, Raise, Goto
<1>4. QED
  BY <1>1, <1>2, <1>3 DEF ClientStep

LEMMA CurrentInit == Init => CurrentInv
BY DEF Init, CurrentInv, BackupMatters, Effective, Valid, Saving

\* A step that writes no file: what it offers or holds must be current.
LEMMA CurrentQuiet ==
  ASSUME TypeOK, CurrentInv, NEW c \in Clients, ClientStep(c), UNCHANGED file,
         current \subseteq current',
         Saving(c)' => payload'[c] \in current',
         pc'[c] = "restore" => held'[c] \in current',
         pc'[c] = "load-backup" => BackupMatters,
         pc'[c] = "shelve" => held'[c] \in current'
  PROVE  CurrentInv'
<1>1. Effective' = Effective /\ (Valid("primary")' <=> Valid("primary"))
      /\ (Valid("backup")' <=> Valid("backup"))
  BY DEF Effective, Valid
<1>2. BackupMatters' => BackupMatters
  BY <1>1, OwnStep DEF BackupMatters
<1>3. \A d \in Clients \ {c} : /\ pc'[d] = pc[d] /\ held'[d] = held[d]
                              /\ payload'[d] = payload[d]
  BY OwnStep
<1>4. QED
  BY <1>1, <1>2, <1>3 DEF CurrentInv, Saving

\* After the load of a call: the version that was loaded or is offered is current.
LEMMA LoadedCurrent ==
  ASSUME TypeOK, NEW c \in Clients, NEW v, Loaded(c, v)
  PROVE  /\ current \subseteq current' /\ pc'[c] \in {"idle", "inspect"}
         /\ Saving(c)' => payload'[c] \in current'
         /\ Answered(c) => answer'[c] = v
BY DEF Loaded, Offer, Goto, Saving, Answered, TypeOK

LEMMA CurrentReads ==
  ASSUME TypeOK, CurrentInv, NEW c \in Clients,
         \/ BeginLoad(c) \/ LoadPrimary(c) \/ LoadBackup(c) \/ LoadAbsent(c) \/ ReadFails(c)
         \/ (\E b \in Batches : BeginSave(c, b)) \/ Inspect(c) \/ InspectBackup(c)
  PROVE  CurrentInv'
<1> USE DEF Goto
<1> ClientStep(c) /\ pc[c] \in Steps
  BY DEF ClientStep, TypeOK
<1>1. CASE BeginLoad(c) \/ ReadFails(c)
  BY <1>1, CurrentQuiet DEF BeginLoad, ReadFails, Raise, Saving, TypeOK
<1>2. CASE LoadPrimary(c)
  <2>1. CASE Valid("primary")
    BY <1>2, <2>1, LoadedCurrent, CurrentQuiet DEF LoadPrimary
  <2>2. CASE ~Valid("primary")
    BY <1>2, <2>2, CurrentQuiet DEF LoadPrimary, BackupMatters, Saving, TypeOK
  <2>3. QED
    BY <2>1, <2>2
<1>3. CASE LoadBackup(c)
  <2>1. Valid("backup") => file["backup"] \in current
    BY <1>3 DEF LoadBackup, CurrentInv, BackupMatters
  <2>2. QED
    BY <1>3, <2>1, CurrentQuiet DEF LoadBackup, Saving, TypeOK
<1>4. CASE LoadAbsent(c)
  <2>1. CASE \A f \in Files : file[f] = Missing
    BY <1>4, <2>1, LoadedCurrent, CurrentQuiet DEF LoadAbsent
  <2>2. CASE ~(\A f \in Files : file[f] = Missing)
    BY <1>4, <2>2, CurrentQuiet DEF LoadAbsent, Raise, Saving, TypeOK
  <2>3. QED
    BY <2>1, <2>2
<1>5. ASSUME NEW b \in Batches, BeginSave(c, b) PROVE CurrentInv'
  <2>1. CASE Merges
    BY <1>5, <2>1, CurrentQuiet DEF BeginSave, Saving, TypeOK
  <2>2. CASE ~Merges
    BY <1>5, <2>2, CurrentQuiet DEF BeginSave, Offer, Saving, TypeOK
  <2>3. QED
    BY <2>1, <2>2
<1>6. CASE Inspect(c)
  <2>1. payload[c] \in current /\ (Valid("primary") => file["primary"] \in current)
    BY <1>6 DEF Inspect, CurrentInv, Saving, Effective
  <2>2. QED
    BY <1>6, <2>1, CurrentQuiet DEF Inspect, Saving, TypeOK
<1>7. CASE InspectBackup(c)
  <2>1. payload[c] \in current
    BY <1>7 DEF InspectBackup, CurrentInv, Saving
  <2>2. QED
    BY <1>7, <2>1, CurrentQuiet DEF InspectBackup, Saving, TypeOK
<1>8. QED
  BY <1>1, <1>2, <1>3, <1>4, <1>5, <1>6, <1>7

\* A file gets a version that is current, and nothing that was current is given up.
LEMMA CurrentWrite ==
  ASSUME TypeOK, CurrentInv, NEW c \in Clients, ClientStep(c),
         NEW f \in Files, NEW v \in SUBSET Batches, v # {}, ReplaceFile(f, v),
         f = "primary" \/ BackupMatters => v \in current,
         current \subseteq current', pc'[c] \in {"idle", "inspect", "replace"},
         Saving(c)' => payload'[c] \in current'
  PROVE  CurrentInv'
<1>1. Valid(f)' /\ file'[f] = v /\ \A g \in Files \ {f} : file'[g] = file[g]
  BY ReplacedFile
<1>2. \A d \in Clients \ {c} : /\ pc'[d] = pc[d] /\ held'[d] = held[d]
                              /\ payload'[d] = payload[d]
  BY OwnStep
<1>3. BackupMatters' => BackupMatters
  BY <1>1, <1>2 DEF BackupMatters, Valid
<1>4. Effective' \in current'
  <2>1. CASE f = "primary"
    BY <1>1, <2>1 DEF Effective
  <2>2. CASE f = "backup" /\ Valid("primary")
    BY <1>1, <2>2 DEF CurrentInv, Effective, Valid
  <2>3. CASE f = "backup" /\ ~Valid("primary")
    BY <1>1, <2>3 DEF BackupMatters, Effective, Valid
  <2>4. QED
    BY <2>1, <2>2, <2>3
<1>5. BackupMatters' => (Valid("backup")' => file'["backup"] \in current')
  <2>1. CASE f = "primary"
    BY <1>1, <1>3, <2>1 DEF CurrentInv, Valid
  <2>2. CASE f = "backup"
    BY <1>1, <1>3, <2>2
  <2>3. QED
    BY <2>1, <2>2
<1>6. QED
  BY <1>2, <1>3, <1>4, <1>5 DEF CurrentInv, Saving

LEMMA CurrentWrites ==
  ASSUME TypeOK, CurrentInv, NEW c \in Clients, Restore(c) \/ Shelve(c) \/ Replace(c)
  PROVE  CurrentInv'
<1> ClientStep(c) /\ pc[c] \in Steps
  BY DEF ClientStep, TypeOK
\* A write that fails may have replaced its file.
<1>1. ASSUME NEW f \in Files, NEW v \in SUBSET Batches, v # {}, WriteFails(c, f, v),
             f = "primary" \/ BackupMatters => v \in current
      PROVE  CurrentInv'
  <2>1. pc'[c] = "idle" /\ ~Saving(c)' /\ current \subseteq current'
    BY <1>1 DEF WriteFails, Raise, Goto, Saving, TypeOK
  <2>2. CASE UNCHANGED file
    BY <2>1, <2>2, CurrentQuiet
  <2>3. CASE ReplaceFile(f, v)
    BY <1>1, <2>1, <2>3, CurrentWrite
  <2>4. QED
    BY <1>1, <2>2, <2>3 DEF WriteFails
<1>2. CASE Restore(c)
  <2>1. held[c] \in SUBSET Batches /\ held[c] # {} /\ held[c] \in current
    BY <1>2 DEF Restore, TypeOK, CurrentInv
  <2>2. CASE ReplaceFile("primary", held[c]) /\ Loaded(c, held[c])
    BY <2>1, <2>2, LoadedCurrent, CurrentWrite
  <2>3. QED
    BY <1>1, <1>2, <2>1, <2>2 DEF Restore
<1>3. CASE Shelve(c)
  <2>1. /\ held[c] \in SUBSET Batches /\ held[c] # {} /\ payload[c] \in current
        /\ BackupMatters => held[c] \in current
    BY <1>3 DEF Shelve, TypeOK, CurrentInv, Saving
  <2>2. CASE /\ ReplaceFile("backup", held[c]) /\ Goto(c, "replace")
             /\ UNCHANGED <<payload, current>>
    <3>1. pc'[c] = "replace" /\ payload'[c] \in current' /\ current \subseteq current'
      BY <2>1, <2>2 DEF Goto, TypeOK
    <3>2. QED
      BY <2>1, <2>2, <3>1, CurrentWrite
  <2>3. QED
    BY <1>1, <1>3, <2>1, <2>2 DEF Shelve
<1>4. CASE Replace(c)
  <2>1. /\ payload[c] \in SUBSET Batches /\ payload[c] # {} /\ payload[c] \in current
        /\ Saving(c)
    BY <1>4 DEF Replace, TypeOK, CurrentInv, Saving
  <2>2. CASE /\ ReplaceFile("primary", payload[c]) /\ Goto(c, "idle")
             /\ Supersede /\ UNCHANGED <<held, payload>>
    <3>1. pc'[c] = "idle" /\ ~Saving(c)'
      BY <2>2 DEF Goto, TypeOK, Saving
    <3>2. CASE \E d \in Clients : Recovering(d)
      <4>1. current' = current
        BY <2>2, <3>2 DEF Supersede
      <4>2. QED
        BY <2>1, <2>2, <3>1, <4>1, CurrentWrite
    <3>3. CASE ~\E d \in Clients : Recovering(d)
      <4>1. \A d \in Clients : Saving(d) => payload[d] \in current'
        BY <2>2, <3>3 DEF Supersede
      <4>2. Valid("primary")' /\ Effective' = payload[c]
        BY <2>1, <2>2, ReplacedFile DEF Effective
      <4>3. \A d \in Clients : pc'[d] \notin {"load-backup", "restore"}
        BY <3>1, <3>3, OwnStep DEF Recovering
      <4>4. \A d \in Clients : Saving(d)' => Saving(d)
        BY <3>1, OwnStep DEF Saving
      <4>5. QED
        BY <2>1, <2>2, <4>1, <4>2, <4>3, <4>4 DEF CurrentInv, BackupMatters
    <3>4. QED
      BY <3>2, <3>3
  <2>3. QED
    BY <1>1, <1>4, <2>1, <2>2 DEF Replace
<1>5. QED
  BY <1>2, <1>3, <1>4

LEMMA CurrentNext == TypeOK /\ CurrentInv /\ [Next]_vars => CurrentInv'
<1> SUFFICES ASSUME TypeOK, CurrentInv, [Next]_vars PROVE CurrentInv'
  OBVIOUS
<1>1. ASSUME NEW c \in Clients, ClientStep(c) PROVE CurrentInv'
  BY <1>1, CurrentReads, CurrentWrites DEF ClientStep
<1>2. CASE Crash
  BY <1>2 DEF Crash, CurrentInv, BackupMatters, Saving, Effective, Valid
<1>3. ASSUME NEW f \in Files, Damage(f) PROVE CurrentInv'
  <2>1. \A c \in Clients : pc'[c] = "idle"
    BY <1>3 DEF Damage, clientVars
  <2>2. Effective' \in current' /\ (~Valid("primary")' /\ Valid("backup")' => file'["backup"] \in current')
    BY <1>3 DEF Damage, Effective
  <2>3. QED
    BY <2>1, <2>2 DEF CurrentInv, BackupMatters, Saving
<1>4. CASE UNCHANGED vars
  BY <1>4 DEF vars, clientVars, CurrentInv, BackupMatters, Saving, Effective, Valid
<1>5. QED
  BY <1>1, <1>2, <1>3, <1>4 DEF Next

\* For any number of threads on one key: what a call returns is the last version
\* acknowledged, one a save offered since, or what a load that was recovering when
\* that save returned has restored; nothing older, and nothing that was lost.
THEOREM AnswersCurrent == Spec => AnswersAreCurrent
<1>1. TypeOK /\ CurrentInv /\ [Next]_vars =>
        [\A c \in Clients : Answered(c) => answer'[c] \in {Error} \cup current']_vars
  <2> SUFFICES ASSUME TypeOK, CurrentInv, [Next]_vars, NEW c \in Clients, Answered(c)
               PROVE  answer'[c] \in {Error} \cup current'
    OBVIOUS
  <2>1. ClientStep(c)
    <3>1. PICK d \in Clients : ClientStep(d)
      BY DEF Answered, Next, Crash, Damage, clientVars, vars
    <3>2. QED
      BY <3>1, OwnStep DEF Answered
  <2>2. CASE LoadPrimary(c)
    <3>1. CASE Valid("primary")
      BY <2>2, <3>1, LoadedCurrent DEF LoadPrimary, CurrentInv, Effective
    <3>2. CASE ~Valid("primary")
      BY <2>2, <3>2 DEF LoadPrimary, Answered
    <3>3. QED
      BY <3>1, <3>2
  <2>3. CASE LoadAbsent(c)
    <3>1. CASE \A f \in Files : file[f] = Missing
      BY <2>3, <3>1, LoadedCurrent DEF LoadAbsent, CurrentInv, Effective, Valid
    <3>2. CASE ~(\A f \in Files : file[f] = Missing)
      BY <2>3, <3>2 DEF LoadAbsent, Raise, TypeOK
    <3>3. QED
      BY <3>1, <3>2
  <2>4. CASE Restore(c)
    <3>1. CASE WriteFails(c, "primary", held[c])
      BY <3>1 DEF WriteFails, Raise, TypeOK
    <3>2. CASE Loaded(c, held[c])
      BY <2>4, <3>2, LoadedCurrent DEF Restore, CurrentInv
    <3>3. QED
      BY <2>4, <3>1, <3>2 DEF Restore
  <2>5. CASE Replace(c)
    <3>1. CASE WriteFails(c, "primary", payload[c])
      BY <3>1 DEF WriteFails, Raise, TypeOK
    <3>2. CASE Supersede /\ answer' = [answer EXCEPT ![c] = payload[c]]
      <4>1. Saving(c) /\ payload[c] \in current
        BY <2>5 DEF Replace, Saving, CurrentInv
      <4>2. payload[c] \in current'
        BY <3>2, <4>1 DEF Supersede
      <4>3. QED
        BY <3>2, <4>2 DEF TypeOK
    <3>3. QED
      BY <2>5, <3>1, <3>2 DEF Replace
  <2>6. CASE Shelve(c) \/ ReadFails(c)
    BY <2>6 DEF Shelve, ReadFails, WriteFails, Raise, Answered, TypeOK
  <2>7. CASE BeginLoad(c) \/ LoadBackup(c) \/ Inspect(c) \/ InspectBackup(c)
             \/ \E b \in Batches : BeginSave(c, b)
    BY <2>7 DEF BeginLoad, LoadBackup, Inspect, InspectBackup, BeginSave, Answered, TypeOK
  <2>8. QED
    BY <2>1, <2>2, <2>3, <2>4, <2>5, <2>6, <2>7 DEF ClientStep
<1>2. Spec => []CurrentInv
  BY CurrentInit, CurrentNext, StoreTypeCorrect, PTL DEF Spec
<1>3. QED
  BY <1>1, <1>2, StoreTypeCorrect, PTL DEF Spec, AnswersAreCurrent

-----------------------------------------------------------------------------
(***************************************************************************)
(* One client: what it has read still describes the files when it writes.  *)
(***************************************************************************)
OneClient == \A c, d \in Clients : c = d

Extends(c) ==
  /\ payload[c] = Merged(IF Effective = Lost THEN {} ELSE Effective, batch[c])
  /\ Merges => Effective # Lost

\* Conditioned on the step a client is at, the content it read is current.
ReadIsCurrent(c) ==
  /\ pc[c] = "load-backup" => ~Valid("primary")
  /\ pc[c] = "load-absent" => ~Valid("primary") /\ ~Valid("backup")
  /\ pc[c] = "restore" =>
       ~Valid("primary") /\ Valid("backup") /\ held[c] = file["backup"]
  /\ pc[c] \in {"inspect", "inspect-backup", "shelve"} => Extends(c)
  /\ pc[c] = "inspect-backup" => ~Valid("primary")
  /\ pc[c] = "shelve" =>
       IF Valid("primary") THEN held[c] = file["primary"]
       ELSE ~Valid("backup") /\ held[c] = payload[c]
  /\ pc[c] = "replace" =>
       /\ Valid("backup") /\ file["backup"] = Effective
       /\ Extends(c) \/ payload[c] = Effective

SequentialInv == \A c \in Clients : ReadIsCurrent(c)

\* When the load of a save is over, the new version extends what the files hold.
LEMMA LoadedExtends ==
  ASSUME TypeOK, NEW c \in Clients, pc[c] \in Steps, Loaded(c, Effective'),
         Effective' \in SUBSET Batches, UNCHANGED batch
  PROVE  ReadIsCurrent(c)'
<1>1. Effective' # Lost
  BY StoreAssumption
<1>2. CASE batch[c] = NoBatch
  BY <1>2 DEF Loaded, Goto, ReadIsCurrent, TypeOK
<1>3. CASE batch[c] # NoBatch
  BY <1>1, <1>3 DEF Loaded, Offer, Goto, ReadIsCurrent, Extends, Merged, TypeOK
<1>4. QED
  BY <1>2, <1>3

LEMMA SequentialInit == Init => SequentialInv
BY DEF Init, SequentialInv, ReadIsCurrent

LEMMA SequentialLoad ==
  ASSUME TypeOK, NEW c \in Clients, ReadIsCurrent(c),
         BeginLoad(c) \/ LoadPrimary(c) \/ LoadBackup(c) \/ LoadAbsent(c) \/ Restore(c)
  PROVE  ReadIsCurrent(c)'
<1> pc[c] \in Steps
  BY DEF TypeOK
<1>1. CASE BeginLoad(c)
  BY <1>1 DEF BeginLoad, Goto, ReadIsCurrent, TypeOK
<1>2. CASE LoadPrimary(c)
  <2>1. CASE Valid("primary")
    <3>1. Effective' = file["primary"] /\ file["primary"] \in SUBSET Batches
      BY <1>2, <2>1, ValidContent DEF LoadPrimary, Effective, Valid
    <3>2. QED
      BY <1>2, <2>1, <3>1, LoadedExtends DEF LoadPrimary
  <2>2. CASE ~Valid("primary")
    BY <1>2, <2>2 DEF LoadPrimary, Goto, ReadIsCurrent, Valid, TypeOK
  <2>3. QED
    BY <2>1, <2>2
<1>3. CASE LoadBackup(c)
  BY <1>3 DEF LoadBackup, Goto, ReadIsCurrent, Valid, TypeOK
<1>4. CASE LoadAbsent(c)
  <2>1. CASE \A f \in Files : file[f] = Missing
    <3>1. Effective' = {}
      BY <1>4, <2>1 DEF LoadAbsent, Effective, Valid
    <3>2. QED
      BY <1>4, <2>1, <3>1, LoadedExtends DEF LoadAbsent
  <2>2. CASE ~(\A f \in Files : file[f] = Missing)
    BY <1>4, <2>2 DEF LoadAbsent, Raise, Goto, ReadIsCurrent, TypeOK
  <2>3. QED
    BY <2>1, <2>2
<1>5. CASE Restore(c)
  <2>1. CASE WriteFails(c, "primary", held[c])
    BY <2>1 DEF WriteFails, Raise, Goto, ReadIsCurrent, TypeOK
  <2>2. CASE ReplaceFile("primary", held[c]) /\ Loaded(c, held[c]) /\ UNCHANGED batch
    <3>1. held[c] \in SUBSET Batches /\ held[c] # {}
      BY <1>5 DEF Restore, TypeOK
    <3>2. Effective' = held[c]
      BY <2>2, <3>1, ReplacedFile DEF Effective
    <3>3. QED
      BY <2>2, <3>1, <3>2, LoadedExtends
  <2>3. QED
    BY <1>5, <2>1, <2>2 DEF Restore
<1>6. QED
  BY <1>1, <1>2, <1>3, <1>4, <1>5

LEMMA SequentialSave ==
  ASSUME TypeOK, NEW c \in Clients, ReadIsCurrent(c),
         \/ \E b \in Batches : BeginSave(c, b)
         \/ Inspect(c) \/ InspectBackup(c) \/ Shelve(c) \/ Replace(c) \/ ReadFails(c)
  PROVE  ReadIsCurrent(c)'
<1>1. ASSUME NEW b \in Batches, BeginSave(c, b) PROVE ReadIsCurrent(c)'
  <2>1. CASE Merges
    BY <1>1, <2>1 DEF BeginSave, Goto, ReadIsCurrent, TypeOK
  <2>2. CASE ~Merges
    BY <1>1, <2>2 DEF BeginSave, Offer, Goto, ReadIsCurrent, Extends, Merged, TypeOK
  <2>3. QED
    BY <2>1, <2>2
<1>2. CASE Inspect(c)
  <2>1. UNCHANGED <<file, batch, payload>>
    BY <1>2 DEF Inspect
  <2>2. Extends(c)'
    BY <1>2, <2>1 DEF Inspect, ReadIsCurrent, Extends, Effective, Valid
  <2>3. CASE Valid("primary")
    BY <1>2, <2>1, <2>2, <2>3 DEF Inspect, Goto, ReadIsCurrent, Valid, TypeOK
  <2>4. CASE ~Valid("primary")
    BY <1>2, <2>1, <2>2, <2>4 DEF Inspect, Goto, ReadIsCurrent, Valid, TypeOK
  <2>5. QED
    BY <2>3, <2>4
<1>3. CASE InspectBackup(c)
  <2>1. UNCHANGED <<file, batch, payload>> /\ ~Valid("primary")
    BY <1>3 DEF InspectBackup, ReadIsCurrent
  <2>2. Extends(c)'
    BY <1>3, <2>1 DEF InspectBackup, ReadIsCurrent, Extends, Effective, Valid
  <2>3. CASE Valid("backup")
    <3>1. file'["backup"] = Effective'
      BY <2>1, <2>3 DEF Effective, Valid
    <3>2. QED
      BY <1>3, <2>1, <2>2, <2>3, <3>1 DEF InspectBackup, Goto, ReadIsCurrent, Valid, TypeOK
  <2>4. CASE ~Valid("backup")
    BY <1>3, <2>1, <2>2, <2>4 DEF InspectBackup, Goto, ReadIsCurrent, Valid, TypeOK
  <2>5. QED
    BY <2>3, <2>4
<1>4. CASE Shelve(c)
  <2>1. CASE WriteFails(c, "backup", held[c])
    BY <2>1 DEF WriteFails, Raise, Goto, ReadIsCurrent, TypeOK
  <2>2. CASE /\ ReplaceFile("backup", held[c]) /\ Goto(c, "replace")
             /\ UNCHANGED <<batch, payload>>
    <3>1. held[c] \in SUBSET Batches /\ held[c] # {} /\ pc[c] = "shelve"
      BY <1>4 DEF Shelve, TypeOK
    <3>2. Valid("backup")' /\ file'["backup"] = held[c] /\ file'["primary"] = file["primary"]
      BY <2>2, <3>1, ReplacedFile
    <3>3. CASE Valid("primary")
      <4>1. Effective' = Effective /\ file'["backup"] = Effective'
        BY <3>1, <3>2, <3>3 DEF ReadIsCurrent, Effective, Valid
      <4>2. Extends(c)'
        BY <2>2, <3>1, <4>1 DEF ReadIsCurrent, Extends
      <4>3. QED
        BY <2>2, <3>2, <4>1, <4>2 DEF Goto, ReadIsCurrent, TypeOK
    <3>4. CASE ~Valid("primary")
      <4>1. Effective' = payload'[c] /\ file'["backup"] = Effective'
        BY <2>2, <3>1, <3>2, <3>4 DEF ReadIsCurrent, Effective, Valid
      <4>2. QED
        BY <2>2, <3>2, <4>1 DEF Goto, ReadIsCurrent, TypeOK
    <3>5. QED
      BY <3>3, <3>4
  <2>3. QED
    BY <1>4, <2>1, <2>2 DEF Shelve
<1>5. CASE Replace(c) \/ ReadFails(c)
  <2>1. pc' = [pc EXCEPT ![c] = "idle"]
    BY <1>5 DEF Replace, ReadFails, WriteFails, Raise, Goto
  <2>2. QED
    BY <2>1 DEF ReadIsCurrent, TypeOK
<1>6. QED
  BY <1>1, <1>2, <1>3, <1>4, <1>5

LEMMA SequentialNext ==
  ASSUME OneClient, TypeOK, SequentialInv, [Next]_vars PROVE SequentialInv'
<1> SUFFICES ASSUME NEW c \in Clients PROVE ReadIsCurrent(c)'
  BY DEF SequentialInv
<1>1. ReadIsCurrent(c)
  BY DEF SequentialInv
<1>2. ASSUME NEW d \in Clients, ClientStep(d) PROVE ReadIsCurrent(c)'
  BY <1>1, <1>2, SequentialLoad, SequentialSave DEF OneClient, ClientStep
<1>3. CASE Crash \/ \E f \in Files : Damage(f)
  BY <1>3 DEF Crash, Damage, clientVars, ReadIsCurrent
<1>4. CASE UNCHANGED vars
  BY <1>1, <1>4 DEF vars, clientVars, ReadIsCurrent, Extends, Effective, Valid
<1>5. QED
  BY <1>2, <1>3, <1>4 DEF Next

-----------------------------------------------------------------------------
\* What was acknowledged is in the version the files hold, and in the version a
\* running save is about to store.
AckInv ==
  /\ IF Effective = Lost THEN acked = {} ELSE acked \subseteq Effective
  /\ \A c \in Clients : Saving(c) => acked \subseteq payload[c] /\ batch[c] \in payload[c]

\* The steps of one client that leave the files alone.
LEMMA AckQuiet ==
  ASSUME Merges, TypeOK, AckInv, UNCHANGED <<file, acked>>,
         \A d \in Clients :
           Saving(d)' => Saving(d) /\ payload'[d] = payload[d] /\ batch'[d] = batch[d]
  PROVE  AckInv'
BY DEF AckInv, Effective, Valid

LEMMA AckLoaded ==
  ASSUME Merges, OneClient, TypeOK, AckInv, NEW c \in Clients, Loaded(c, Effective'),
         ~Saving(c), Effective' \in SUBSET Batches, acked \subseteq Effective',
         UNCHANGED <<batch, acked>>
  PROVE  AckInv'
<1>1. Effective' # Lost
  BY StoreAssumption
<1>2. CASE batch[c] = NoBatch
  <2>1. pc'[c] = "idle"
    BY <1>2 DEF Loaded, Goto, TypeOK
  <2>2. QED
    BY <1>1, <2>1 DEF AckInv, Saving, OneClient
<1>3. CASE batch[c] # NoBatch
  <2>1. payload'[c] = Effective' \cup {batch[c]}
    BY <1>3 DEF Loaded, Offer, Merged, TypeOK
  <2>2. QED
    BY <1>1, <2>1 DEF AckInv, OneClient
<1>4. QED
  BY <1>2, <1>3

LEMMA AckClient ==
  ASSUME Merges, OneClient, TypeOK, SequentialInv, AckInv, NEW c \in Clients,
         ClientStep(c)
  PROVE  AckInv'
<1> ReadIsCurrent(c) /\ pc[c] \in Steps
  BY DEF SequentialInv, TypeOK
<1>1. CASE BeginLoad(c) \/ LoadBackup(c) \/ ReadFails(c) \/ \E b \in Batches : BeginSave(c, b)
  <2>1. UNCHANGED <<file, acked>> /\ pc'[c] \notin {"inspect", "inspect-backup", "shelve", "replace"}
    BY <1>1 DEF BeginLoad, LoadBackup, ReadFails, BeginSave, Raise, Goto, TypeOK
  <2>2. QED
    BY <2>1, AckQuiet DEF Saving, OneClient
<1>2. CASE Inspect(c) \/ InspectBackup(c)
  <2>1. UNCHANGED <<file, acked, payload, batch>> /\ Saving(c)
    BY <1>2 DEF Inspect, InspectBackup, Saving
  <2>2. QED
    BY <2>1, AckQuiet DEF OneClient
<1>3. CASE LoadPrimary(c)
  <2>1. CASE Valid("primary")
    <3>1. Effective' = file["primary"] /\ Effective = file["primary"]
          /\ file["primary"] \in SUBSET Batches
      BY <1>3, <2>1, ValidContent DEF LoadPrimary, Effective, Valid
    <3>2. acked \subseteq file["primary"]
      BY <3>1, StoreAssumption DEF AckInv
    <3>3. QED
      BY <1>3, <2>1, <3>1, <3>2, AckLoaded DEF LoadPrimary, Saving
  <2>2. CASE ~Valid("primary")
    <3>1. UNCHANGED <<file, acked>> /\ pc'[c] = "load-backup"
      BY <1>3, <2>2 DEF LoadPrimary, Goto, TypeOK
    <3>2. QED
      BY <3>1, AckQuiet DEF Saving, OneClient
  <2>3. QED
    BY <2>1, <2>2
<1>4. CASE LoadAbsent(c)
  <2>1. CASE \A f \in Files : file[f] = Missing
    <3>1. Effective' = {} /\ Effective = {}
      BY <1>4, <2>1 DEF LoadAbsent, Effective, Valid
    <3>2. acked \subseteq {}
      BY <3>1, StoreAssumption DEF AckInv
    <3>3. QED
      BY <1>4, <2>1, <3>1, <3>2, AckLoaded DEF LoadAbsent, Saving
  <2>2. CASE ~(\A f \in Files : file[f] = Missing)
    <3>1. UNCHANGED <<file, acked>> /\ pc'[c] = "idle"
      BY <1>4, <2>2 DEF LoadAbsent, Raise, Goto, TypeOK
    <3>2. QED
      BY <3>1, AckQuiet DEF Saving, OneClient
  <2>3. QED
    BY <2>1, <2>2
<1>5. CASE Restore(c)
  <2>1. /\ held[c] = Effective /\ held[c] \in SUBSET Batches /\ held[c] # {}
        /\ acked \subseteq held[c] /\ ~Saving(c)
    <3>1. held[c] = Effective /\ held[c] \in SUBSET Batches /\ held[c] # {} /\ ~Saving(c)
      BY <1>5 DEF Restore, ReadIsCurrent, Effective, TypeOK, Saving
    <3>2. QED
      BY <3>1, StoreAssumption DEF AckInv
  <2>2. CASE WriteFails(c, "primary", held[c])
    <3>1. Effective' = Effective /\ acked' = acked /\ pc'[c] = "idle"
      BY <1>5, <2>1, <2>2, ReplacedFile
      DEF WriteFails, Raise, Goto, Effective, Valid, TypeOK
    <3>2. QED
      BY <3>1 DEF AckInv, Saving, OneClient
  <2>3. CASE /\ ReplaceFile("primary", held[c]) /\ Loaded(c, held[c])
             /\ UNCHANGED <<batch, acked>>
    <3>1. Effective' = held[c]
      BY <2>1, <2>3, ReplacedFile DEF Effective
    <3>2. QED
      BY <2>1, <2>3, <3>1, AckLoaded
  <2>4. QED
    BY <1>5, <2>2, <2>3 DEF Restore
<1>6. CASE Shelve(c)
  <2>1. /\ held[c] \in SUBSET Batches /\ held[c] # {} /\ pc[c] = "shelve"
        /\ Saving(c) /\ acked \subseteq payload[c] /\ payload[c] \in SUBSET Batches
    BY <1>6 DEF Shelve, TypeOK, Saving, AckInv
  <2>2. Effective' = Effective \/ Effective' = payload[c]
    BY <1>6, <2>1, ReplacedFile DEF Shelve, WriteFails, ReadIsCurrent, Effective, Valid
  <2>3. UNCHANGED <<acked, payload, batch>>
    BY <1>6 DEF Shelve, WriteFails
  <2>4. payload[c] # Lost
    BY <2>1, StoreAssumption
  <2>5. QED
    BY <2>1, <2>2, <2>3, <2>4 DEF AckInv, OneClient
<1>7. CASE Replace(c)
  <2>1. /\ payload[c] \in SUBSET Batches /\ payload[c] # {} /\ payload[c] # Lost
        /\ acked \subseteq payload[c] /\ batch[c] \in payload[c]
    BY <1>7, StoreAssumption DEF Replace, TypeOK, Saving, AckInv
  <2>2. /\ Effective' = payload[c] \/ (Effective' = Effective /\ acked' = acked)
        /\ acked' = acked \/ acked' = acked \cup {batch[c]}
    BY <1>7, <2>1, ReplacedFile DEF Replace, WriteFails, Effective, Valid
  <2>3. pc'[c] = "idle"
    BY <1>7 DEF Replace, WriteFails, Raise, Goto, TypeOK
  <2>4. QED
    BY <2>1, <2>2, <2>3 DEF AckInv, Saving, OneClient
<1>8. QED
  BY <1>1, <1>2, <1>3, <1>4, <1>5, <1>6, <1>7 DEF ClientStep

LEMMA AckNext ==
  ASSUME Merges, OneClient, TypeOK, SequentialInv, AckInv, [Next]_vars PROVE AckInv'
<1>1. CASE Crash
  BY <1>1 DEF Crash, AckInv, Saving, Effective, Valid
<1>2. ASSUME NEW f \in Files, Damage(f) PROVE AckInv'
  <2>1. \A c \in Clients : ~Saving(c)'
    BY <1>2 DEF Damage, clientVars, Saving
  <2>2. IF Effective' = Lost THEN acked' = {} ELSE acked' \subseteq Effective'
    <3>1. /\ Valid(f) /\ file'[f] = Damaged
          /\ \A g \in Files \ {f} : file'[g] = file[g]
      BY <1>2 DEF Damage, ReplaceFile, TypeOK
    <3>2. CASE f = "backup" /\ Valid("primary")
      BY <1>2, <3>1, <3>2, NotLost DEF Damage, AckInv, Effective, Valid
    <3>3. CASE f = "primary" /\ Valid("backup")
      <4>1. acked' = acked \cap file["backup"] /\ Effective' = file["backup"]
        BY <1>2, <3>1, <3>3 DEF Damage, Effective, Valid
      <4>2. file["backup"] # Lost
        BY <3>3, ValidContent, StoreAssumption
      <4>3. QED
        BY <4>1, <4>2
    <3>4. CASE ~(f = "backup" /\ Valid("primary")) /\ ~(f = "primary" /\ Valid("backup"))
      BY <1>2, <3>4 DEF Damage
    <3>5. QED
      BY <3>2, <3>3, <3>4
  <2>3. QED
    BY <2>1, <2>2 DEF AckInv
<1>3. CASE UNCHANGED vars
  BY <1>3 DEF vars, clientVars, AckInv, Saving, Effective, Valid
<1>4. QED
  BY <1>1, <1>2, <1>3, AckClient DEF Next

\* A history written by one thread keeps what its saves acknowledged: no failed
\* save, crash or recovery drops it as long as a file that contains it survives.
THEOREM AcknowledgedStays ==
  ASSUME OneClient, Merges PROVE Spec => []AcknowledgedIsStored
<1>1. Init => AckInv
  BY DEF Init, AckInv, Saving
<1>2. Init => SequentialInv
  BY SequentialInit
<1>3. TypeOK /\ SequentialInv /\ AckInv /\ [Next]_vars => SequentialInv' /\ AckInv'
  BY SequentialNext, AckNext
<1>4. Spec => [](SequentialInv /\ AckInv)
  BY <1>1, <1>2, <1>3, StoreTypeCorrect, PTL DEF Spec
<1>5. AckInv => AcknowledgedIsStored
  BY DEF AckInv, AcknowledgedIsStored
<1>6. QED
  BY <1>4, <1>5, PTL

-----------------------------------------------------------------------------
(***************************************************************************)
(* With one client every step maps to a step of the abstract record: the   *)
(* first file that gets a new version commits it, writing the backup       *)
(* shelves, damage falls back or loses, and everything else stutters.      *)
(***************************************************************************)
Backup == IF Valid("backup") THEN file["backup"] ELSE Effective

LEMMA MapsClient ==
  ASSUME OneClient, TypeOK, SequentialInv, NEW c \in Clients, ClientStep(c)
  PROVE  Record!Next \/ UNCHANGED <<Effective, Backup>>
<1> ReadIsCurrent(c) /\ pc[c] \in Steps
  BY DEF SequentialInv, TypeOK
<1> USE DEF Backup
<1>1. CASE UNCHANGED file
  BY <1>1 DEF Effective, Valid
<1>2. CASE Restore(c) /\ ~UNCHANGED file
  <2>1. held[c] \in SUBSET Batches /\ held[c] # {} /\ ~Valid("primary") /\ Valid("backup")
        /\ held[c] = file["backup"]
    BY <1>2 DEF Restore, ReadIsCurrent, TypeOK
  <2>2. ReplaceFile("primary", held[c])
    BY <1>2 DEF Restore, WriteFails
  <2>3. Effective' = held[c] /\ Effective = held[c] /\ UNCHANGED Backup
    BY <2>1, <2>2, ReplacedFile DEF Effective, Valid
  <2>4. QED
    BY <2>3
<1>3. CASE Shelve(c) /\ ~UNCHANGED file
  <2>1. /\ held[c] \in SUBSET Batches /\ held[c] # {} /\ pc[c] = "shelve"
        /\ ReplaceFile("backup", held[c]) /\ batch[c] \in Batches /\ Extends(c)
    BY <1>3 DEF Shelve, WriteFails, ReadIsCurrent, TypeOK, Saving
  <2>2. Valid("backup")' /\ file'["backup"] = held[c] /\ file'["primary"] = file["primary"]
    BY <2>1, ReplacedFile
  <2>3. CASE Valid("primary")
    <3>1. Effective' = Effective /\ Backup' = Effective
      BY <2>1, <2>2, <2>3 DEF ReadIsCurrent, Effective, Valid
    <3>2. Record!Shelve
      BY <3>1 DEF Record!Shelve
    <3>3. QED
      BY <3>2 DEF Record!Next
  <2>4. CASE ~Valid("primary")
    <3>1. Effective' = payload[c] /\ Backup' = payload[c] /\ ~Valid("backup")
      BY <2>1, <2>2, <2>4 DEF ReadIsCurrent, Effective, Valid
    <3>2. Effective \in {{}, Lost}
      BY <2>4, <3>1 DEF Effective
    <3>3. Record!Commit(batch[c])
      BY <2>1, <3>1, <3>2 DEF Record!Commit, Record!Merged, Extends, Merged
    <3>4. QED
      BY <2>1, <3>3 DEF Record!Next
  <2>5. QED
    BY <2>3, <2>4
<1>4. CASE Replace(c) /\ ~UNCHANGED file
  <2>1. /\ payload[c] \in SUBSET Batches /\ payload[c] # {} /\ batch[c] \in Batches
        /\ ReplaceFile("primary", payload[c])
        /\ Valid("backup") /\ file["backup"] = Effective
        /\ Extends(c) \/ payload[c] = Effective
    BY <1>4 DEF Replace, WriteFails, ReadIsCurrent, TypeOK, Saving
  <2>2. Effective' = payload[c] /\ Backup = Effective /\ Backup' = Effective
    BY <2>1, ReplacedFile DEF Effective, Valid
  <2>3. Effective \notin {{}, Lost}
    BY <2>1, ValidContent, StoreAssumption
  <2>4. CASE Extends(c)
    <3>1. Record!Commit(batch[c])
      BY <2>2, <2>3, <2>4 DEF Record!Commit, Record!Merged, Extends, Merged
    <3>2. QED
      BY <2>1, <3>1 DEF Record!Next
  <2>5. CASE payload[c] = Effective
    BY <2>2, <2>5
  <2>6. QED
    BY <2>1, <2>4, <2>5
<1>5. QED
  BY <1>1, <1>2, <1>3, <1>4
  DEF ClientStep, BeginLoad, LoadPrimary, LoadBackup, LoadAbsent, BeginSave, Inspect,
      InspectBackup, ReadFails

LEMMA MapsDamage ==
  ASSUME TypeOK, NEW f \in Files, Damage(f)
  PROVE  Record!Next \/ UNCHANGED <<Effective, Backup>>
<1> USE DEF Backup
<1>1. /\ Valid(f) /\ ~Valid(f)' /\ file'[f] = Damaged /\ Damaged # Missing
      /\ \A g \in Files \ {f} : file'[g] = file[g]
  BY StoreAssumption DEF Damage, ReplaceFile, TypeOK, Valid
<1>2. CASE Valid("primary")' \/ Valid("backup")'
  <2>1. CASE f = "backup"
    <3>1. Effective' = Effective /\ Backup' = Effective
      BY <1>1, <1>2, <2>1 DEF Effective, Valid
    <3>2. QED
      BY <3>1 DEF Record!Next, Record!Shelve
  <2>2. CASE f = "primary"
    <3>1. Effective' = file["backup"] /\ Backup = file["backup"] /\ Backup' = Backup
      BY <1>1, <1>2, <2>2 DEF Effective, Valid
    <3>2. QED
      BY <3>1 DEF Record!Next, Record!Fall
  <2>3. QED
    BY <2>1, <2>2
<1>3. CASE ~Valid("primary")' /\ ~Valid("backup")'
  <2>1. Effective' = Lost /\ Backup' = Lost
    BY <1>1, <1>3 DEF Effective, Valid
  <2>2. Effective = file[f] /\ Backup = Effective
    BY <1>1, <1>3 DEF Effective, Valid
  <2>3. Effective # {}
    BY <1>1, <2>2, ValidContent
  <2>4. QED
    BY <2>1, <2>2, <2>3 DEF Record!Next, Record!Lose
<1>4. QED
  BY <1>2, <1>3

\* The two files of a key that one thread uses implement the abstract record:
\* saves extend or replace it, damage only takes the newest version or, with both
\* files, everything, and no crash or failed write shows in between.
THEOREM StoreImplementsRecord ==
  ASSUME OneClient PROVE Spec => ImplementsRecord
<1>1. Init => Record!Init
  BY DEF Init, Record!Init, Effective, Valid
<1>2. TypeOK /\ SequentialInv /\ [Next]_vars =>
        [Record!Next]_<<Effective, IF Valid("backup") THEN file["backup"] ELSE Effective>>
  <2> SUFFICES ASSUME TypeOK, SequentialInv, [Next]_vars
               PROVE  Record!Next \/ UNCHANGED <<Effective, Backup>>
    BY DEF Backup
  <2>1. CASE UNCHANGED file
    BY <2>1 DEF Effective, Valid, Backup
  <2>2. ASSUME NEW c \in Clients, ClientStep(c)
        PROVE  Record!Next \/ UNCHANGED <<Effective, Backup>>
    BY <2>2, MapsClient
  <2>3. ASSUME NEW f \in Files, Damage(f)
        PROVE  Record!Next \/ UNCHANGED <<Effective, Backup>>
    BY <2>3, MapsDamage
  <2>4. QED
    BY <2>1, <2>2, <2>3 DEF Next, Crash, vars
<1>3. TypeOK /\ SequentialInv /\ [Next]_vars => SequentialInv'
  BY SequentialNext
<1>4. Spec => []SequentialInv
  BY <1>3, SequentialInit, StoreTypeCorrect, PTL DEF Spec
<1>5. QED
  BY <1>1, <1>2, <1>4, StoreTypeCorrect, PTL DEF Spec, ImplementsRecord, Record!Spec
=============================================================================
