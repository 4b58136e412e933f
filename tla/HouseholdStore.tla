---------------------------- MODULE HouseholdStore ----------------------------
(***************************************************************************)
(* The append-friendly household-load history                              *)
(* (src/src/energy_optimizer/household_load_store.py): an NDJSON file of   *)
(* one hour per line that saves append to, compacted now and then, with a  *)
(* backup from the last compaction and a migration of older JSON files.    *)
(*                                                                         *)
(* A file is abstracted to what reading it depends on: the last value      *)
(* written for each hour, the number of lines, and whether the last line   *)
(* is cut off.  Values are named by the save that submitted them.  As in   *)
(* JsonStore nothing locks a key, and a step of a client is one read or    *)
(* one write.                                                              *)
(***************************************************************************)
EXTENDS Naturals, FiniteSets

CONSTANTS
  Clients,      \* threads that use the store
  MaxHour,      \* bound on the hours of the history
  MaxValues,    \* HOUSEHOLD_LOAD_MAX_VALUES
  Threshold,    \* HOUSEHOLD_LOAD_COMPACTION_THRESHOLD
  MaxLength,    \* bound on the hours of one save, at most MaxValues
  MaxSaves,     \* bound on saves
  MaxDamage,    \* bound on damaged files
  Backfills,    \* saves may start before the history does
  LegacyFiles,  \* possible contents of *.json and *.json.bak at the start
  Missing, Damaged, Lost, NoBatch, Pending, Error

Hours == 0..MaxHour
Unavailable == 0        \* the value of an hour history_unavailable excludes
Values == {Unavailable} \cup 1..MaxSaves \cup {MaxSaves + 1, MaxSaves + 2}
Histories == UNION {[S -> Values] : S \in SUBSET Hours}
Batch == {b \in [first : Hours, last : Hours, value : 1..MaxSaves] :
            b.first <= b.last /\ b.last < b.first + MaxLength}
\* At least one line per hour.
Content == {x \in [data : Histories, lines : Nat, torn : BOOLEAN] :
              Cardinality(DOMAIN x.data) <= x.lines}

ASSUME HouseholdAssumption ==
  /\ {MaxHour, MaxValues, Threshold, MaxLength, MaxSaves, MaxDamage} \subseteq Nat
  /\ 0 < MaxLength /\ MaxLength <= MaxValues /\ MaxValues <= Threshold
  /\ Backfills \in BOOLEAN

ASSUME DistinctAssumption ==
  /\ \A x \in {Missing, Damaged} : x \notin Content
  /\ \A x \in {Lost, Pending, Error} : x \notin Histories
  /\ Missing # Damaged /\ Pending # Error /\ NoBatch \notin Batch

VARIABLES
  file,      \* *.ndjson ("primary") and *.ndjson.bak ("backup")
  legacy,    \* *.json and *.json.bak
  pc,        \* the next step of each client
  batch,     \* what the client saves, NoBatch when it only loads
  held,      \* the HouseholdLoadHistory the client loaded
  answer,    \* what the client's last call returned
  saves,     \* the number of saves so far
  allowed,   \* ghost: the values a load may return for each hour
  acked,     \* ghost: hours of saves that returned
  damage, wounds

clientVars == <<pc, batch, held, answer>>
ghosts == <<saves, allowed, acked, damage, wounds>>
vars == <<file, legacy, clientVars, ghosts>>

Files == {"primary", "backup"}
Steps == {"idle", "load-primary", "load-backup", "restore", "load-legacy",
          "migrate-backup", "migrate-primary", "unlink", "first-backup",
          "first-primary", "tidy-backup", "tidy-primary", "check-backup",
          "rebuild", "append", "compact-backup", "compact-primary"}

-----------------------------------------------------------------------------
(* household_load_records: hours, lines and merging. *)

\* The lines of f written after those of g: the last line of an hour counts.
Over(f, g) == [h \in DOMAIN f \cup DOMAIN g |-> IF h \in DOMAIN f THEN f[h] ELSE g[h]]

Contiguous(S) == \A g, h \in S : g..h \subseteq S

\* What an earlier version wrote: a contiguous history.
LegacyContents ==
  {Missing, Damaged} \cup {h \in Histories : DOMAIN h # {} /\ Contiguous(DOMAIN h)}
ASSUME LegacyAssumption == LegacyFiles \subseteq [Files -> LegacyContents]

\* The newest MaxValues hours.
Newest_OneMore(S) == {h \in S : Cardinality({g \in S : g > h}) <= MaxValues}
Newest(S) ==
  IF Cardinality(S) <= MaxValues THEN S
  ELSE {h \in S : Cardinality({g \in S : g > h}) < MaxValues}
Bounded(history) == [h \in Newest(DOMAIN history) |-> history[h]]

\* A file with one line per hour.
Encoded(history) ==
  [data |-> history, lines |-> Cardinality(DOMAIN history), torn |-> FALSE]

\* parse_household_history: a cut last line is ignored; what remains must hold a
\* record, and the retained hours must be contiguous.
Valid(content) ==
  /\ content \notin {Missing, Damaged}
  /\ DOMAIN content.data # {}
  /\ Contiguous(Newest(DOMAIN content.data))

Rows(b) == [h \in b.first..b.last |-> b.value]

\* bridge_household_load_gap: hours nobody can supply any more.
Gap(history, b) == {k \in Hours : k < b.first /\ \A h \in DOMAIN history : h < k}
Bridged(history, b) == Over(Rows(b), [k \in Gap(history, b) |-> Unavailable])

Merged_StoredWins(history, b) == Bounded(Over(history, Bridged(history, b)))
Merged(history, b) == Bounded(Over(Bridged(history, b), history))
Mergeable(history, b) == Contiguous(DOMAIN Merged(history, b))

-----------------------------------------------------------------------------
(* Steps of a call. *)

Goto(c, step) == pc' = [pc EXCEPT ![c] = step]

Raise(c) == Goto(c, "idle") /\ answer' = [answer EXCEPT ![c] = Error]

Return(c, history) == Goto(c, "idle") /\ answer' = [answer EXCEPT ![c] = history]

\* A save that returned: its hours have its values, unless a save still under
\* way covers them too.
InFlight(c) == {d \in Clients \ {c} : pc[d] # "idle" /\ batch[d] # NoBatch}
Acknowledge(c) ==
  /\ acked' = acked \cup DOMAIN Rows(batch[c])
  /\ allowed' =
       [h \in Hours |->
          IF h \in DOMAIN Rows(batch[c])
          THEN {batch[c].value} \cup {batch[d].value : d \in {e \in InFlight(c) :
                                         h \in DOMAIN Rows(batch[e])}}
          ELSE allowed[h]]
  /\ wounds' = 0
  /\ UNCHANGED <<saves, damage>>

\* _atomic_write, then the next step; or a failure before or after the replacement.
Writes(c, step, f, content, next) ==
  /\ pc[c] = step
  /\ \/ /\ file' = [file EXCEPT ![f] = content]
        /\ Goto(c, next)
        /\ UNCHANGED answer
     \/ /\ file' \in {file, [file EXCEPT ![f] = content]}
        /\ Raise(c)
  /\ UNCHANGED <<legacy, batch, held, ghosts>>

\* The history is loaded: answer, or go on with the save.
Loaded_NotTidied(c, content) ==
  LET history == Bounded(content.data) IN
  /\ held' = [held EXCEPT ![c] = [content EXCEPT !.data = history]]
  /\ IF batch[c] = NoBatch THEN Return(c, history)
     ELSE IF ~Mergeable(history, batch[c]) THEN Raise(c)
     ELSE Goto(c, "check-backup") /\ UNCHANGED answer
Loaded(c, content) ==
  LET history == Bounded(content.data) IN
  /\ held' = [held EXCEPT ![c] = [content EXCEPT !.data = history]]
  /\ IF batch[c] = NoBatch THEN Return(c, history)
     ELSE IF ~Mergeable(history, batch[c]) THEN Raise(c)
     ELSE /\ Goto(c, IF content.torn THEN "tidy-backup" ELSE "check-backup")
          /\ UNCHANGED answer

-----------------------------------------------------------------------------
(* load_history *)

BeginLoad(c) ==
  /\ pc[c] = "idle"
  /\ Goto(c, "load-primary")
  /\ batch' = [batch EXCEPT ![c] = NoBatch]
  /\ answer' = [answer EXCEPT ![c] = Pending]
  /\ UNCHANGED <<file, legacy, held, ghosts>>

LoadPrimary(c) ==
  /\ pc[c] = "load-primary"
  /\ IF Valid(file["primary"]) THEN Loaded(c, file["primary"])
     ELSE Goto(c, "load-backup") /\ UNCHANGED <<held, answer>>
  /\ UNCHANGED <<file, legacy, batch, ghosts>>

LoadBackup(c) ==
  /\ pc[c] = "load-backup"
  /\ IF Valid(file["backup"])
     THEN /\ held' = [held EXCEPT ![c] = file["backup"]]
          /\ Goto(c, "restore") /\ UNCHANGED answer
     ELSE IF file["primary"] = Missing /\ file["backup"] = Missing
     THEN Goto(c, "load-legacy") /\ UNCHANGED <<held, answer>>
     ELSE Raise(c) /\ UNCHANGED held
  /\ UNCHANGED <<file, legacy, batch, ghosts>>

Restore(c) ==
  /\ pc[c] = "restore"
  /\ LET restored == Encoded(Bounded(held[c].data)) IN
     \/ /\ file' = [file EXCEPT !["primary"] = restored]
        /\ Loaded(c, held[c])
     \/ /\ file' \in {file, [file EXCEPT !["primary"] = restored]}
        /\ Raise(c) /\ UNCHANGED held
  /\ UNCHANGED <<legacy, batch, ghosts>>

\* _migrate_legacy: the primary if it is valid, else the backup.
ValidLegacy(f) == legacy[f] \notin {Missing, Damaged}
LegacyCurrent == IF ValidLegacy("primary") THEN legacy["primary"] ELSE legacy["backup"]
LegacyBackup == IF ValidLegacy("backup") THEN legacy["backup"] ELSE LegacyCurrent

LoadLegacy(c) ==
  /\ pc[c] = "load-legacy"
  /\ IF \E f \in Files : ValidLegacy(f)
     THEN Goto(c, "migrate-backup") /\ UNCHANGED answer
     ELSE IF \E f \in Files : legacy[f] = Damaged THEN Raise(c)
     ELSE IF batch[c] = NoBatch THEN Return(c, [h \in {} |-> Unavailable])
     ELSE Goto(c, "first-backup") /\ UNCHANGED answer
  /\ held' = [held EXCEPT ![c] =
                IF \E f \in Files : ValidLegacy(f) THEN Encoded(Bounded(LegacyCurrent))
                ELSE Encoded([h \in {} |-> Unavailable])]
  /\ UNCHANGED <<file, legacy, batch, ghosts>>

MigrateBackup(c) ==
  Writes(c, "migrate-backup", "backup",
         Encoded(IF ValidLegacy("backup") THEN Bounded(LegacyBackup) ELSE held[c].data),
         "migrate-primary")
MigratePrimary(c) ==
  Writes(c, "migrate-primary", "primary", held[c], "unlink")

\* The two legacy files are unlinked one after the other: an error may come
\* before, between or after.
Unlink(c) ==
  /\ pc[c] = "unlink"
  /\ \/ legacy' = [f \in Files |-> Missing] /\ Loaded(c, held[c])
     \/ /\ legacy' \in {legacy, [legacy EXCEPT !["primary"] = Missing]}
        /\ UNCHANGED held /\ Raise(c)
  /\ UNCHANGED <<file, batch, ghosts>>

-----------------------------------------------------------------------------
(* save *)

\* A submitted value may be found from now on, whatever becomes of the save.
BeginSave(c, first, last) ==
  /\ pc[c] = "idle" /\ saves < MaxSaves
  /\ first <= last /\ last < first + MaxLength
  /\ saves' = saves + 1
  /\ LET b == [first |-> first, last |-> last, value |-> saves + 1] IN
     /\ batch' = [batch EXCEPT ![c] = b]
     /\ allowed' = [h \in Hours |-> IF h \in DOMAIN Rows(b)
                                    THEN allowed[h] \cup {b.value} ELSE allowed[h]]
  /\ Backfills \/ \A f \in Files :
       /\ Valid(file[f]) => \E h \in Newest(DOMAIN file[f].data) : h <= first
       /\ ValidLegacy(f) => \E h \in Newest(DOMAIN legacy[f]) : h <= first
  /\ answer' = [answer EXCEPT ![c] = Pending]
  /\ Goto(c, "load-primary")
  /\ UNCHANGED <<file, legacy, held, acked, damage, wounds>>

FirstBackup(c) ==
  Writes(c, "first-backup", "backup", Encoded(Rows(batch[c])), "first-primary")

FirstPrimary(c) ==
  /\ pc[c] = "first-primary"
  /\ \/ /\ file' = [file EXCEPT !["primary"] = Encoded(Rows(batch[c]))]
        /\ Return(c, Rows(batch[c])) /\ Acknowledge(c)
     \/ /\ file' \in {file, [file EXCEPT !["primary"] = Encoded(Rows(batch[c]))]}
        /\ Raise(c) /\ UNCHANGED ghosts
  /\ UNCHANGED <<legacy, batch, held>>

\* A cut last line is compacted away before anything is appended.
TidyBackup(c) ==
  Writes(c, "tidy-backup", "backup", Encoded(held[c].data), "tidy-primary")
TidyPrimary(c) ==
  /\ pc[c] = "tidy-primary"
  /\ \/ /\ file' = [file EXCEPT !["primary"] = Encoded(held[c].data)]
        /\ held' = [held EXCEPT ![c] = Encoded(held[c].data)]
        /\ Goto(c, "check-backup") /\ UNCHANGED answer
     \/ /\ file' \in {file, [file EXCEPT !["primary"] = Encoded(held[c].data)]}
        /\ Raise(c) /\ UNCHANGED held
  /\ UNCHANGED <<legacy, batch, ghosts>>

CheckBackup_Exists(c) ==
  /\ pc[c] = "check-backup"
  /\ Goto(c, IF file["backup"] # Missing THEN "append" ELSE "rebuild")
  /\ UNCHANGED <<file, legacy, batch, held, answer, ghosts>>
CheckBackup(c) ==
  /\ pc[c] = "check-backup"
  /\ Goto(c, IF Valid(file["backup"]) THEN "append" ELSE "rebuild")
  /\ UNCHANGED <<file, legacy, batch, held, answer, ghosts>>

Rebuild(c) == Writes(c, "rebuild", "backup", Encoded(held[c].data), "append")

\* The primary with some rows appended; a line appended after a cut one leaves a
\* malformed line in the middle.
Appended(rows, torn) ==
  IF file["primary"] = Missing
  THEN [data |-> rows, lines |-> Cardinality(DOMAIN rows), torn |-> torn]
  ELSE IF file["primary"] = Damaged \/ file["primary"].torn THEN Damaged
  ELSE [data |-> Over(rows, file["primary"].data),
        lines |-> file["primary"].lines + Cardinality(DOMAIN rows), torn |-> torn]

TooLong_AppendedOnly(c, rows) == Cardinality(DOMAIN rows) > Threshold
TooLong(c, rows) == held[c].lines + Cardinality(DOMAIN rows) > Threshold

Append(c) ==
  /\ pc[c] = "append"
  /\ LET rows == Bridged(held[c].data, batch[c]) IN
     /\ file' = [file EXCEPT !["primary"] = Appended(rows, FALSE)]
     /\ IF TooLong(c, rows)
        THEN Goto(c, "compact-backup") /\ UNCHANGED <<answer, ghosts>>
        ELSE Return(c, Merged(held[c].data, batch[c])) /\ Acknowledge(c)
  /\ UNCHANGED <<legacy, batch, held>>

\* An append that is cut off wrote the rows before some hour, and perhaps a part
\* of the next; the process dies (everyone) or the call raises.
Cut(c, hour, torn) ==
  /\ pc[c] = "append"
  /\ LET rows == Bridged(held[c].data, batch[c])
         written == {h \in DOMAIN rows : h < hour} IN
     /\ torn => written # DOMAIN rows
     /\ torn \/ written # {}
     /\ file' = [file EXCEPT !["primary"] =
                   Appended([h \in written |-> rows[h]], torn)]
  /\ \/ Raise(c)
     \/ pc' = [d \in Clients |-> "idle"] /\ UNCHANGED answer
  /\ UNCHANGED <<legacy, batch, held, ghosts>>

CompactBackup(c) ==
  Writes(c, "compact-backup", "backup", Encoded(held[c].data), "compact-primary")
CompactPrimary(c) ==
  /\ pc[c] = "compact-primary"
  /\ LET merged == Merged(held[c].data, batch[c]) IN
     \/ /\ file' = [file EXCEPT !["primary"] = Encoded(merged)]
        /\ Return(c, merged) /\ Acknowledge(c)
     \/ /\ file' \in {file, [file EXCEPT !["primary"] = Encoded(merged)]}
        /\ Raise(c) /\ UNCHANGED ghosts
  /\ UNCHANGED <<legacy, batch, held>>

-----------------------------------------------------------------------------
(* Failures. *)

\* Reading a file raises an OSError.
ReadFails(c) ==
  /\ pc[c] \in {"load-primary", "load-backup", "load-legacy", "check-backup"}
  /\ Raise(c)
  /\ UNCHANGED <<file, legacy, batch, held, ghosts>>

Crash ==
  /\ \E c \in Clients : pc[c] # "idle"
  /\ pc' = [c \in Clients |-> "idle"]
  /\ UNCHANGED <<file, legacy, batch, held, answer, ghosts>>

Damage(f) ==
  /\ damage < MaxDamage /\ damage' = damage + 1 /\ wounds' = wounds + 1
  /\ \A c \in Clients : pc[c] = "idle"
  /\ Valid(file[f])
  /\ file' = [file EXCEPT ![f] = Damaged]
  /\ UNCHANGED <<legacy, clientVars, saves, allowed, acked>>

-----------------------------------------------------------------------------
Init ==
  /\ file = [f \in Files |-> Missing]
  /\ legacy \in LegacyFiles
  /\ pc = [c \in Clients |-> "idle"]
  /\ batch = [c \in Clients |-> NoBatch]
  /\ held = [c \in Clients |-> Encoded([h \in {} |-> Unavailable])]
  /\ answer = [c \in Clients |-> Pending]
  /\ saves = 0 /\ damage = 0 /\ wounds = 0
  /\ LET present == IF \E f \in Files : ValidLegacy(f) THEN LegacyCurrent
                    ELSE [h \in {} |-> Unavailable] IN
     /\ acked = DOMAIN present
     /\ allowed = [h \in Hours |-> IF h \in DOMAIN present THEN {present[h]}
                                   ELSE {Unavailable}]

LoadStep(c) ==
  \/ BeginLoad(c) \/ LoadPrimary(c) \/ LoadBackup(c) \/ Restore(c) \/ LoadLegacy(c)
  \/ MigrateBackup(c) \/ MigratePrimary(c) \/ Unlink(c)

SaveStep(c) ==
  \/ \E first, last \in Hours : BeginSave(c, first, last)
  \/ FirstBackup(c) \/ FirstPrimary(c) \/ TidyBackup(c) \/ TidyPrimary(c)
  \/ CheckBackup(c) \/ Rebuild(c) \/ Append(c)
  \/ \E hour \in 0..(MaxHour + 1), torn \in BOOLEAN : Cut(c, hour, torn)
  \/ CompactBackup(c) \/ CompactPrimary(c)

Next ==
  \/ \E c \in Clients : LoadStep(c) \/ SaveStep(c) \/ ReadFails(c)
  \/ Crash
  \/ \E f \in Files : Damage(f)

Spec == Init /\ [][Next]_vars

-----------------------------------------------------------------------------
(* Properties. *)

\* Types; and no client appends to, or compacts, a history it could not merge, or
\* one beyond the retention.
TypeOK ==
  /\ \A f \in Files : file[f] \in {Missing, Damaged} \/ file[f] \in Content
  /\ \A f \in Files : legacy[f] \in {Missing, Damaged} \/ legacy[f] \in Histories
  /\ pc \in [Clients -> Steps]
  /\ \A c \in Clients : batch[c] = NoBatch \/ batch[c] \in Batch
  /\ held \in [Clients -> Content]
  /\ \A c \in Clients : answer[c] \in {Pending, Error} \/ answer[c] \in Histories
  /\ saves \in Nat /\ damage \in Nat /\ wounds \in Nat
  /\ allowed \in [Hours -> SUBSET Values] /\ acked \subseteq Hours
  /\ \A c \in Clients :
       pc[c] \in {"tidy-backup", "tidy-primary", "check-backup", "rebuild", "append",
                  "compact-backup", "compact-primary"}
         => /\ Mergeable(held[c].data, batch[c])
            /\ Cardinality(DOMAIN held[c].data) \in 1..MaxValues

\* The history the next load returns.
Effective ==
  IF Valid(file["primary"]) THEN Bounded(file["primary"].data)
  ELSE IF Valid(file["backup"]) THEN Bounded(file["backup"].data)
  ELSE IF \E f \in Files : file[f] # Missing THEN Lost
  ELSE IF \E f \in Files : ValidLegacy(f) THEN Bounded(LegacyCurrent)
  ELSE IF \E f \in Files : legacy[f] # Missing THEN Lost
  ELSE [h \in {} |-> Unavailable]

Trimmed(history, h) == Cardinality({g \in DOMAIN history : g > h}) >= MaxValues

\* Interrupted appends, compactions and migrations lose no observation: every hour
\* of a save that returned keeps its value, or that of a save submitted later,
\* until the retention drops it.  (A damaged file is another matter.)
ObservationsKept ==
  damage = 0 =>
    LET found == Effective IN
    \A h \in acked :
      /\ found # Lost
      /\ Trimmed(found, h) \/ (h \in DOMAIN found /\ found[h] \in allowed[h])

\* Once the primary exists, the history can be loaded as long as no second file is
\* damaged before the next save returns: every save checks the backup first.
HistoryRemains == wounds <= 1 /\ file["primary"] # Missing => Effective # Lost

Answered(c) == answer[c] = Pending /\ answer'[c] # Pending

\* The merged history a save returns is what reading the file yields: appending
\* lines and reading the last line of each hour amounts to the merge in memory.
AnswersAreRead ==
  [][\A c \in Clients : Answered(c) => answer'[c] \in {Effective', Error}]_vars

\* A save that returns leaves no more lines than the compaction threshold.
LinesBounded ==
  [][\A c \in Clients : Answered(c) /\ batch[c] # NoBatch /\ answer'[c] # Error =>
       file'["primary"].lines <= Threshold]_vars

-----------------------------------------------------------------------------
(* The history the files together stand for. *)

\* What the next load returns if the primary is damaged.
Fallback ==
  IF file["primary"] = Missing THEN Effective
  ELSE IF Valid(file["backup"]) THEN Bounded(file["backup"].data)
  ELSE Lost

\* The histories a load can return: contiguous, within the retention.
Retained == {h \in Histories : Contiguous(DOMAIN h) /\ Cardinality(DOMAIN h) <= MaxValues}

\* What an append makes of a history: the rows before some hour are written, all of
\* them unless it is cut off. The first save of all writes its rows as they are.
Written(history, b, hour) ==
  LET rows == Bridged(history, b) IN
  Bounded(Over([h \in {k \in DOMAIN rows : k < hour} |-> rows[h]], history))
Extends ==
  {<<[h \in {} |-> Unavailable], Rows(b)>> : b \in Batch}
    \cup {p \in {<<history, Written(history, b, hour)>> :
                 history \in {h \in Retained : DOMAIN h # {}}, b \in Batch,
                 hour \in 0..(MaxHour + 1)} : p[2] \in Retained}

Durable == INSTANCE DurableHistory WITH
  Histories <- Retained, value <- Effective, fallback <- Fallback

\* With a single client, no backfill and one legacy version, the files together are
\* one history that only appends change: the other writes of a call, its failures
\* and crashes leave what a load returns as it is, and a damaged file costs no more
\* than what was appended since the copy beside it.
ImplementsHistory == Durable!Spec
=============================================================================
