------------------------- MODULE HouseholdStoreProofs -------------------------
(***************************************************************************)
(* Theorems about HouseholdStore, for any retention, threshold, length of  *)
(* saves and number of damaged files. The types hold with any number of    *)
(* clients. When one client at a time uses the store and no backfill       *)
(* rewrites it, the history stays readable whatever is damaged, a load     *)
(* answers what the files hold, the primary file stays short, every        *)
(* acknowledged hour is found again, and the files together implement      *)
(* DurableHistory.                                                         *)
(*                                                                         *)
(* Facts about sets of hours and about operators on histories come first;  *)
(* TypeInv is the inductive type invariant, RemainInv the inductive        *)
(* invariant of the next three theorems; FindInv adds what the next load   *)
(* returns, on which the refinement rests, and KeepInv the ghosts of the   *)
(* acknowledged hours.                                                     *)
(***************************************************************************)
EXTENDS HouseholdStore, FiniteSetTheorems, WellFoundedInduction, TLAPS

USE DEF Files

-----------------------------------------------------------------------------
(* Sets of hours. *)

LEMMA Numbers ==
  /\ MaxHour \in Nat /\ MaxValues \in Nat /\ MaxSaves \in Nat /\ Threshold \in Nat
  /\ MaxLength \in Nat /\ 0 < MaxLength /\ 0 < MaxValues
BY HouseholdAssumption

LEMMA HoursFinite ==
  ASSUME NEW S \in SUBSET Hours
  PROVE  IsFiniteSet(S) /\ Cardinality(S) \in Nat /\ S \subseteq Nat
<1>1. IsFiniteSet(Hours) /\ Hours \subseteq Nat
  BY Numbers, FS_Interval DEF Hours
<1>2. QED
  BY <1>1, FS_Subset, FS_CardinalityType

LEMMA First ==
  ASSUME NEW S \in SUBSET Nat, S # {}
  PROVE  \E m \in S : \A s \in S : m <= s
<1>1. \E m \in S : \A s \in S : ~(<<s, m>> \in OpToRel(<, Nat))
  BY NatLessThanWellFounded, WFMin
<1>2. PICK m \in S : \A s \in S : ~(<<s, m>> \in OpToRel(<, Nat))
  BY <1>1
<1>3. ASSUME NEW s \in S PROVE m <= s
  <2>1. s \in Nat /\ m \in Nat /\ <<s, m>> \in Nat \X Nat
    OBVIOUS
  <2>2. ~(s < m)
    BY <1>2, <2>1 DEF OpToRel
  <2>3. QED
    BY <2>1, <2>2
<1>4. QED
  BY <1>3

\* The last hour is the first one counted from the end.
LEMMA LastHour ==
  ASSUME NEW S \in SUBSET Hours, S # {}
  PROVE  \E m \in S : \A s \in S : s <= m
<1> DEFINE T == {n \in Nat : MaxHour - n \in S}
<1>1. \A s \in S : s \in 0..MaxHour
  BY DEF Hours
<1>2. T # {}
  <2>1. PICK s \in S : TRUE
    OBVIOUS
  <2>2. MaxHour - s \in Nat /\ MaxHour - (MaxHour - s) = s
    BY <1>1, Numbers
  <2>3. QED
    BY <2>2
<1>3. PICK n \in T : \A k \in T : n <= k
  BY <1>2, First
<1>4. \A s \in S : s <= MaxHour - n
  <2>1. TAKE s \in S
  <2>2. MaxHour - s \in T
    BY <1>1, Numbers
  <2>3. QED
    BY <1>1, <1>3, <2>2, Numbers
<1>5. QED
  BY <1>3, <1>4

Above(S, h) == {g \in S : g > h}

LEMMA AboveFacts ==
  ASSUME NEW S \in SUBSET Hours, NEW h \in Nat, NEW k \in Nat, k <= h
  PROVE  /\ IsFiniteSet(Above(S, h)) /\ Cardinality(Above(S, h)) \in Nat
         /\ Cardinality(Above(S, h)) <= Cardinality(Above(S, k))
<1>1. Above(S, h) \subseteq Above(S, k) /\ Above(S, k) \subseteq S
  BY HoursFinite DEF Above
<1>2. IsFiniteSet(Above(S, k)) /\ IsFiniteSet(Above(S, h))
  BY <1>1, HoursFinite, FS_Subset
<1>3. QED
  BY <1>1, <1>2, FS_Subset, FS_CardinalityType

LEMMA NewestMember ==
  ASSUME NEW S \in SUBSET Hours, NEW h
  PROVE  h \in Newest(S) <=> h \in S /\ Cardinality(Above(S, h)) < MaxValues
<1>1. CASE Cardinality(S) <= MaxValues
  <2>1. ASSUME h \in S PROVE Cardinality(Above(S, h)) < MaxValues
    <3>1. IsFiniteSet(S) /\ Cardinality(S) \in Nat /\ S \subseteq Nat
      BY HoursFinite
    <3>2. Above(S, h) \subseteq S /\ h \notin Above(S, h)
      BY <2>1, <3>1 DEF Above
    <3>3. IsFiniteSet(Above(S, h)) /\ Cardinality(Above(S, h)) \in Nat
      BY <3>1, <3>2, FS_Subset, FS_CardinalityType
    <3>4. Cardinality(Above(S, h)) < Cardinality(S)
      <4>1. Above(S, h) \cup {h} \subseteq S
        BY <2>1, <3>2
      <4>2. Cardinality(Above(S, h) \cup {h}) = Cardinality(Above(S, h)) + 1
        BY <3>2, <3>3, FS_AddElement
      <4>3. Cardinality(Above(S, h) \cup {h}) <= Cardinality(S)
        BY <3>1, <4>1, FS_Subset
      <4>4. QED
        BY <3>1, <3>3, <4>2, <4>3
    <3>5. QED
      BY <1>1, <3>1, <3>3, <3>4, Numbers
  <2>2. QED
    BY <1>1, <2>1 DEF Newest
<1>2. CASE ~(Cardinality(S) <= MaxValues)
  BY <1>2 DEF Newest, Above
<1>3. QED
  BY <1>1, <1>2

\* The newest hours are a non-empty upper part of at most MaxValues hours.
LEMMA NewestFacts ==
  ASSUME NEW S \in SUBSET Hours
  PROVE  /\ Newest(S) \subseteq S
         /\ S # {} => Newest(S) # {}
         /\ Cardinality(Newest(S)) \in 0..MaxValues
         /\ \A h \in Newest(S) : \A g \in S : g > h => g \in Newest(S)
<1>1. Newest(S) \subseteq S
  BY DEF Newest
<1>2. Newest(S) \subseteq Nat /\ IsFiniteSet(Newest(S)) /\ Cardinality(Newest(S)) \in Nat
  BY <1>1, HoursFinite
<1>3. ASSUME S # {} PROVE Newest(S) # {}
  <2>1. PICK m \in S : \A s \in S : s <= m
    BY <1>3, LastHour
  <2>2. Above(S, m) = {}
    BY <2>1, HoursFinite DEF Above
  <2>3. Cardinality(Above(S, m)) = 0
    BY <2>2, FS_EmptySet
  <2>4. QED
    BY <2>3, NewestMember, Numbers
<1>4. Cardinality(Newest(S)) <= MaxValues
  <2>1. CASE Newest(S) = {}
    BY <2>1, FS_EmptySet, Numbers
  <2>2. CASE Newest(S) # {}
    <3>1. PICK m \in Newest(S) : \A h \in Newest(S) : m <= h
      BY <1>2, <2>2, First
    <3>2. Cardinality(Above(S, m)) < MaxValues /\ m \in Nat
      BY <1>2, <3>1, NewestMember
    <3>3. IsFiniteSet(Above(S, m)) /\ Cardinality(Above(S, m)) \in Nat
      BY <3>2, AboveFacts
    <3>4. Newest(S) \subseteq Above(S, m) \cup {m}
      BY <1>1, <1>2, <3>1, HoursFinite DEF Above
    <3>5. /\ IsFiniteSet(Above(S, m) \cup {m})
          /\ Cardinality(Above(S, m) \cup {m}) = Cardinality(Above(S, m)) + 1
      BY <3>2, <3>3, FS_AddElement DEF Above
    <3>6. Cardinality(Newest(S)) <= Cardinality(Above(S, m) \cup {m})
      BY <3>4, <3>5, FS_Subset
    <3>7. QED
      BY <1>2, <3>2, <3>3, <3>5, <3>6, Numbers
  <2>3. QED
    BY <2>1, <2>2
<1>5. ASSUME NEW h \in Newest(S), NEW g \in S, g > h PROVE g \in Newest(S)
  <2>1. h \in Nat /\ g \in Nat /\ Cardinality(Above(S, h)) < MaxValues
    BY <1>2, <1>5, HoursFinite, NewestMember
  <2>2. /\ Cardinality(Above(S, g)) <= Cardinality(Above(S, h))
        /\ Cardinality(Above(S, g)) \in Nat /\ Cardinality(Above(S, h)) \in Nat
    BY <1>5, <2>1, AboveFacts
  <2>3. QED
    BY <2>1, <2>2, NewestMember, Numbers
<1>6. QED
  BY <1>1, <1>2, <1>3, <1>4, <1>5

-----------------------------------------------------------------------------
(* Histories and files. *)

LEMMA HistoryType ==
  ASSUME NEW f \in Histories
  PROVE  /\ DOMAIN f \in SUBSET Hours /\ f = [h \in DOMAIN f |-> f[h]]
         /\ \A h \in DOMAIN f : f[h] \in Values
BY DEF Histories

LEMMA MakesHistory ==
  ASSUME NEW S \in SUBSET Hours, NEW f, f = [h \in S |-> f[h]],
         \A h \in S : f[h] \in Values
  PROVE  f \in Histories
<1>1. f \in [S -> Values]
  OBVIOUS
<1>2. QED
  BY <1>1 DEF Histories

LEMMA Nothing ==
  /\ [h \in {} |-> Unavailable] \in Histories
  /\ DOMAIN [h \in {} |-> Unavailable] = {}
<1> DEFINE f == [h \in {} |-> Unavailable]
<1>1. f \in [{} -> Values] /\ {} \in SUBSET Hours
  OBVIOUS
<1>2. QED
  BY <1>1 DEF Histories

LEMMA OverType ==
  ASSUME NEW f \in Histories, NEW g \in Histories
  PROVE  /\ Over(f, g) \in Histories
         /\ DOMAIN Over(f, g) = DOMAIN f \cup DOMAIN g
<1> DEFINE S == DOMAIN f \cup DOMAIN g
<1>1. S \in SUBSET Hours
  BY HistoryType
<1>2. \A h \in S : (IF h \in DOMAIN f THEN f[h] ELSE g[h]) \in Values
  BY HistoryType
<1>3. Over(f, g) \in [S -> Values] /\ DOMAIN Over(f, g) = S
  BY <1>2 DEF Over
<1>4. QED
  BY <1>1, <1>3 DEF Histories

LEMMA RowsType ==
  ASSUME NEW b \in Batch
  PROVE  /\ Rows(b) \in Histories /\ DOMAIN Rows(b) = b.first..b.last
         /\ b.first \in Hours /\ b.last \in Hours /\ b.value \in Values
         /\ b.first <= b.last /\ b.last < b.first + MaxLength
<1>1. /\ b.first \in Hours /\ b.last \in Hours /\ b.value \in Values
      /\ b.first <= b.last /\ b.last < b.first + MaxLength
  BY DEF Batch, Values
<1>2. b.first..b.last \in SUBSET Hours
  BY <1>1, Numbers DEF Hours
<1>3. Rows(b) \in [b.first..b.last -> Values] /\ DOMAIN Rows(b) = b.first..b.last
  BY <1>1 DEF Rows
<1>4. QED
  BY <1>1, <1>2, <1>3 DEF Histories

LEMMA BridgedType ==
  ASSUME NEW history \in Histories, NEW b \in Batch
  PROVE  /\ Bridged(history, b) \in Histories
         /\ DOMAIN Bridged(history, b) = (b.first..b.last) \cup Gap(history, b)
<1> DEFINE gap == [k \in Gap(history, b) |-> Unavailable]
<1>1. Gap(history, b) \in SUBSET Hours
  BY DEF Gap
<1>2. gap \in [Gap(history, b) -> Values] /\ DOMAIN gap = Gap(history, b)
  BY DEF Values
<1>3. gap \in Histories
  BY <1>1, <1>2 DEF Histories
<1>4. Bridged(history, b) = Over(Rows(b), gap)
  BY DEF Bridged
<1> HIDE DEF gap
<1>5. Rows(b) \in Histories /\ DOMAIN Rows(b) = b.first..b.last
  BY RowsType
<1>6. /\ Over(Rows(b), gap) \in Histories
      /\ DOMAIN Over(Rows(b), gap) = DOMAIN Rows(b) \cup DOMAIN gap
  BY <1>3, <1>5, OverType
<1>7. QED
  BY <1>2, <1>4, <1>5, <1>6

LEMMA BoundedType ==
  ASSUME NEW history \in Histories
  PROVE  /\ Bounded(history) \in Histories
         /\ DOMAIN Bounded(history) = Newest(DOMAIN history)
         /\ DOMAIN history # {} => DOMAIN Bounded(history) # {}
         /\ Cardinality(DOMAIN Bounded(history)) \in 0..MaxValues
<1>1. DOMAIN history \in SUBSET Hours
  BY HistoryType
<1>2. Newest(DOMAIN history) \in SUBSET Hours /\ Newest(DOMAIN history) \subseteq DOMAIN history
  BY <1>1, NewestFacts
<1>3. Bounded(history) \in [Newest(DOMAIN history) -> Values]
  BY <1>2, HistoryType DEF Bounded
<1>4. Bounded(history) \in Histories /\ DOMAIN Bounded(history) = Newest(DOMAIN history)
  BY <1>2, <1>3 DEF Histories
<1>5. QED
  BY <1>1, <1>4, NewestFacts

LEMMA MergedType ==
  ASSUME NEW history \in Histories, NEW b \in Batch
  PROVE  /\ Merged(history, b) \in Histories
         /\ DOMAIN Merged(history, b)
              = Newest((b.first..b.last) \cup Gap(history, b) \cup DOMAIN history)
<1> DEFINE bridged == Bridged(history, b)
<1>1. /\ bridged \in Histories
      /\ DOMAIN bridged = (b.first..b.last) \cup Gap(history, b)
  BY BridgedType
<1>2. Merged(history, b) = Bounded(Over(bridged, history))
  BY DEF Merged
<1> HIDE DEF bridged
<1>3. /\ Over(bridged, history) \in Histories
      /\ DOMAIN Over(bridged, history) = DOMAIN bridged \cup DOMAIN history
  BY <1>1, OverType
<1>4. QED
  BY <1>1, <1>2, <1>3, BoundedType

LEMMA EncodedType ==
  ASSUME NEW history \in Histories
  PROVE  /\ Encoded(history) \in Content
         /\ Encoded(history).data = history /\ ~Encoded(history).torn
         /\ Encoded(history).lines = Cardinality(DOMAIN history)
<1>1. Cardinality(DOMAIN history) \in Nat
  BY HistoryType, HoursFinite
<1>2. QED
  BY <1>1 DEF Encoded, Content

LEMMA ContentParts ==
  ASSUME NEW content \in Content
  PROVE  /\ content \notin {Missing, Damaged} /\ content.data \in Histories
         /\ content.lines \in Nat /\ content.torn \in BOOLEAN
         /\ Cardinality(DOMAIN content.data) <= content.lines
BY DistinctAssumption DEF Content

\* What is held of a file: its newest hours.
LEMMA BoundedContent ==
  ASSUME NEW content \in Content
  PROVE  /\ Cardinality(Newest(DOMAIN content.data)) \in Nat
         /\ Cardinality(Newest(DOMAIN content.data)) <= content.lines
         /\ [content EXCEPT !.data = Bounded(content.data)] \in Content
         /\ [content EXCEPT !.data = Bounded(content.data)].data = Bounded(content.data)
         /\ [content EXCEPT !.data = Bounded(content.data)].lines = content.lines
<1> DEFINE D == DOMAIN content.data
           history == Bounded(content.data)
<1>1. content.data \in Histories /\ D \in SUBSET Hours
  BY ContentParts, HistoryType
<1>2. Newest(D) \subseteq D /\ IsFiniteSet(D) /\ Cardinality(D) \in Nat
  BY <1>1, NewestFacts, HoursFinite
<1>3. Cardinality(Newest(D)) \in Nat /\ Cardinality(Newest(D)) <= Cardinality(D)
  BY <1>2, FS_Subset, FS_CardinalityType
<1>4. history \in Histories /\ DOMAIN history = Newest(D)
  BY <1>1, BoundedType
<1>5. content.lines \in Nat /\ Cardinality(D) <= content.lines
  BY ContentParts
<1>6. Cardinality(Newest(D)) <= content.lines
  BY <1>2, <1>3, <1>5
<1> HIDE DEF history, D
<1>7. [content EXCEPT !.data = history] \in Content
  BY <1>4, <1>6 DEF Content
<1>8. [content EXCEPT !.data = history].data = history
      /\ [content EXCEPT !.data = history].lines = content.lines
  BY DEF Content
<1>9. QED
  BY <1>3, <1>6, <1>7, <1>8 DEF history, D

-----------------------------------------------------------------------------
(* Types. *)

Late == {"tidy-backup", "tidy-primary", "check-backup", "rebuild", "append",
         "compact-backup", "compact-primary"}
Found == {"restore", "migrate-backup", "migrate-primary", "unlink"}

\* What a client knows at a step: there is something to save, what it found holds
\* an hour, and what it appends to can be merged and is within the retention.
Knows(c) ==
  /\ pc[c] \in Late \cup {"first-backup", "first-primary"} => batch[c] \in Batch
  /\ pc[c] \in Late \cup Found => DOMAIN held[c].data # {}
  /\ pc[c] \in Late => /\ Mergeable(held[c].data, batch[c])
                       /\ Cardinality(DOMAIN held[c].data) \in 1..MaxValues

GhostTypes ==
  /\ saves \in Nat /\ damage \in Nat /\ wounds \in Nat
  /\ allowed \in [Hours -> SUBSET Values] /\ acked \subseteq Hours

TypeInv ==
  /\ file \in [Files -> {Missing, Damaged} \cup Content]
  /\ legacy \in [Files -> LegacyContents]
  /\ pc \in [Clients -> Steps]
  /\ batch \in [Clients -> Batch \cup {NoBatch}]
  /\ held \in [Clients -> Content]
  /\ answer \in [Clients -> {Pending, Error} \cup Histories]
  /\ GhostTypes
  /\ \A c \in Clients : Knows(c)

LEMMA TypeInvImplies == TypeInv => TypeOK
BY DEF TypeInv, TypeOK, GhostTypes, Knows, Late, LegacyContents

\* The others know what they knew, unless a crash ended their call.
LEMMA OthersKnow ==
  ASSUME TypeInv, NEW c,
         \A d \in Clients \ {c} : /\ pc'[d] \in {pc[d], "idle"}
                                  /\ held'[d] = held[d] /\ batch'[d] = batch[d]
  PROVE  \A d \in Clients \ {c} : Knows(d)'
<1>1. TAKE d \in Clients \ {c}
<1>2. Knows(d)
  BY DEF TypeInv
<1>3. CASE pc'[d] = "idle"
  BY <1>3 DEF Knows, Late, Found
<1>4. CASE pc'[d] = pc[d]
  BY <1>2, <1>4 DEF Knows
<1>5. QED
  BY <1>3, <1>4

LEMMA LoadedStep ==
  ASSUME TypeInv, NEW c \in Clients, NEW content \in Content,
         DOMAIN content.data # {}, Loaded(c, content), UNCHANGED batch
  PROVE  /\ pc' \in [Clients -> Steps] /\ held' \in [Clients -> Content]
         /\ answer' \in [Clients -> {Pending, Error} \cup Histories]
         /\ \A d \in Clients : Knows(d)'
<1> DEFINE history == Bounded(content.data)
           loaded == [content EXCEPT !.data = history]
<1>1. content.data \in Histories
  BY ContentParts
<1>2. /\ history \in Histories /\ DOMAIN history # {}
      /\ Cardinality(DOMAIN history) \in 0..MaxValues
  BY <1>1, BoundedType
<1>3. Cardinality(DOMAIN history) \in 1..MaxValues
  <2>1. DOMAIN history \in SUBSET Hours
    BY <1>2, HistoryType
  <2>2. IsFiniteSet(DOMAIN history)
    BY <2>1, HoursFinite
  <2>3. Cardinality(DOMAIN history) # 0
    BY <1>2, <2>2, FS_EmptySet
  <2>4. QED
    BY <1>2, <2>3, Numbers
<1>4. loaded \in Content /\ loaded.data = history
  BY BoundedContent
<1>5. /\ held' = [held EXCEPT ![c] = loaded]
      /\ \/ /\ batch[c] = NoBatch
            /\ pc' = [pc EXCEPT ![c] = "idle"] /\ answer' = [answer EXCEPT ![c] = history]
         \/ /\ pc' = [pc EXCEPT ![c] = "idle"] /\ answer' = [answer EXCEPT ![c] = Error]
         \/ /\ batch[c] # NoBatch /\ Mergeable(history, batch[c])
            /\ answer' = answer
            /\ pc' = [pc EXCEPT ![c] = IF content.torn THEN "tidy-backup"
                                                      ELSE "check-backup"]
  BY DEF Loaded, Return, Raise, Goto
<1> HIDE DEF history, loaded
<1>6. /\ pc' \in [Clients -> Steps] /\ held' \in [Clients -> Content]
      /\ answer' \in [Clients -> {Pending, Error} \cup Histories]
  BY <1>2, <1>4, <1>5 DEF TypeInv, Steps
<1>7. \A d \in Clients \ {c} : Knows(d)'
  <2>1. \A d \in Clients \ {c} : pc'[d] = pc[d] /\ held'[d] = held[d] /\ batch'[d] = batch[d]
    BY <1>5 DEF TypeInv
  <2>2. QED
    BY <2>1, OthersKnow
<1>8. Knows(c)'
  <2>1. held'[c].data = history
    BY <1>4, <1>5 DEF TypeInv
  <2>2. CASE pc'[c] = "idle"
    BY <2>2 DEF Knows, Late, Found
  <2>3. CASE pc'[c] # "idle"
    <3>1. batch'[c] # NoBatch /\ Mergeable(history, batch'[c])
      BY <1>5, <2>3 DEF TypeInv
    <3>2. batch'[c] \in Batch
      BY <3>1 DEF TypeInv
    <3>3. QED
      BY <1>2, <1>3, <2>1, <3>1, <3>2 DEF Knows
  <2>4. QED
    BY <2>2, <2>3
<1>9. QED
  BY <1>6, <1>7, <1>8

\* A write that replaced the file or failed; its client goes on only if it did not
\* fail.
LEMMA WritesStep ==
  ASSUME TypeInv, NEW c \in Clients, NEW step, NEW f \in Files, NEW content \in Content,
         NEW next \in Steps, Writes(c, step, f, content, next)
  PROVE  /\ file' \in [Files -> {Missing, Damaged} \cup Content]
         /\ pc' \in [Clients -> Steps] /\ pc'[c] \in {next, "idle"}
         /\ answer' \in [Clients -> {Pending, Error} \cup Histories]
         /\ file'[f] \in {file[f], content}
         /\ pc'[c] # "idle" => file'[f] = content
         /\ \A g \in Files \ {f} : file'[g] = file[g]
         /\ \A d \in Clients \ {c} : pc'[d] = pc[d]
         /\ pc[c] = step /\ UNCHANGED <<legacy, batch, held, ghosts>>
<1>1. CASE file' = [file EXCEPT ![f] = content] /\ Goto(c, next) /\ UNCHANGED answer
  <2>1. /\ pc' = [pc EXCEPT ![c] = next] /\ answer' = answer
        /\ pc[c] = step /\ UNCHANGED <<legacy, batch, held, ghosts>>
    BY <1>1 DEF Writes, Goto
  <2>2. QED
    BY <1>1, <2>1 DEF TypeInv
<1>2. CASE file' \in {file, [file EXCEPT ![f] = content]} /\ Raise(c)
  <2>1. /\ pc' = [pc EXCEPT ![c] = "idle"] /\ answer' = [answer EXCEPT ![c] = Error]
        /\ pc[c] = step /\ UNCHANGED <<legacy, batch, held, ghosts>>
    BY <1>2 DEF Writes, Raise, Goto
  <2>2. file' = file \/ file' = [file EXCEPT ![f] = content]
    BY <1>2
  <2>3. pc'[c] = "idle" /\ pc' \in [Clients -> Steps]
        /\ \A d \in Clients \ {c} : pc'[d] = pc[d]
    BY <2>1 DEF TypeInv, Steps
  <2>4. QED
    BY <2>1, <2>2, <2>3 DEF TypeInv
<1>3. QED
  BY <1>1, <1>2 DEF Writes

LEMMA WritesKeepTypes ==
  ASSUME TypeInv, NEW c \in Clients, NEW step, NEW f \in Files, NEW content \in Content,
         NEW next \in Steps, Writes(c, step, f, content, next),
         next \in Late \cup Found \cup {"first-primary"},
         next \in Late => step \in Late, next \in Found => step \in Found,
         next = "first-primary" => step = "first-backup"
  PROVE  TypeInv'
<1>1. /\ file' \in [Files -> {Missing, Damaged} \cup Content]
      /\ pc' \in [Clients -> Steps] /\ pc'[c] \in {next, "idle"}
      /\ answer' \in [Clients -> {Pending, Error} \cup Histories]
      /\ file'[f] \in {file[f], content}
      /\ pc'[c] # "idle" => file'[f] = content
      /\ \A g \in Files \ {f} : file'[g] = file[g]
      /\ \A d \in Clients \ {c} : pc'[d] = pc[d]
      /\ pc[c] = step /\ UNCHANGED <<legacy, batch, held, ghosts>>
  BY WritesStep
<1>2. \A d \in Clients \ {c} : Knows(d)'
  BY <1>1, OthersKnow
<1>3. Knows(c)'
  <2>1. Knows(c)
    BY DEF TypeInv
  <2>2. CASE pc'[c] = "idle"
    BY <2>2 DEF Knows, Late, Found
  <2>3. CASE pc'[c] = next
    <3>1. held'[c] = held[c] /\ batch'[c] = batch[c]
      BY <1>1
    <3>2. CASE next = "first-primary"
      BY <1>1, <2>1, <2>3, <3>1, <3>2 DEF Knows, Late, Found
    <3>3. CASE next \in Found
      BY <1>1, <2>1, <2>3, <3>1, <3>3 DEF Knows, Late, Found
    <3>4. CASE next \in Late
      BY <1>1, <2>1, <2>3, <3>1, <3>4 DEF Knows
    <3>5. QED
      BY <3>2, <3>3, <3>4
  <2>4. QED
    BY <1>1, <2>2, <2>3
<1>4. GhostTypes'
  BY <1>1 DEF TypeInv, GhostTypes, ghosts
<1>5. QED
  BY <1>1, <1>2, <1>3, <1>4 DEF TypeInv

LEMMA AcknowledgeTypes ==
  ASSUME TypeInv, NEW c \in Clients, batch[c] \in Batch, Acknowledge(c)
  PROVE  GhostTypes'
<1>1. /\ batch[c].value \in Values /\ DOMAIN Rows(batch[c]) \in SUBSET Hours
  BY RowsType, HistoryType
<1>2. \A d \in InFlight(c) : batch[d].value \in Values
  <2>1. TAKE d \in InFlight(c)
  <2>2. d \in Clients /\ batch[d] \in Batch
    BY DEF InFlight, TypeInv
  <2>3. QED
    BY <2>2, RowsType
<1> DEFINE found(h) == {batch[c].value} \cup {batch[d].value : d \in {e \in InFlight(c) :
                                                       h \in DOMAIN Rows(batch[e])}}
           next(h) == IF h \in DOMAIN Rows(batch[c]) THEN found(h) ELSE allowed[h]
<1>3. \A h \in Hours : next(h) \in SUBSET Values
  <2>1. TAKE h \in Hours
  <2>2. found(h) \in SUBSET Values
    BY <1>1, <1>2
  <2>3. allowed[h] \in SUBSET Values
    BY DEF TypeInv, GhostTypes
  <2>4. QED
    BY <2>2, <2>3
<1>4. allowed' = [h \in Hours |-> next(h)]
  BY DEF Acknowledge
<1> HIDE DEF next
<1>5. allowed' \in [Hours -> SUBSET Values]
  BY <1>3, <1>4
<1>6. acked' = acked \cup DOMAIN Rows(batch[c]) /\ wounds' = 0 /\ UNCHANGED <<saves, damage>>
  BY DEF Acknowledge
<1>7. QED
  BY <1>1, <1>5, <1>6 DEF TypeInv, GhostTypes

-----------------------------------------------------------------------------
(* Every action keeps the types. *)

LEMMA BeginLoadTypes ==
  ASSUME TypeInv, NEW c \in Clients, BeginLoad(c)
  PROVE  TypeInv'
<1>1. /\ pc' = [pc EXCEPT ![c] = "load-primary"]
      /\ batch' = [batch EXCEPT ![c] = NoBatch]
      /\ answer' = [answer EXCEPT ![c] = Pending]
      /\ UNCHANGED <<file, legacy, held, saves, allowed, acked, damage, wounds>>
  BY DEF BeginLoad, Goto, ghosts
<1>2. \A d \in Clients \ {c} : Knows(d)'
  <2>1. \A d \in Clients \ {c} : pc'[d] = pc[d] /\ held'[d] = held[d] /\ batch'[d] = batch[d]
    BY <1>1 DEF TypeInv
  <2>2. QED
    BY <2>1, OthersKnow
<1>3. Knows(c)'
  BY <1>1 DEF TypeInv, Knows, Late, Found
<1>4. QED
  BY <1>1, <1>2, <1>3 DEF TypeInv, GhostTypes, Steps

LEMMA RaiseTypes ==
  ASSUME TypeInv, NEW c \in Clients, Raise(c),
         UNCHANGED <<legacy, batch, held, ghosts>>,
         file' \in [Files -> {Missing, Damaged} \cup Content]
  PROVE  TypeInv'
<1>1. /\ pc' = [pc EXCEPT ![c] = "idle"] /\ answer' = [answer EXCEPT ![c] = Error]
      /\ UNCHANGED <<legacy, batch, held, saves, allowed, acked, damage, wounds>>
  BY DEF Raise, Goto, ghosts
<1>2. \A d \in Clients \ {c} : Knows(d)'
  <2>1. \A d \in Clients \ {c} : pc'[d] = pc[d] /\ held'[d] = held[d] /\ batch'[d] = batch[d]
    BY <1>1 DEF TypeInv
  <2>2. QED
    BY <2>1, OthersKnow
<1>3. Knows(c)'
  BY <1>1 DEF TypeInv, Knows, Late, Found
<1>4. QED
  BY <1>1, <1>2, <1>3 DEF TypeInv, GhostTypes, Steps

\* A client that goes on knows at its new step what it knew before.
LEMMA GotoTypes ==
  ASSUME TypeInv, NEW c \in Clients, NEW step \in Steps, Goto(c, step),
         UNCHANGED <<legacy, batch, held, answer, ghosts>>,
         file' \in [Files -> {Missing, Damaged} \cup Content],
         step \in Late => pc[c] \in Late, step \in Found => pc[c] \in Found,
         step \in {"first-backup", "first-primary"} => batch[c] \in Batch
  PROVE  TypeInv'
<1>1. /\ pc' = [pc EXCEPT ![c] = step]
      /\ UNCHANGED <<legacy, batch, held, answer, saves, allowed, acked, damage, wounds>>
  BY DEF Goto, ghosts
<1>2. \A d \in Clients \ {c} : Knows(d)'
  <2>1. \A d \in Clients \ {c} : pc'[d] = pc[d] /\ held'[d] = held[d] /\ batch'[d] = batch[d]
    BY <1>1 DEF TypeInv
  <2>2. QED
    BY <2>1, OthersKnow
<1>3. Knows(c)'
  <2>1. Knows(c) /\ pc'[c] = step /\ held'[c] = held[c] /\ batch'[c] = batch[c]
    BY <1>1 DEF TypeInv
  <2>2. QED
    BY <2>1 DEF Knows
<1>4. QED
  BY <1>1, <1>2, <1>3 DEF TypeInv, GhostTypes

LEMMA ValidContent ==
  ASSUME TypeInv, NEW f \in Files, Valid(file[f])
  PROVE  file[f] \in Content /\ DOMAIN file[f].data # {}
BY DEF TypeInv, Valid

LEMMA LoadPrimaryTypes ==
  ASSUME TypeInv, NEW c \in Clients, LoadPrimary(c)
  PROVE  TypeInv'
<1>1. UNCHANGED <<file, legacy, batch, ghosts>>
  BY DEF LoadPrimary
<1>2. CASE Valid(file["primary"]) /\ Loaded(c, file["primary"])
  <2>1. file["primary"] \in Content /\ DOMAIN file["primary"].data # {}
    BY <1>2, ValidContent
  <2>2. /\ pc' \in [Clients -> Steps] /\ held' \in [Clients -> Content]
        /\ answer' \in [Clients -> {Pending, Error} \cup Histories]
        /\ \A d \in Clients : Knows(d)'
    BY <1>1, <1>2, <2>1, LoadedStep
  <2>3. QED
    BY <1>1, <2>2 DEF TypeInv, GhostTypes, ghosts
<1>3. CASE Goto(c, "load-backup") /\ UNCHANGED <<held, answer>>
  <2>1. file' \in [Files -> {Missing, Damaged} \cup Content]
    BY <1>1 DEF TypeInv
  <2>2. "load-backup" \in Steps /\ "load-backup" \notin Late \cup Found
    BY DEF Steps, Late, Found
  <2>3. QED
    BY <1>1, <1>3, <2>1, <2>2, GotoTypes
<1>4. QED
  BY <1>2, <1>3 DEF LoadPrimary

LEMMA LoadBackupTypes ==
  ASSUME TypeInv, NEW c \in Clients, LoadBackup(c)
  PROVE  TypeInv'
<1>1. UNCHANGED <<file, legacy, batch, ghosts>>
      /\ file' \in [Files -> {Missing, Damaged} \cup Content]
  BY DEF LoadBackup, TypeInv
<1>2. CASE /\ Valid(file["backup"])
           /\ held' = [held EXCEPT ![c] = file["backup"]]
           /\ Goto(c, "restore") /\ UNCHANGED answer
  <2>1. file["backup"] \in Content /\ DOMAIN file["backup"].data # {}
    BY <1>2, ValidContent
  <2>2. pc' = [pc EXCEPT ![c] = "restore"]
    BY <1>2 DEF Goto
  <2>3. \A d \in Clients \ {c} : Knows(d)'
    <3>1. \A d \in Clients \ {c} : pc'[d] = pc[d] /\ held'[d] = held[d] /\ batch'[d] = batch[d]
      BY <1>1, <1>2, <2>2 DEF TypeInv
    <3>2. QED
      BY <3>1, OthersKnow
  <2>4. Knows(c)'
    <3>1. pc'[c] = "restore" /\ held'[c] = file["backup"]
      BY <1>2, <2>2 DEF TypeInv
    <3>2. QED
      BY <2>1, <3>1 DEF Knows, Late, Found
  <2>5. QED
    BY <1>1, <1>2, <2>1, <2>2, <2>3, <2>4 DEF TypeInv, GhostTypes, ghosts, Steps
<1>3. CASE Goto(c, "load-legacy") /\ UNCHANGED <<held, answer>>
  <2>1. "load-legacy" \in Steps /\ "load-legacy" \notin Late \cup Found
    BY DEF Steps, Late, Found
  <2>2. QED
    BY <1>1, <1>3, <2>1, GotoTypes
<1>4. CASE Raise(c) /\ UNCHANGED held
  BY <1>1, <1>4, RaiseTypes
<1>5. QED
  BY <1>2, <1>3, <1>4 DEF LoadBackup

\* A replaced file.
LEMMA ReplacedType ==
  ASSUME TypeInv, NEW f \in Files, NEW content \in Content,
         file' \in {file, [file EXCEPT ![f] = content]}
  PROVE  file' \in [Files -> {Missing, Damaged} \cup Content]
BY DEF TypeInv

LEMMA RestoreTypes ==
  ASSUME TypeInv, NEW c \in Clients, Restore(c)
  PROVE  TypeInv'
<1> DEFINE restored == Encoded(Bounded(held[c].data))
<1>1. /\ pc[c] = "restore" /\ UNCHANGED <<legacy, batch, ghosts>>
      /\ \/ file' = [file EXCEPT !["primary"] = restored] /\ Loaded(c, held[c])
         \/ /\ file' \in {file, [file EXCEPT !["primary"] = restored]}
            /\ Raise(c) /\ UNCHANGED held
  BY DEF Restore
<1>2. held[c] \in Content /\ held[c].data \in Histories
  BY ContentParts DEF TypeInv
<1>3. restored \in Content
  BY <1>2, BoundedType, EncodedType
<1> HIDE DEF restored
<1>4. file' \in [Files -> {Missing, Damaged} \cup Content]
  BY <1>1, <1>3, ReplacedType
<1>5. CASE Loaded(c, held[c])
  <2>1. DOMAIN held[c].data # {}
    BY <1>1 DEF TypeInv, Knows, Found
  <2>2. /\ pc' \in [Clients -> Steps] /\ held' \in [Clients -> Content]
        /\ answer' \in [Clients -> {Pending, Error} \cup Histories]
        /\ \A d \in Clients : Knows(d)'
    BY <1>1, <1>2, <1>5, <2>1, LoadedStep
  <2>3. QED
    BY <1>1, <1>4, <2>2 DEF TypeInv, GhostTypes, ghosts
<1>6. CASE Raise(c) /\ UNCHANGED held
  BY <1>1, <1>4, <1>6, RaiseTypes
<1>7. QED
  BY <1>1, <1>5, <1>6

LEMMA LegacyType ==
  ASSUME TypeInv, NEW f \in Files, ValidLegacy(f)
  PROVE  legacy[f] \in Histories /\ DOMAIN legacy[f] # {}
BY DEF TypeInv, ValidLegacy, LegacyContents

\* What is migrated holds an hour.
LEMMA LegacyCurrentType ==
  ASSUME TypeInv, \E f \in Files : ValidLegacy(f)
  PROVE  /\ Bounded(LegacyCurrent) \in Histories /\ DOMAIN Bounded(LegacyCurrent) # {}
         /\ Bounded(LegacyBackup) \in Histories
<1>1. LegacyCurrent \in Histories /\ DOMAIN LegacyCurrent # {}
  BY LegacyType DEF LegacyCurrent
<1>2. LegacyBackup \in Histories
  BY <1>1, LegacyType DEF LegacyBackup
<1>3. QED
  BY <1>1, <1>2, BoundedType

LEMMA LoadLegacyTypes ==
  ASSUME TypeInv, NEW c \in Clients, LoadLegacy(c)
  PROVE  TypeInv'
<1> DEFINE valid == \E f \in Files : ValidLegacy(f)
           nothing == [h \in {} |-> Unavailable]
           found == IF valid THEN Encoded(Bounded(LegacyCurrent)) ELSE Encoded(nothing)
<1>1. /\ UNCHANGED <<file, legacy, batch, ghosts>> /\ held' = [held EXCEPT ![c] = found]
      /\ \/ valid /\ Goto(c, "migrate-backup") /\ UNCHANGED answer
         \/ Raise(c)
         \/ Return(c, nothing)
         \/ batch[c] # NoBatch /\ Goto(c, "first-backup") /\ UNCHANGED answer
  BY DEF LoadLegacy
<1>2. nothing \in Histories
  BY Nothing
<1>3. found \in Content /\ (valid => DOMAIN found.data # {})
  <2>1. CASE valid
    <3>1. Bounded(LegacyCurrent) \in Histories /\ DOMAIN Bounded(LegacyCurrent) # {}
      BY <2>1, LegacyCurrentType
    <3>2. found = Encoded(Bounded(LegacyCurrent))
      BY <2>1
    <3>3. QED
      BY <3>1, <3>2, EncodedType
  <2>2. CASE ~valid
    <3>1. found = Encoded(nothing)
      BY <2>2
    <3>2. QED
      BY <1>2, <2>2, <3>1, EncodedType
  <2>3. QED
    BY <2>1, <2>2
<1> HIDE DEF nothing, valid, found
<1>4. PICK step \in {"migrate-backup", "idle", "first-backup"} :
        /\ pc' = [pc EXCEPT ![c] = step]
        /\ step = "migrate-backup" => valid
        /\ step = "first-backup" => batch[c] # NoBatch
  BY <1>1 DEF Goto, Raise, Return
<1>5. answer' \in [Clients -> {Pending, Error} \cup Histories]
  <2>1. answer' = answer \/ answer' = [answer EXCEPT ![c] = Error]
        \/ answer' = [answer EXCEPT ![c] = nothing]
    BY <1>1 DEF Goto, Raise, Return
  <2>2. QED
    BY <1>2, <2>1 DEF TypeInv
<1>6. \A d \in Clients \ {c} : Knows(d)'
  <2>1. \A d \in Clients \ {c} : pc'[d] = pc[d] /\ held'[d] = held[d] /\ batch'[d] = batch[d]
    BY <1>1, <1>4 DEF TypeInv
  <2>2. QED
    BY <2>1, OthersKnow
<1>7. Knows(c)'
  <2>1. pc'[c] = step /\ held'[c] = found /\ batch'[c] = batch[c]
    BY <1>1, <1>4 DEF TypeInv
  <2>2. step = "first-backup" => batch[c] \in Batch
    BY <1>4 DEF TypeInv
  <2>3. QED
    BY <1>3, <1>4, <2>1, <2>2 DEF Knows, Late, Found
<1>8. QED
  BY <1>1, <1>3, <1>4, <1>5, <1>6, <1>7 DEF TypeInv, GhostTypes, ghosts, Steps

LEMMA MigrateBackupTypes ==
  ASSUME TypeInv, NEW c \in Clients, MigrateBackup(c)
  PROVE  TypeInv'
<1> DEFINE content == Encoded(IF ValidLegacy("backup") THEN Bounded(LegacyBackup)
                              ELSE held[c].data)
<1>1. Writes(c, "migrate-backup", "backup", content, "migrate-primary")
  BY DEF MigrateBackup
<1>2. content \in Content
  <2>1. held[c].data \in Histories
    BY ContentParts DEF TypeInv
  <2>2. ValidLegacy("backup") => Bounded(LegacyBackup) \in Histories
    BY LegacyCurrentType
  <2>3. QED
    BY <2>1, <2>2, EncodedType
<1> HIDE DEF content
<1>3. "migrate-backup" \in Found /\ "migrate-primary" \in Found /\ "migrate-primary" \in Steps
      /\ "migrate-primary" \notin Late
  BY DEF Found, Late, Steps
<1>4. QED
  BY <1>1, <1>2, <1>3, WritesKeepTypes

LEMMA MigratePrimaryTypes ==
  ASSUME TypeInv, NEW c \in Clients, MigratePrimary(c)
  PROVE  TypeInv'
<1>1. Writes(c, "migrate-primary", "primary", held[c], "unlink")
  BY DEF MigratePrimary
<1>2. held[c] \in Content
  BY DEF TypeInv
<1>3. "migrate-primary" \in Found /\ "unlink" \in Found /\ "unlink" \in Steps
      /\ "unlink" \notin Late
  BY DEF Found, Late, Steps
<1>4. QED
  BY <1>1, <1>2, <1>3, WritesKeepTypes

LEMMA UnlinkTypes ==
  ASSUME TypeInv, NEW c \in Clients, Unlink(c)
  PROVE  TypeInv'
<1>1. pc[c] = "unlink" /\ UNCHANGED <<file, batch, ghosts>>
      /\ file' \in [Files -> {Missing, Damaged} \cup Content]
  BY DEF Unlink, TypeInv
<1>2. CASE legacy' = [f \in Files |-> Missing] /\ Loaded(c, held[c])
  <2>1. held[c] \in Content /\ DOMAIN held[c].data # {}
    BY <1>1 DEF TypeInv, Knows, Found
  <2>2. /\ pc' \in [Clients -> Steps] /\ held' \in [Clients -> Content]
        /\ answer' \in [Clients -> {Pending, Error} \cup Histories]
        /\ \A d \in Clients : Knows(d)'
    BY <1>1, <1>2, <2>1, LoadedStep
  <2>3. legacy' \in [Files -> LegacyContents]
    BY <1>2 DEF LegacyContents
  <2>4. QED
    BY <1>1, <2>2, <2>3 DEF TypeInv, GhostTypes, ghosts
<1>3. CASE /\ legacy' \in {legacy, [legacy EXCEPT !["primary"] = Missing]}
           /\ UNCHANGED held /\ Raise(c)
  <2>1. legacy' \in [Files -> LegacyContents]
    BY <1>3 DEF LegacyContents, TypeInv
  <2>2. pc' = [pc EXCEPT ![c] = "idle"] /\ answer' = [answer EXCEPT ![c] = Error]
    BY <1>3 DEF Raise, Goto
  <2>3. \A d \in Clients : Knows(d)'
    <3>1. \A d \in Clients \ {c} :
            pc'[d] = pc[d] /\ held'[d] = held[d] /\ batch'[d] = batch[d]
      BY <1>1, <1>3, <2>2 DEF TypeInv
    <3>2. Knows(c)'
      BY <1>1, <1>3, <2>2 DEF TypeInv, Knows, Late, Found
    <3>3. QED
      BY <3>1, <3>2, OthersKnow
  <2>4. QED
    BY <1>1, <1>3, <2>1, <2>2, <2>3 DEF TypeInv, GhostTypes, ghosts, Steps
<1>4. QED
  BY <1>2, <1>3 DEF Unlink

LEMMA BeginSaveTypes ==
  ASSUME TypeInv, NEW c \in Clients, NEW first \in Hours, NEW last \in Hours,
         BeginSave(c, first, last)
  PROVE  TypeInv'
<1> DEFINE b == [first |-> first, last |-> last, value |-> saves + 1]
           next(h) == IF h \in DOMAIN Rows(b) THEN allowed[h] \cup {b.value} ELSE allowed[h]
<1>1. /\ saves' = saves + 1 /\ batch' = [batch EXCEPT ![c] = b]
      /\ pc' = [pc EXCEPT ![c] = "load-primary"]
      /\ answer' = [answer EXCEPT ![c] = Pending]
      /\ allowed' = [h \in Hours |-> next(h)]
      /\ UNCHANGED <<file, legacy, held, acked, damage, wounds>>
  BY DEF BeginSave, Goto
<1>2. b \in Batch
  <2>1. saves + 1 \in 1..MaxSaves
    BY Numbers DEF BeginSave, TypeInv, GhostTypes
  <2>2. first <= last /\ last < first + MaxLength
    BY DEF BeginSave
  <2>3. QED
    BY <2>1, <2>2 DEF Batch
<1>3. b.value \in Values
  BY <1>2, RowsType
<1> HIDE DEF b
<1>4. \A h \in Hours : next(h) \in SUBSET Values
  BY <1>3 DEF TypeInv, GhostTypes
<1> HIDE DEF next
<1>5. GhostTypes'
  BY <1>1, <1>4 DEF TypeInv, GhostTypes
<1>6. \A d \in Clients \ {c} : Knows(d)'
  <2>1. \A d \in Clients \ {c} : pc'[d] = pc[d] /\ held'[d] = held[d] /\ batch'[d] = batch[d]
    BY <1>1 DEF TypeInv
  <2>2. QED
    BY <2>1, OthersKnow
<1>7. Knows(c)'
  BY <1>1 DEF TypeInv, Knows, Late, Found
<1>8. QED
  BY <1>1, <1>2, <1>5, <1>6, <1>7 DEF TypeInv, Steps

\* What a save that is past its load knows of its client.
LEMMA LateFacts ==
  ASSUME TypeInv, NEW c \in Clients, pc[c] \in Late
  PROVE  /\ batch[c] \in Batch /\ held[c] \in Content /\ held[c].data \in Histories
         /\ Encoded(held[c].data) \in Content
         /\ Merged(held[c].data, batch[c]) \in Histories
         /\ Bridged(held[c].data, batch[c]) \in Histories
<1>1. batch[c] \in Batch /\ held[c] \in Content
  BY DEF TypeInv, Knows
<1>2. held[c].data \in Histories
  BY <1>1, ContentParts
<1>3. QED
  BY <1>1, <1>2, EncodedType, MergedType, BridgedType

LEMMA FirstBackupTypes ==
  ASSUME TypeInv, NEW c \in Clients, FirstBackup(c)
  PROVE  TypeInv'
<1>1. Writes(c, "first-backup", "backup", Encoded(Rows(batch[c])), "first-primary")
  BY DEF FirstBackup
<1>2. Encoded(Rows(batch[c])) \in Content
  <2>1. batch[c] \in Batch
    BY DEF FirstBackup, Writes, TypeInv, Knows
  <2>2. QED
    BY <2>1, RowsType, EncodedType
<1>3. "first-primary" \in Steps /\ "first-primary" \notin Late \cup Found
  BY DEF Found, Late, Steps
<1>4. QED
  BY <1>1, <1>2, <1>3, WritesKeepTypes

\* A save that returns what it stored.
LEMMA SavedTypes ==
  ASSUME TypeInv, NEW c \in Clients, NEW history \in Histories, batch[c] \in Batch,
         Return(c, history), Acknowledge(c), UNCHANGED <<legacy, batch, held>>,
         file' \in [Files -> {Missing, Damaged} \cup Content]
  PROVE  TypeInv'
<1>1. pc' = [pc EXCEPT ![c] = "idle"] /\ answer' = [answer EXCEPT ![c] = history]
  BY DEF Return, Goto
<1>2. \A d \in Clients \ {c} : Knows(d)'
  <2>1. \A d \in Clients \ {c} : pc'[d] = pc[d] /\ held'[d] = held[d] /\ batch'[d] = batch[d]
    BY <1>1 DEF TypeInv
  <2>2. QED
    BY <2>1, OthersKnow
<1>3. Knows(c)'
  BY <1>1 DEF TypeInv, Knows, Late, Found
<1>4. GhostTypes'
  BY AcknowledgeTypes
<1>5. QED
  BY <1>1, <1>2, <1>3, <1>4 DEF TypeInv, Steps

LEMMA FirstPrimaryTypes ==
  ASSUME TypeInv, NEW c \in Clients, FirstPrimary(c)
  PROVE  TypeInv'
<1> DEFINE content == Encoded(Rows(batch[c]))
<1>1. batch[c] \in Batch
  BY DEF FirstPrimary, TypeInv, Knows
<1>2. Rows(batch[c]) \in Histories /\ content \in Content
  BY <1>1, RowsType, EncodedType
<1>3. /\ UNCHANGED <<legacy, batch, held>>
      /\ file' \in {file, [file EXCEPT !["primary"] = content]}
      /\ \/ Return(c, Rows(batch[c])) /\ Acknowledge(c)
         \/ Raise(c) /\ UNCHANGED ghosts
  BY DEF FirstPrimary
<1> HIDE DEF content
<1>4. file' \in [Files -> {Missing, Damaged} \cup Content]
  BY <1>2, <1>3, ReplacedType
<1>5. CASE Return(c, Rows(batch[c])) /\ Acknowledge(c)
  BY <1>1, <1>2, <1>3, <1>4, <1>5, SavedTypes
<1>6. CASE Raise(c) /\ UNCHANGED ghosts
  BY <1>3, <1>4, <1>6, RaiseTypes
<1>7. QED
  BY <1>3, <1>5, <1>6

LEMMA TidyBackupTypes ==
  ASSUME TypeInv, NEW c \in Clients, TidyBackup(c)
  PROVE  TypeInv'
<1>1. Writes(c, "tidy-backup", "backup", Encoded(held[c].data), "tidy-primary")
  BY DEF TidyBackup
<1>2. "tidy-backup" \in Late /\ "tidy-primary" \in Late /\ "tidy-primary" \in Steps
      /\ "tidy-primary" \notin Found
  BY DEF Late, Found, Steps
<1>3. Encoded(held[c].data) \in Content
  BY <1>1, <1>2, LateFacts DEF Writes
<1>4. QED
  BY <1>1, <1>2, <1>3, WritesKeepTypes

LEMMA TidyPrimaryTypes ==
  ASSUME TypeInv, NEW c \in Clients, TidyPrimary(c)
  PROVE  TypeInv'
<1> DEFINE tidy == Encoded(held[c].data)
<1>1. /\ pc[c] = "tidy-primary" /\ UNCHANGED <<legacy, batch, ghosts>>
      /\ file' \in {file, [file EXCEPT !["primary"] = tidy]}
      /\ \/ /\ held' = [held EXCEPT ![c] = tidy]
            /\ Goto(c, "check-backup") /\ UNCHANGED answer
         \/ Raise(c) /\ UNCHANGED held
  BY DEF TidyPrimary
<1>2. pc[c] \in Late
  BY <1>1 DEF Late
<1>3. tidy \in Content /\ tidy.data = held[c].data
  BY <1>2, LateFacts, EncodedType
<1> HIDE DEF tidy
<1>4. file' \in [Files -> {Missing, Damaged} \cup Content]
  BY <1>1, <1>3, ReplacedType
<1>5. CASE held' = [held EXCEPT ![c] = tidy] /\ Goto(c, "check-backup") /\ UNCHANGED answer
  <2>1. pc' = [pc EXCEPT ![c] = "check-backup"]
    BY <1>5 DEF Goto
  <2>2. \A d \in Clients \ {c} : Knows(d)'
    <3>1. \A d \in Clients \ {c} : pc'[d] = pc[d] /\ held'[d] = held[d] /\ batch'[d] = batch[d]
      BY <1>1, <1>5, <2>1 DEF TypeInv
    <3>2. QED
      BY <3>1, OthersKnow
  <2>3. Knows(c)'
    <3>1. Knows(c) /\ held'[c].data = held[c].data /\ batch'[c] = batch[c]
      BY <1>1, <1>3, <1>5 DEF TypeInv
    <3>2. QED
      BY <1>2, <3>1 DEF Knows
  <2>4. QED
    BY <1>1, <1>3, <1>4, <1>5, <2>1, <2>2, <2>3 DEF TypeInv, GhostTypes, ghosts, Steps
<1>6. CASE Raise(c) /\ UNCHANGED held
  BY <1>1, <1>4, <1>6, RaiseTypes
<1>7. QED
  BY <1>1, <1>5, <1>6

LEMMA CheckBackupTypes ==
  ASSUME TypeInv, NEW c \in Clients, CheckBackup(c)
  PROVE  TypeInv'
<1>1. /\ pc[c] = "check-backup" /\ UNCHANGED <<file, legacy, batch, held, answer, ghosts>>
      /\ Goto(c, IF Valid(file["backup"]) THEN "append" ELSE "rebuild")
  BY DEF CheckBackup
<1>2. file' \in [Files -> {Missing, Damaged} \cup Content]
  BY <1>1 DEF TypeInv
<1>3. /\ {"check-backup", "append", "rebuild"} \subseteq Late
      /\ {"append", "rebuild"} \subseteq Steps \ Found
  BY DEF Late, Found, Steps
<1>4. QED
  BY <1>1, <1>2, <1>3, GotoTypes

LEMMA RebuildTypes ==
  ASSUME TypeInv, NEW c \in Clients, Rebuild(c)
  PROVE  TypeInv'
<1>1. Writes(c, "rebuild", "backup", Encoded(held[c].data), "append")
  BY DEF Rebuild
<1>2. "rebuild" \in Late /\ "append" \in Late /\ "append" \in Steps /\ "append" \notin Found
  BY DEF Late, Found, Steps
<1>3. Encoded(held[c].data) \in Content
  BY <1>1, <1>2, LateFacts DEF Writes
<1>4. QED
  BY <1>1, <1>2, <1>3, WritesKeepTypes

\* Appending to a file without a cut last line.
LEMMA AppendedContent ==
  ASSUME NEW rows \in Histories, NEW torn \in BOOLEAN,
         file["primary"] \in Content, ~file["primary"].torn
  PROVE  /\ Appended(rows, torn) \in Content
         /\ Appended(rows, torn).data = Over(rows, file["primary"].data)
         /\ Appended(rows, torn).lines = file["primary"].lines + Cardinality(DOMAIN rows)
         /\ Cardinality(DOMAIN rows) \in Nat
<1> DEFINE primary == file["primary"]
           both == Over(rows, primary.data)
           n == primary.lines + Cardinality(DOMAIN rows)
<1>1. IsFiniteSet(DOMAIN rows) /\ Cardinality(DOMAIN rows) \in Nat
  BY HistoryType, HoursFinite
<1>2. /\ primary.data \in Histories /\ primary.lines \in Nat
      /\ primary # Missing /\ primary # Damaged
      /\ Cardinality(DOMAIN primary.data) <= primary.lines
  BY ContentParts
<1>3. both \in Histories /\ DOMAIN both = DOMAIN rows \cup DOMAIN primary.data
  BY <1>2, OverType
<1>4. IsFiniteSet(DOMAIN primary.data) /\ Cardinality(DOMAIN primary.data) \in Nat
  BY <1>2, HistoryType, HoursFinite
<1>5. Cardinality(DOMAIN both) <= n /\ n \in Nat
  <2>1. IsFiniteSet(DOMAIN rows \cap DOMAIN primary.data)
        /\ Cardinality(DOMAIN rows \cap DOMAIN primary.data) \in Nat
    BY <1>1, FS_Intersection, FS_CardinalityType
  <2>2. Cardinality(DOMAIN both)
          = Cardinality(DOMAIN rows) + Cardinality(DOMAIN primary.data)
              - Cardinality(DOMAIN rows \cap DOMAIN primary.data)
    BY <1>1, <1>3, <1>4, FS_Union
  <2>3. QED
    BY <1>1, <1>2, <1>4, <2>1, <2>2
<1>6. Appended(rows, torn) = [data |-> both, lines |-> n, torn |-> torn]
  BY <1>2 DEF Appended
<1> HIDE DEF both, n
<1>7. [data |-> both, lines |-> n, torn |-> torn] \in Content
  BY <1>3, <1>5 DEF Content
<1>8. QED
  BY <1>1, <1>6, <1>7 DEF both, n

LEMMA AppendedType ==
  ASSUME TypeInv, NEW rows \in Histories, NEW torn \in BOOLEAN
  PROVE  Appended(rows, torn) \in {Damaged} \cup Content
<1>1. Cardinality(DOMAIN rows) \in Nat
  BY HistoryType, HoursFinite
<1>2. CASE file["primary"] = Missing
  BY <1>1, <1>2 DEF Appended, Content
<1>3. CASE file["primary"] = Damaged
  BY <1>1, <1>3 DEF Appended, Content
<1>4. CASE file["primary"] \in Content /\ ~file["primary"].torn
  BY <1>4, AppendedContent
<1>5. CASE file["primary"] \in Content /\ file["primary"].torn
  BY <1>5, ContentParts DEF Appended
<1>6. QED
  BY <1>2, <1>3, <1>4, <1>5 DEF TypeInv

LEMMA AppendTypes ==
  ASSUME TypeInv, NEW c \in Clients, Append(c)
  PROVE  TypeInv'
<1> DEFINE rows == Bridged(held[c].data, batch[c])
           content == Appended(rows, FALSE)
           merged == Merged(held[c].data, batch[c])
<1>1. /\ pc[c] = "append" /\ UNCHANGED <<legacy, batch, held>>
      /\ file' = [file EXCEPT !["primary"] = content]
      /\ \/ Goto(c, "compact-backup") /\ UNCHANGED <<answer, ghosts>>
         \/ Return(c, merged) /\ Acknowledge(c)
  BY DEF Append
<1>2. pc[c] \in Late
  BY <1>1 DEF Late
<1>3. rows \in Histories /\ merged \in Histories /\ batch[c] \in Batch
  BY <1>2, LateFacts
<1>4. content \in {Damaged} \cup Content
  BY <1>3, AppendedType
<1> HIDE DEF rows, content, merged
<1>5. file' \in [Files -> {Missing, Damaged} \cup Content]
  BY <1>1, <1>4 DEF TypeInv
<1>6. CASE Goto(c, "compact-backup") /\ UNCHANGED <<answer, ghosts>>
  <2>1. "compact-backup" \in Steps /\ "compact-backup" \in Late \ Found
    BY DEF Late, Found, Steps
  <2>2. QED
    BY <1>1, <1>2, <1>5, <1>6, <2>1, GotoTypes
<1>7. CASE Return(c, merged) /\ Acknowledge(c)
  BY <1>1, <1>3, <1>5, <1>7, SavedTypes
<1>8. QED
  BY <1>1, <1>6, <1>7

\* The death of the process ends every call.
LEMMA DeathTypes ==
  ASSUME TypeInv, pc' = [c \in Clients |-> "idle"],
         UNCHANGED <<legacy, batch, held, answer, ghosts>>,
         file' \in [Files -> {Missing, Damaged} \cup Content]
  PROVE  TypeInv'
<1>1. \A d \in Clients : Knows(d)'
  BY DEF Knows, Late, Found
<1>2. QED
  BY <1>1 DEF TypeInv, GhostTypes, ghosts, Steps

LEMMA CutTypes ==
  ASSUME TypeInv, NEW c \in Clients, NEW hour, NEW torn \in BOOLEAN, Cut(c, hour, torn)
  PROVE  TypeInv'
<1> DEFINE rows == Bridged(held[c].data, batch[c])
           written == {h \in DOMAIN rows : h < hour}
           part == [h \in written |-> rows[h]]
           content == Appended(part, torn)
<1>1. /\ pc[c] = "append" /\ UNCHANGED <<legacy, batch, held, ghosts>>
      /\ file' = [file EXCEPT !["primary"] = content]
      /\ \/ Raise(c)
         \/ pc' = [d \in Clients |-> "idle"] /\ UNCHANGED answer
  BY DEF Cut
<1>2. rows \in Histories
  BY <1>1, LateFacts DEF Late
<1> HIDE DEF rows
<1>3. part \in Histories
  <2>1. written \in SUBSET Hours /\ written \subseteq DOMAIN rows
    BY <1>2, HistoryType
  <2>2. part \in [written -> Values]
    BY <1>2, <2>1, HistoryType
  <2>3. QED
    BY <2>1, <2>2 DEF Histories
<1> HIDE DEF part
<1>4. content \in {Damaged} \cup Content
  BY <1>3, AppendedType
<1> HIDE DEF content
<1>5. file' \in [Files -> {Missing, Damaged} \cup Content]
  BY <1>1, <1>4 DEF TypeInv
<1>6. CASE Raise(c)
  BY <1>1, <1>5, <1>6, RaiseTypes
<1>7. CASE pc' = [d \in Clients |-> "idle"] /\ UNCHANGED answer
  BY <1>1, <1>5, <1>7, DeathTypes
<1>8. QED
  BY <1>1, <1>6, <1>7

LEMMA CompactBackupTypes ==
  ASSUME TypeInv, NEW c \in Clients, CompactBackup(c)
  PROVE  TypeInv'
<1>1. Writes(c, "compact-backup", "backup", Encoded(held[c].data), "compact-primary")
  BY DEF CompactBackup
<1>2. "compact-backup" \in Late /\ "compact-primary" \in Late /\ "compact-primary" \in Steps
      /\ "compact-primary" \notin Found
  BY DEF Late, Found, Steps
<1>3. Encoded(held[c].data) \in Content
  BY <1>1, <1>2, LateFacts DEF Writes
<1>4. QED
  BY <1>1, <1>2, <1>3, WritesKeepTypes

LEMMA CompactPrimaryTypes ==
  ASSUME TypeInv, NEW c \in Clients, CompactPrimary(c)
  PROVE  TypeInv'
<1> DEFINE merged == Merged(held[c].data, batch[c])
           content == Encoded(merged)
<1>1. /\ pc[c] = "compact-primary" /\ UNCHANGED <<legacy, batch, held>>
      /\ file' \in {file, [file EXCEPT !["primary"] = content]}
      /\ \/ Return(c, merged) /\ Acknowledge(c)
         \/ Raise(c) /\ UNCHANGED ghosts
  BY DEF CompactPrimary
<1>2. merged \in Histories /\ batch[c] \in Batch
  BY <1>1, LateFacts DEF Late
<1>3. content \in Content
  BY <1>2, EncodedType
<1> HIDE DEF content, merged
<1>4. file' \in [Files -> {Missing, Damaged} \cup Content]
  BY <1>1, <1>3, ReplacedType
<1>5. CASE Return(c, merged) /\ Acknowledge(c)
  BY <1>1, <1>2, <1>4, <1>5, SavedTypes
<1>6. CASE Raise(c) /\ UNCHANGED ghosts
  BY <1>1, <1>4, <1>6, RaiseTypes
<1>7. QED
  BY <1>1, <1>5, <1>6

LEMMA DamageTypes ==
  ASSUME TypeInv, NEW f \in Files, Damage(f)
  PROVE  TypeInv'
<1>1. /\ damage' = damage + 1 /\ wounds' = wounds + 1
      /\ file' = [file EXCEPT ![f] = Damaged]
      /\ UNCHANGED <<legacy, pc, batch, held, answer, saves, allowed, acked>>
  BY DEF Damage, clientVars
<1>2. \A d \in Clients : Knows(d)'
  BY <1>1 DEF TypeInv, Knows
<1>3. QED
  BY <1>1, <1>2 DEF TypeInv, GhostTypes

-----------------------------------------------------------------------------
LEMMA TypesInit == Init => TypeInv
<1> SUFFICES ASSUME Init PROVE TypeInv
  OBVIOUS
<1> DEFINE nothing == [h \in {} |-> Unavailable]
           present == IF \E f \in Files : ValidLegacy(f) THEN LegacyCurrent ELSE nothing
           next(h) == IF h \in DOMAIN present THEN {present[h]} ELSE {Unavailable}
<1>1. nothing \in Histories /\ Encoded(nothing) \in Content
  BY Nothing, EncodedType
<1>2. legacy \in [Files -> LegacyContents]
  BY LegacyAssumption DEF Init
<1>3. \A f \in Files : ValidLegacy(f) => legacy[f] \in Histories
  BY <1>2 DEF ValidLegacy, LegacyContents
<1>4. present \in Histories
  BY <1>1, <1>3 DEF LegacyCurrent
<1>5. /\ held = [c \in Clients |-> Encoded(nothing)]
      /\ acked = DOMAIN present /\ allowed = [h \in Hours |-> next(h)]
      /\ saves = 0 /\ damage = 0 /\ wounds = 0
  BY DEF Init
<1> HIDE DEF present, nothing
<1>6. \A h \in Hours : next(h) \in SUBSET Values
  BY <1>4, HistoryType DEF Values
<1> HIDE DEF next
<1>7. GhostTypes
  BY <1>4, <1>5, <1>6, HistoryType DEF GhostTypes
<1>8. \A c \in Clients : Knows(c)
  BY DEF Init, Knows, Late, Found
<1>9. QED
  BY <1>1, <1>2, <1>5, <1>7, <1>8 DEF Init, TypeInv, Steps

LEMMA TypesStep == TypeInv /\ [Next]_vars => TypeInv'
<1> SUFFICES ASSUME TypeInv, [Next]_vars PROVE TypeInv'
  OBVIOUS
<1>1. ASSUME NEW c \in Clients, LoadStep(c) PROVE TypeInv'
  BY <1>1, BeginLoadTypes, LoadPrimaryTypes, LoadBackupTypes, RestoreTypes,
     LoadLegacyTypes, MigrateBackupTypes, MigratePrimaryTypes, UnlinkTypes DEF LoadStep
<1>2. ASSUME NEW c \in Clients, SaveStep(c) PROVE TypeInv'
  BY <1>2, BeginSaveTypes, FirstBackupTypes, FirstPrimaryTypes, TidyBackupTypes,
     TidyPrimaryTypes, CheckBackupTypes, RebuildTypes, AppendTypes, CutTypes,
     CompactBackupTypes, CompactPrimaryTypes DEF SaveStep
<1>3. ASSUME NEW c \in Clients, ReadFails(c) PROVE TypeInv'
  <2>1. Raise(c) /\ UNCHANGED <<file, legacy, batch, held, ghosts>>
    BY <1>3 DEF ReadFails
  <2>2. file' \in [Files -> {Missing, Damaged} \cup Content]
    BY <2>1 DEF TypeInv
  <2>3. QED
    BY <2>1, <2>2, RaiseTypes
<1>4. ASSUME Crash PROVE TypeInv'
  <2>1. /\ pc' = [c \in Clients |-> "idle"]
        /\ UNCHANGED <<file, legacy, batch, held, answer, ghosts>>
    BY <1>4 DEF Crash
  <2>2. file' \in [Files -> {Missing, Damaged} \cup Content]
    BY <2>1 DEF TypeInv
  <2>3. QED
    BY <2>1, <2>2, DeathTypes
<1>5. ASSUME UNCHANGED vars PROVE TypeInv'
  <2>1. UNCHANGED <<file, legacy, pc, batch, held, answer, saves, allowed, acked, damage,
                    wounds>>
    BY <1>5 DEF vars, clientVars, ghosts
  <2>2. QED
    BY <2>1 DEF TypeInv, GhostTypes, Knows
<1>6. QED
  BY <1>1, <1>2, <1>3, <1>4, <1>5, DamageTypes DEF Next

\* Whatever fails, dies or is damaged, and however the calls of several clients
\* interleave, the store keeps its types, and what a client appends to or compacts
\* can be merged with its save and is within the retention (household_load_store.py).
THEOREM HouseholdTypeCorrect == Spec => []TypeOK
<1>1. Init => TypeInv
  BY TypesInit
<1>2. TypeInv /\ [Next]_vars => TypeInv'
  BY TypesStep
<1>3. TypeInv => TypeOK
  BY TypeInvImplies
<1>4. QED
  BY <1>1, <1>2, <1>3, PTL DEF Spec

-----------------------------------------------------------------------------
(* Retention and contiguity. *)

LEMMA AboveParts ==
  ASSUME NEW S \in SUBSET Hours, NEW T \in SUBSET S, NEW h \in Nat
  PROVE  /\ Cardinality(Above(T, h)) \in Nat /\ Cardinality(Above(S, h)) \in Nat
         /\ Cardinality(Above(T, h)) <= Cardinality(Above(S, h))
<1>1. Above(T, h) \subseteq Above(S, h) /\ T \in SUBSET Hours
  BY DEF Above
<1>2. IsFiniteSet(Above(S, h)) /\ IsFiniteSet(Above(T, h))
  BY <1>1, AboveFacts
<1>3. QED
  BY <1>1, <1>2, FS_Subset, FS_CardinalityType

\* Hours that the retention drops do not matter for what is retained later.
LEMMA NewestOfUnion ==
  ASSUME NEW D \in SUBSET Hours, NEW W \in SUBSET Hours
  PROVE  Newest(D \cup W) = Newest(Newest(D) \cup W)
<1> DEFINE E == D \cup W
           F == Newest(D) \cup W
<1>1. Newest(D) \subseteq D /\ E \in SUBSET Hours /\ F \in SUBSET E /\ E \subseteq Nat
  BY NewestFacts, HoursFinite
<1>2. ASSUME NEW h \in Newest(E) PROVE h \in Newest(F)
  <2>1. h \in E /\ Cardinality(Above(E, h)) < MaxValues /\ h \in Nat
    BY <1>1, NewestMember
  <2>2. h \in F
    <3>1. CASE h \in D
      <4>1. D \in SUBSET E
        OBVIOUS
      <4>2. /\ Cardinality(Above(D, h)) <= Cardinality(Above(E, h))
            /\ Cardinality(Above(D, h)) \in Nat /\ Cardinality(Above(E, h)) \in Nat
        BY <1>1, <2>1, <4>1, AboveParts
      <4>3. h \in Newest(D)
        BY <2>1, <3>1, <4>2, NewestMember, Numbers
      <4>4. QED
        BY <4>3
    <3>2. QED
      BY <2>1, <3>1
  <2>3. /\ Cardinality(Above(F, h)) <= Cardinality(Above(E, h))
        /\ Cardinality(Above(F, h)) \in Nat /\ Cardinality(Above(E, h)) \in Nat
    BY <1>1, <2>1, AboveParts
  <2> HIDE DEF E, F
  <2>4. Cardinality(Above(F, h)) < MaxValues
    BY <2>1, <2>3, Numbers
  <2>5. F \in SUBSET Hours
    BY <1>1
  <2>6. QED
    BY <2>2, <2>4, <2>5, NewestMember
<1>3. ASSUME NEW h \in Newest(F) PROVE h \in Newest(E)
  <2>1. h \in F /\ Cardinality(Above(F, h)) < MaxValues /\ h \in Nat /\ h \in E
    BY <1>1, NewestMember
  <2>2. CASE \E d \in D \ Newest(D) : d > h
    <3> DEFINE dropped == D \ Newest(D)
    <3>1. PICK d \in dropped : \A k \in dropped : k <= d
      <4>1. dropped \in SUBSET Hours /\ dropped # {}
        BY <2>2
      <4>2. QED
        BY <4>1, LastHour
    <3>2. d \in Nat /\ d > h /\ d \in D /\ D \subseteq Nat
      <4>1. D \subseteq Nat /\ d \in D
        BY <3>1, HoursFinite
      <4>2. PICK e \in dropped : e > h
        BY <2>2
      <4>3. e \in Nat /\ e <= d
        BY <3>1, <4>1, <4>2
      <4>4. QED
        BY <2>1, <4>1, <4>2, <4>3
    <3>3. ~(Cardinality(Above(D, d)) < MaxValues)
      BY <3>1, NewestMember
    <3>4. Above(D, d) \subseteq Above(F, h)
      <4>1. ASSUME NEW k \in Above(D, d) PROVE k \in Above(F, h)
        <5>1. k \in D /\ k > d /\ k \in Nat
          BY <3>2 DEF Above
        <5>2. k \in Newest(D)
          BY <3>1, <3>2, <5>1
        <5>3. QED
          BY <2>1, <3>2, <5>1, <5>2 DEF Above
      <4>2. QED
        BY <4>1
    <3>5. IsFiniteSet(Above(F, h)) /\ Cardinality(Above(F, h)) \in Nat
      BY <1>1, <2>1, AboveFacts
    <3>6. /\ Cardinality(Above(D, d)) <= Cardinality(Above(F, h))
          /\ Cardinality(Above(D, d)) \in Nat
      BY <3>4, <3>5, FS_Subset, FS_CardinalityType
    <3>7. QED
      BY <2>1, <3>3, <3>5, <3>6, Numbers
  <2>3. CASE ~\E d \in D \ Newest(D) : d > h
    <3>1. Above(E, h) = Above(F, h)
      BY <1>1, <2>3 DEF Above
    <3>2. QED
      BY <1>1, <2>1, <3>1, NewestMember
  <2>4. QED
    BY <2>2, <2>3
<1>4. QED
  BY <1>2, <1>3

LEMMA NewestTwice ==
  ASSUME NEW S \in SUBSET Hours
  PROVE  Newest(Newest(S)) = Newest(S)
<1>1. Newest(S \cup {}) = Newest(Newest(S) \cup {})
  BY NewestOfUnion
<1>2. S \cup {} = S /\ Newest(S) \cup {} = Newest(S)
  OBVIOUS
<1>3. QED
  BY <1>1, <1>2

LEMMA NewestContiguous ==
  ASSUME NEW S \in SUBSET Hours, Contiguous(S)
  PROVE  Contiguous(Newest(S))
<1>1. Newest(S) \subseteq S /\ S \subseteq Nat
  BY NewestFacts, HoursFinite
<1>2. ASSUME NEW g \in Newest(S), NEW h \in Newest(S), NEW k \in g..h
      PROVE  k \in Newest(S)
  <2>1. g \in S /\ h \in S /\ g \in Nat /\ h \in Nat
    BY <1>1
  <2>2. k \in S
    BY <2>1 DEF Contiguous
  <2>3. k = g \/ k > g
    BY <2>1
  <2>4. QED
    BY <2>2, <2>3, NewestFacts
<1>3. QED
  BY <1>2 DEF Contiguous

\* The first hours of what a save appends continue the history.
LEMMA AppendContiguous ==
  ASSUME NEW history \in Histories, NEW b \in Batch, NEW limit \in Nat,
         Contiguous(DOMAIN history), \E h \in DOMAIN history : h <= b.first
  PROVE  Contiguous(DOMAIN history
                      \cup {k \in (b.first..b.last) \cup Gap(history, b) : k < limit})
<1> DEFINE N == DOMAIN history
           W == {k \in (b.first..b.last) \cup Gap(history, b) : k < limit}
<1>1. PICK n \in N : n <= b.first
  OBVIOUS
<1>2. /\ b.first \in Nat /\ b.last \in Nat /\ b.first..b.last \in SUBSET Hours
      /\ N \in SUBSET Hours /\ N \subseteq Nat
  <2>1. b.first \in Hours /\ b.last \in Hours
    BY RowsType
  <2>2. QED
    BY <2>1, HistoryType, HoursFinite, Numbers DEF Hours
<1>3. W \subseteq Nat /\ W \subseteq Hours
  BY <1>2, Numbers DEF Gap, Hours
<1>4. ASSUME NEW g \in N \cup W, NEW h \in N \cup W, NEW k \in g..h
      PROVE  k \in N \cup W
  <2>1. g \in Nat /\ h \in Nat /\ k \in Nat /\ g <= k /\ k <= h /\ h \in Hours /\ k \in Hours
    BY <1>2, <1>3, Numbers DEF Hours
  <2>2. \E m \in N : m <= k
    <3>1. CASE g \in N
      BY <2>1, <3>1
    <3>2. CASE g \in b.first..b.last
      BY <1>1, <1>2, <2>1, <3>2
    <3>3. CASE g \in Gap(history, b)
      <4>1. n < g
        BY <1>1, <3>3 DEF Gap
      <4>2. QED
        BY <1>1, <1>2, <2>1, <4>1
    <3>4. QED
      BY <3>1, <3>2, <3>3
  <2>3. CASE \E m \in N : k <= m
    <3>1. PICK l \in N, m \in N : l <= k /\ k <= m
      BY <2>2, <2>3
    <3>2. k \in l..m
      BY <1>2, <2>1, <3>1
    <3>3. QED
      BY <3>1, <3>2 DEF Contiguous
  <2>4. CASE ~\E m \in N : k <= m
    <3>1. \A m \in N : m < k
      BY <1>2, <2>1, <2>4
    <3>2. h \in W /\ k < limit
      BY <1>2, <2>1, <2>4
    <3>3. CASE k < b.first
      BY <2>1, <3>1, <3>2, <3>3 DEF Gap
    <3>4. CASE ~(k < b.first)
      <4>1. h \notin Gap(history, b)
        BY <1>2, <2>1, <3>4 DEF Gap
      <4>2. h \in b.first..b.last
        BY <3>2, <4>1
      <4>3. k \in b.first..b.last
        BY <1>2, <2>1, <3>4, <4>2
      <4>4. QED
        BY <3>2, <4>3
    <3>5. QED
      BY <3>3, <3>4
  <2>5. QED
    BY <2>3, <2>4
<1>5. QED
  BY <1>4 DEF Contiguous

-----------------------------------------------------------------------------
(* What a single client relies on. *)

OneClient == \A c, d \in Clients : c = d

\* The set of hours of a file that can be read.
Sound(S) == S # {} /\ Contiguous(Newest(S))

\* The save of the client does not start before the hours S do.
Continues(c, S) == batch[c] # NoBatch => \E h \in Newest(S) : h <= batch[c].first

Loading == {"load-primary", "load-backup"}
NewFile == {"migrate-backup", "migrate-primary", "first-backup", "first-primary"}
Backed == {"restore", "migrate-primary", "first-primary", "unlink", "tidy-primary",
           "append", "compact-backup", "compact-primary"}

\* What a single client can rely on at its step.
Relies(c) ==
  /\ pc[c] \in Loading =>
       \A f \in Files : Valid(file[f]) => Continues(c, DOMAIN file[f].data)
  /\ pc[c] \in Loading \cup {"load-legacy"} =>
       \A f \in Files : ValidLegacy(f) => Continues(c, DOMAIN legacy[f])
  /\ pc[c] \in NewFile \cup {"load-legacy"} => file["primary"] = Missing
  /\ pc[c] = "load-legacy" => file["backup"] = Missing
  /\ pc[c] \in Backed => Valid(file["backup"])
  /\ pc[c] \in Late \cup {"unlink"} => Valid(file["primary"])
  /\ pc[c] \in Late \cup Found => /\ Sound(DOMAIN held[c].data)
                                  /\ Continues(c, DOMAIN held[c].data)
  /\ pc[c] = "unlink" => file["primary"] = held[c]
  /\ pc[c] \in {"migrate-backup", "migrate-primary"} => ~held[c].torn
  /\ pc[c] \in Late => Newest(DOMAIN held[c].data) = DOMAIN held[c].data
  /\ pc[c] \in {"check-backup", "rebuild", "append"} =>
       /\ ~file["primary"].torn
       /\ Bounded(file["primary"].data) = held[c].data
       /\ file["primary"].lines <= held[c].lines

\* Both files can be read, and one of them after a damage.
FilesRemain ==
  file["primary"] # Missing =>
    /\ wounds <= 1 => \E f \in Files : Valid(file[f])
    /\ wounds = 0 => \A f \in Files : Valid(file[f])

RemainInv == TypeInv /\ FilesRemain /\ \A c \in Clients : Relies(c)

LEMMA SoundFacts ==
  ASSUME NEW S \in SUBSET Hours, Sound(S)
  PROVE  /\ Sound(Newest(S)) /\ Newest(Newest(S)) = Newest(S)
         /\ Newest(S) # {} /\ Newest(S) \in SUBSET Hours /\ Contiguous(Newest(S))
BY NewestFacts, NewestTwice DEF Sound

LEMMA ContentValid ==
  ASSUME NEW content \in Content
  PROVE  Valid(content) <=> Sound(DOMAIN content.data)
BY ContentParts DEF Valid, Sound

LEMMA EncodedValid ==
  ASSUME NEW history \in Histories, Sound(DOMAIN history)
  PROVE  Encoded(history) \in Content /\ Valid(Encoded(history))
BY EncodedType, ContentValid

LEMMA IdleRelies ==
  ASSUME NEW c, pc'[c] = "idle"
  PROVE  Relies(c)'
BY DEF Relies, Loading, NewFile, Backed, Late, Found

LEMMA BothValid ==
  ASSUME Valid(file'["primary"]), Valid(file'["backup"])
  PROVE  FilesRemain'
BY DEF FilesRemain

LEMMA SameFiles ==
  ASSUME FilesRemain, UNCHANGED <<file, wounds>>
  PROVE  FilesRemain'
BY DEF FilesRemain

LEMMA Replaced ==
  ASSUME FilesRemain, TypeInv, NEW f \in Files, NEW content, Valid(content),
         file' \in {file, [file EXCEPT ![f] = content]}, wounds' = wounds,
         f = "primary" => Valid(file["backup"]) \/ file["primary"] # Missing
  PROVE  FilesRemain'
<1>1. CASE file' = file
  BY <1>1, SameFiles
<1>2. CASE file' = [file EXCEPT ![f] = content]
  <2>1. file'[f] = content /\ \A g \in Files \ {f} : file'[g] = file[g]
    BY <1>2 DEF TypeInv
  <2>2. CASE f = "backup"
    <3>1. file'["primary"] = file["primary"] /\ Valid(file'["backup"])
      BY <2>1, <2>2
    <3>2. QED
      BY <3>1 DEF FilesRemain
  <2>3. CASE f = "primary"
    <3>1. file'["backup"] = file["backup"] /\ Valid(file'["primary"])
      BY <2>1, <2>3
    <3>2. wounds = 0 => Valid(file["backup"])
      BY <2>3 DEF FilesRemain
    <3>3. QED
      BY <3>1, <3>2 DEF FilesRemain
  <2>4. QED
    BY <2>2, <2>3
<1>3. QED
  BY <1>1, <1>2

LEMMA BoundedTwice ==
  ASSUME NEW history \in Histories, Newest(DOMAIN history) = DOMAIN history
  PROVE  Bounded(history) = history
BY HistoryType DEF Bounded

\* A read history is what the primary holds.
LEMMA LoadedRelies ==
  ASSUME TypeInv, NEW c \in Clients, NEW content \in Content,
         Sound(DOMAIN content.data), Continues(c, DOMAIN content.data),
         Loaded(c, content), UNCHANGED batch, pc[c] # "idle", Relies(c),
         Valid(file'["primary"]), ~content.torn => ~file'["primary"].torn,
         Bounded(file'["primary"].data) = Bounded(content.data),
         file'["primary"].lines <= content.lines
  PROVE  Relies(c)'
<1> DEFINE history == Bounded(content.data)
           loaded == [content EXCEPT !.data = history]
           N == Newest(DOMAIN content.data)
<1>1. content.data \in Histories /\ DOMAIN content.data \in SUBSET Hours
  BY ContentParts, HistoryType
<1>2. history \in Histories /\ DOMAIN history = N
  BY <1>1, BoundedType
<1>3. Sound(N) /\ Newest(N) = N
  BY <1>1, SoundFacts
<1>4. loaded.data = history /\ loaded.lines = content.lines
  BY BoundedContent
<1>5. /\ held' = [held EXCEPT ![c] = loaded]
      /\ \/ pc' = [pc EXCEPT ![c] = "idle"]
         \/ pc' = [pc EXCEPT ![c] = IF content.torn THEN "tidy-backup" ELSE "check-backup"]
  BY DEF Loaded, Return, Raise, Goto
<1> HIDE DEF history, loaded
<1>6. held'[c].data = history /\ held'[c].lines = content.lines
  BY <1>4, <1>5 DEF TypeInv
<1>7. Continues(c, N)'
  BY <1>3 DEF Continues
<1>8. CASE pc'[c] = "idle"
  BY <1>8, IdleRelies
<1>9. CASE pc'[c] = "tidy-backup"
  <2> HIDE DEF N
  <2>1. QED
    BY <1>2, <1>3, <1>6, <1>7, <1>9 DEF Relies, Loading, NewFile, Backed, Late, Found
<1>10. CASE pc'[c] = "check-backup"
  <2>1. ~content.torn
    BY <1>5, <1>10 DEF TypeInv
  <2>2. Bounded(file'["primary"].data) = history
    BY DEF history
  <2> HIDE DEF N
  <2>3. QED
    BY <1>2, <1>3, <1>6, <1>7, <1>10, <2>1, <2>2
    DEF Relies, Loading, NewFile, Backed, Late, Found
<1>11. QED
  BY <1>5, <1>8, <1>9, <1>10 DEF TypeInv

LEMMA WritesRemain ==
  ASSUME TypeInv, FilesRemain, NEW c \in Clients, NEW step, NEW f \in Files,
         NEW content \in Content, NEW next \in Steps, Writes(c, step, f, content, next),
         Valid(content),
         f = "primary" => Valid(file["backup"]) \/ file["primary"] # Missing
  PROVE  FilesRemain'
<1>1. file' \in {file, [file EXCEPT ![f] = content]} /\ wounds' = wounds
  BY DEF Writes, ghosts
<1>2. QED
  BY <1>1, Replaced

-----------------------------------------------------------------------------
(* Every action keeps the files readable for a single client. *)

LEMMA BeginLoadRemains ==
  ASSUME RemainInv, NEW c \in Clients, BeginLoad(c)
  PROVE  FilesRemain' /\ Relies(c)'
<1>1. FilesRemain'
  BY SameFiles DEF BeginLoad, RemainInv, ghosts
<1>2. pc'[c] = "load-primary" /\ batch'[c] = NoBatch
  BY DEF BeginLoad, Goto, RemainInv, TypeInv
<1>3. Relies(c)'
  BY <1>2 DEF Relies, Continues, Loading, NewFile, Backed, Late, Found
<1>4. QED
  BY <1>1, <1>3

LEMMA BeginSaveRemains ==
  ASSUME RemainInv, ~Backfills, NEW c \in Clients, NEW first \in Hours,
         NEW last \in Hours, BeginSave(c, first, last)
  PROVE  FilesRemain' /\ Relies(c)'
<1>1. FilesRemain'
  BY SameFiles DEF BeginSave, RemainInv
<1>2. /\ pc'[c] = "load-primary" /\ UNCHANGED <<file, legacy>>
      /\ batch'[c] = [first |-> first, last |-> last, value |-> saves + 1]
      /\ \A f \in Files :
           /\ Valid(file[f]) => \E h \in Newest(DOMAIN file[f].data) : h <= first
           /\ ValidLegacy(f) => \E h \in Newest(DOMAIN legacy[f]) : h <= first
  BY DEF BeginSave, Goto, RemainInv, TypeInv
<1>3. batch'[c].first = first /\ batch'[c].last = last
  BY <1>2
<1>4. \A f \in Files :
        /\ Valid(file[f])' => Continues(c, DOMAIN file[f].data)'
        /\ ValidLegacy(f)' => Continues(c, DOMAIN legacy[f])'
  BY <1>2, <1>3 DEF Continues, ValidLegacy
<1>5. Relies(c)'
  BY <1>2, <1>3, <1>4 DEF Relies, Loading, NewFile, Backed, Late, Found
<1>6. QED
  BY <1>1, <1>5

LEMMA LoadPrimaryRemains ==
  ASSUME RemainInv, NEW c \in Clients, LoadPrimary(c)
  PROVE  FilesRemain' /\ Relies(c)'
<1>1. /\ pc[c] = "load-primary" /\ UNCHANGED <<file, legacy, batch, wounds>>
      /\ TypeInv /\ FilesRemain /\ Relies(c)
  BY DEF LoadPrimary, RemainInv, ghosts
<1>2. FilesRemain'
  BY <1>1, SameFiles
<1>3. CASE Valid(file["primary"]) /\ Loaded(c, file["primary"])
  <2>1. file["primary"] \in Content
    BY <1>1, <1>3, ValidContent
  <2>2. Sound(DOMAIN file["primary"].data)
    BY <1>3, <2>1, ContentValid
  <2>3. Continues(c, DOMAIN file["primary"].data)
    BY <1>1, <1>3 DEF Relies, Loading
  <2>4. file'["primary"].lines <= file["primary"].lines
    BY <1>1, <2>1, ContentParts
  <2>5. Relies(c)'
    BY <1>1, <1>3, <2>1, <2>2, <2>3, <2>4, LoadedRelies
  <2>6. QED
    BY <1>2, <2>5
<1>4. CASE Goto(c, "load-backup") /\ UNCHANGED <<held, answer>>
  <2>1. pc'[c] = "load-backup"
    BY <1>1, <1>4 DEF Goto, TypeInv
  <2>2. Relies(c)'
    BY <1>1, <2>1
    DEF Relies, Continues, ValidLegacy, Loading, NewFile, Backed, Late, Found
  <2>3. QED
    BY <1>2, <2>2
<1>5. QED
  BY <1>3, <1>4 DEF LoadPrimary

LEMMA LoadBackupRemains ==
  ASSUME RemainInv, NEW c \in Clients, LoadBackup(c)
  PROVE  FilesRemain' /\ Relies(c)'
<1>1. /\ pc[c] = "load-backup" /\ UNCHANGED <<file, legacy, batch, wounds>>
      /\ TypeInv /\ FilesRemain /\ Relies(c)
  BY DEF LoadBackup, RemainInv, ghosts
<1>2. FilesRemain'
  BY <1>1, SameFiles
<1>3. CASE /\ Valid(file["backup"])
           /\ held' = [held EXCEPT ![c] = file["backup"]]
           /\ Goto(c, "restore")
  <2>1. pc'[c] = "restore" /\ held'[c] = file["backup"]
    BY <1>1, <1>3 DEF Goto, TypeInv
  <2>2. file["backup"] \in Content
    BY <1>1, <1>3, ValidContent
  <2>3. Sound(DOMAIN file["backup"].data)
    BY <1>3, <2>2, ContentValid
  <2>4. Continues(c, DOMAIN file["backup"].data)
    BY <1>1, <1>3 DEF Relies, Loading
  <2>5. Continues(c, DOMAIN held[c].data)'
    BY <1>1, <2>1, <2>4 DEF Continues
  <2>6. Sound(DOMAIN held[c].data)' /\ Valid(file["backup"])'
    BY <1>1, <1>3, <2>1, <2>3
  <2>7. Relies(c)'
    BY <1>1, <2>1, <2>5, <2>6 DEF Relies, Loading, NewFile, Backed, Late, Found
  <2>8. QED
    BY <1>2, <2>7
<1>4. CASE \A f \in Files : file[f] = Missing /\ Goto(c, "load-legacy")
  <2>1. pc'[c] = "load-legacy"
    BY <1>1, <1>4 DEF Goto, TypeInv
  <2>2. Relies(c)'
    BY <1>1, <1>4, <2>1
    DEF Relies, Continues, ValidLegacy, Loading, NewFile, Backed, Late, Found
  <2>3. QED
    BY <1>2, <2>2
<1>5. CASE Raise(c)
  <2>1. pc'[c] = "idle"
    BY <1>1, <1>5 DEF Raise, Goto, TypeInv
  <2>2. QED
    BY <1>2, <2>1, IdleRelies
<1>6. QED
  BY <1>3, <1>4, <1>5 DEF LoadBackup

LEMMA RestoredPrimary ==
  ASSUME TypeInv, NEW c \in Clients, Relies(c), pc[c] = "restore",
         NEW restored, restored = Encoded(Bounded(held[c].data))
  PROVE  /\ restored \in Content /\ Valid(restored) /\ ~restored.torn
         /\ Bounded(restored.data) = Bounded(held[c].data)
         /\ restored.lines <= held[c].lines
<1> DEFINE N == Newest(DOMAIN held[c].data)
<1>1. Sound(DOMAIN held[c].data)
  BY DEF Relies, Found
<1>2. /\ held[c] \in Content /\ held[c].data \in Histories
      /\ DOMAIN held[c].data \in SUBSET Hours
  BY ContentParts, HistoryType DEF TypeInv
<1>3. Bounded(held[c].data) \in Histories /\ DOMAIN Bounded(held[c].data) = N
  BY <1>2, BoundedType
<1>4. Sound(N) /\ Newest(N) = N
  BY <1>1, <1>2, SoundFacts
<1>5. Cardinality(N) <= held[c].lines
  BY <1>2, BoundedContent
<1> HIDE DEF N
<1>6. /\ restored \in Content /\ Valid(restored) /\ ~restored.torn
      /\ restored.data = Bounded(held[c].data) /\ restored.lines = Cardinality(N)
  BY <1>3, <1>4, EncodedValid, EncodedType
<1>7. Bounded(Bounded(held[c].data)) = Bounded(held[c].data)
  BY <1>3, <1>4, BoundedTwice
<1>8. QED
  BY <1>5, <1>6, <1>7

LEMMA RestoreRemains ==
  ASSUME RemainInv, NEW c \in Clients, Restore(c)
  PROVE  FilesRemain' /\ Relies(c)'
<1> DEFINE restored == Encoded(Bounded(held[c].data))
<1>1. /\ pc[c] = "restore" /\ UNCHANGED <<legacy, batch, wounds>>
      /\ TypeInv /\ FilesRemain /\ Relies(c)
      /\ \/ file' = [file EXCEPT !["primary"] = restored] /\ Loaded(c, held[c])
         \/ file' \in {file, [file EXCEPT !["primary"] = restored]} /\ Raise(c)
  BY DEF Restore, RemainInv, ghosts
<1>2. /\ Sound(DOMAIN held[c].data) /\ Continues(c, DOMAIN held[c].data)
      /\ Valid(file["backup"])
  BY <1>1 DEF Relies, Found, Backed
<1>3. /\ restored \in Content /\ Valid(restored) /\ ~restored.torn
      /\ Bounded(restored.data) = Bounded(held[c].data)
      /\ restored.lines <= held[c].lines
  BY <1>1, RestoredPrimary
<1> HIDE DEF restored
<1>4. FilesRemain'
  BY <1>1, <1>2, <1>3, Replaced
<1>5. CASE file' = [file EXCEPT !["primary"] = restored] /\ Loaded(c, held[c])
  <2>1. file'["primary"] = restored /\ held[c] \in Content
    BY <1>1, <1>5 DEF TypeInv
  <2>2. Relies(c)'
    BY <1>1, <1>2, <1>3, <1>5, <2>1, LoadedRelies
  <2>3. QED
    BY <1>4, <2>2
<1>6. CASE Raise(c)
  <2>1. pc'[c] = "idle"
    BY <1>1, <1>6 DEF Raise, Goto, TypeInv
  <2>2. QED
    BY <1>4, <2>1, IdleRelies
<1>7. QED
  BY <1>1, <1>5, <1>6

\* The history that is migrated can be read and goes before the save.
LEMMA LegacySound ==
  ASSUME TypeInv, NEW c \in Clients, \E f \in Files : ValidLegacy(f),
         \A f \in Files : ValidLegacy(f) => Continues(c, DOMAIN legacy[f])
  PROVE  /\ Bounded(LegacyCurrent) \in Histories
         /\ Sound(DOMAIN Bounded(LegacyCurrent))
         /\ Continues(c, DOMAIN Bounded(LegacyCurrent))
<1>1. PICK f \in Files : ValidLegacy(f) /\ LegacyCurrent = legacy[f]
  BY DEF LegacyCurrent
<1>2. /\ legacy[f] \in Histories /\ DOMAIN legacy[f] # {}
      /\ Contiguous(DOMAIN legacy[f])
  BY <1>1 DEF TypeInv, ValidLegacy, LegacyContents
<1>3. DOMAIN legacy[f] \in SUBSET Hours
  BY <1>2, HistoryType
<1>4. Sound(DOMAIN legacy[f])
  BY <1>2, <1>3, NewestContiguous DEF Sound
<1>5. /\ Bounded(legacy[f]) \in Histories
      /\ DOMAIN Bounded(legacy[f]) = Newest(DOMAIN legacy[f])
  BY <1>2, BoundedType
<1>6. Sound(Newest(DOMAIN legacy[f]))
      /\ Newest(Newest(DOMAIN legacy[f])) = Newest(DOMAIN legacy[f])
  BY <1>3, <1>4, SoundFacts
<1>7. QED
  BY <1>1, <1>5, <1>6 DEF Continues

LEMMA LegacyBackupSound ==
  ASSUME TypeInv, ValidLegacy("backup")
  PROVE  Bounded(LegacyBackup) \in Histories /\ Sound(DOMAIN Bounded(LegacyBackup))
<1>1. LegacyBackup = legacy["backup"]
  BY DEF LegacyBackup
<1>2. /\ legacy["backup"] \in Histories /\ DOMAIN legacy["backup"] # {}
      /\ Contiguous(DOMAIN legacy["backup"])
  BY DEF TypeInv, ValidLegacy, LegacyContents
<1>3. DOMAIN legacy["backup"] \in SUBSET Hours
  BY <1>2, HistoryType
<1>4. Sound(DOMAIN legacy["backup"])
  BY <1>2, <1>3, NewestContiguous DEF Sound
<1>5. QED
  BY <1>1, <1>2, <1>3, <1>4, SoundFacts, BoundedType

LEMMA LoadLegacyRemains ==
  ASSUME RemainInv, NEW c \in Clients, LoadLegacy(c)
  PROVE  FilesRemain' /\ Relies(c)'
<1>1. /\ pc[c] = "load-legacy" /\ UNCHANGED <<file, legacy, batch, wounds>>
      /\ TypeInv /\ FilesRemain /\ Relies(c)
  BY DEF LoadLegacy, RemainInv, ghosts
<1>2. FilesRemain'
  BY <1>1, SameFiles
<1>3. file["primary"] = Missing
  BY <1>1 DEF Relies
<1>4. CASE (\E f \in Files : ValidLegacy(f)) /\ Goto(c, "migrate-backup")
  <2> DEFINE current == Bounded(LegacyCurrent)
  <2>1. \A f \in Files : ValidLegacy(f) => Continues(c, DOMAIN legacy[f])
    BY <1>1 DEF Relies
  <2>2. current \in Histories /\ Sound(DOMAIN current) /\ Continues(c, DOMAIN current)
    BY <1>1, <1>4, <2>1, LegacySound
  <2>3. pc'[c] = "migrate-backup" /\ held'[c] = Encoded(current)
    BY <1>1, <1>4 DEF LoadLegacy, Goto, TypeInv
  <2> HIDE DEF current
  <2>4. held'[c].data = current /\ ~held'[c].torn
    BY <2>2, <2>3, EncodedType
  <2>5. Continues(c, DOMAIN held[c].data)' /\ Sound(DOMAIN held[c].data)'
    BY <1>1, <2>2, <2>4 DEF Continues
  <2>6. Relies(c)'
    BY <1>1, <1>3, <2>3, <2>4, <2>5 DEF Relies, Loading, NewFile, Backed, Late, Found
  <2>7. QED
    BY <1>2, <2>6
<1>5. CASE Goto(c, "first-backup")
  <2>1. pc'[c] = "first-backup"
    BY <1>1, <1>5 DEF Goto, TypeInv
  <2>2. Relies(c)'
    BY <1>1, <1>3, <2>1 DEF Relies, Loading, NewFile, Backed, Late, Found
  <2>3. QED
    BY <1>2, <2>2
<1>6. CASE Goto(c, "idle")
  <2>1. pc'[c] = "idle"
    BY <1>1, <1>6 DEF Goto, TypeInv
  <2>2. QED
    BY <1>2, <2>1, IdleRelies
<1>7. QED
  BY <1>4, <1>5, <1>6 DEF LoadLegacy, Raise, Return

LEMMA MigrateBackupRemains ==
  ASSUME RemainInv, NEW c \in Clients, MigrateBackup(c)
  PROVE  FilesRemain' /\ Relies(c)'
<1> DEFINE data == IF ValidLegacy("backup") THEN Bounded(LegacyBackup) ELSE held[c].data
           content == Encoded(data)
<1>1. /\ Writes(c, "migrate-backup", "backup", content, "migrate-primary")
      /\ TypeInv /\ FilesRemain /\ Relies(c)
  BY DEF MigrateBackup, RemainInv
<1>2. pc[c] = "migrate-backup"
  BY <1>1 DEF Writes
<1>3. /\ file["primary"] = Missing /\ ~held[c].torn
      /\ Sound(DOMAIN held[c].data) /\ Continues(c, DOMAIN held[c].data)
  BY <1>1, <1>2 DEF Relies, NewFile, Found
<1>4. data \in Histories /\ Sound(DOMAIN data)
  <2>1. held[c].data \in Histories
    BY <1>1, ContentParts DEF TypeInv
  <2>2. QED
    BY <1>1, <1>3, <2>1, LegacyBackupSound
<1> HIDE DEF data
<1>5. content \in Content /\ Valid(content)
  BY <1>4, EncodedValid
<1> HIDE DEF content
<1>6. "migrate-primary" \in Steps
  BY DEF Steps
<1>7. FilesRemain'
  BY <1>1, <1>5, <1>6, WritesRemain
<1>8. /\ pc'[c] \in {"migrate-primary", "idle"}
      /\ pc'[c] # "idle" => file'["backup"] = content
      /\ file'["primary"] = file["primary"] /\ UNCHANGED <<legacy, batch, held>>
  BY <1>1, <1>5, <1>6, WritesStep
<1>9. CASE pc'[c] = "migrate-primary"
  <2>1. Continues(c, DOMAIN held[c].data)' /\ Sound(DOMAIN held[c].data)'
    BY <1>3, <1>8 DEF Continues
  <2>2. Valid(file["backup"])' /\ file'["primary"] = Missing /\ ~held'[c].torn
    BY <1>3, <1>5, <1>8, <1>9
  <2>4. Relies(c)'
    BY <1>9, <2>1, <2>2 DEF Relies, Loading, NewFile, Backed, Late, Found
  <2>5. QED
    BY <1>7, <2>4
<1>10. QED
  BY <1>7, <1>8, <1>9, IdleRelies

LEMMA MigratePrimaryRemains ==
  ASSUME RemainInv, NEW c \in Clients, MigratePrimary(c)
  PROVE  FilesRemain' /\ Relies(c)'
<1>1. /\ Writes(c, "migrate-primary", "primary", held[c], "unlink")
      /\ TypeInv /\ FilesRemain /\ Relies(c)
  BY DEF MigratePrimary, RemainInv
<1>2. pc[c] = "migrate-primary"
  BY <1>1 DEF Writes
<1>3. /\ Valid(file["backup"]) /\ Sound(DOMAIN held[c].data)
      /\ Continues(c, DOMAIN held[c].data)
  BY <1>1, <1>2 DEF Relies, Backed, Found
<1>4. held[c] \in Content
  BY <1>1 DEF TypeInv
<1>5. Valid(held[c])
  BY <1>3, <1>4, ContentValid
<1>6. "unlink" \in Steps
  BY DEF Steps
<1>7. FilesRemain'
  BY <1>1, <1>3, <1>4, <1>5, <1>6, WritesRemain
<1>8. /\ pc'[c] \in {"unlink", "idle"}
      /\ pc'[c] # "idle" => file'["primary"] = held[c]
      /\ file'["backup"] = file["backup"] /\ UNCHANGED <<legacy, batch, held>>
  BY <1>1, <1>4, <1>6, WritesStep
<1>9. CASE pc'[c] = "unlink"
  <2>1. Continues(c, DOMAIN held[c].data)' /\ Sound(DOMAIN held[c].data)'
    BY <1>3, <1>8 DEF Continues
  <2>2. /\ Valid(file["backup"])' /\ Valid(file["primary"])'
        /\ file'["primary"] = held'[c]
    BY <1>3, <1>5, <1>8, <1>9
  <2>4. Relies(c)'
    BY <1>9, <2>1, <2>2 DEF Relies, Loading, NewFile, Backed, Late, Found
  <2>5. QED
    BY <1>7, <2>4
<1>10. QED
  BY <1>7, <1>8, <1>9, IdleRelies

LEMMA UnlinkRemains ==
  ASSUME RemainInv, NEW c \in Clients, Unlink(c)
  PROVE  FilesRemain' /\ Relies(c)'
<1>1. /\ pc[c] = "unlink" /\ UNCHANGED <<file, batch, wounds>>
      /\ TypeInv /\ FilesRemain /\ Relies(c)
  BY DEF Unlink, RemainInv, ghosts
<1>2. FilesRemain'
  BY <1>1, SameFiles
<1>3. CASE Loaded(c, held[c])
  <2>1. /\ Sound(DOMAIN held[c].data) /\ Continues(c, DOMAIN held[c].data)
        /\ Valid(file["primary"]) /\ file["primary"] = held[c]
    BY <1>1 DEF Relies, Found
  <2>2. held[c] \in Content
    BY <1>1 DEF TypeInv
  <2>3. /\ Valid(file'["primary"]) /\ (~held[c].torn => ~file'["primary"].torn)
        /\ Bounded(file'["primary"].data) = Bounded(held[c].data)
        /\ file'["primary"].lines <= held[c].lines
    BY <1>1, <2>1, <2>2, ContentParts
  <2>4. Relies(c)'
    BY <1>1, <1>3, <2>1, <2>2, <2>3, LoadedRelies
  <2>5. QED
    BY <1>2, <2>4
<1>4. CASE Raise(c)
  <2>1. pc'[c] = "idle"
    BY <1>1, <1>4 DEF Raise, Goto, TypeInv
  <2>2. QED
    BY <1>2, <2>1, IdleRelies
<1>5. QED
  BY <1>3, <1>4 DEF Unlink

LEMMA RowsSound ==
  ASSUME NEW b \in Batch
  PROVE  /\ Rows(b) \in Histories /\ Sound(DOMAIN Rows(b))
         /\ Encoded(Rows(b)) \in Content /\ Valid(Encoded(Rows(b)))
<1>1. /\ Rows(b) \in Histories /\ DOMAIN Rows(b) = b.first..b.last
      /\ b.first \in Hours /\ b.last \in Hours /\ b.first <= b.last
  BY RowsType
<1>2. b.first \in Nat /\ b.last \in Nat /\ b.first..b.last \in SUBSET Hours
  BY <1>1, Numbers DEF Hours
<1>3. b.first..b.last # {}
  BY <1>1, <1>2
<1>4. Contiguous(b.first..b.last)
  BY <1>2 DEF Contiguous
<1>5. Sound(b.first..b.last)
  BY <1>2, <1>3, <1>4, NewestContiguous, NewestFacts DEF Sound
<1>6. QED
  BY <1>1, <1>5, EncodedValid

LEMMA FirstBackupRemains ==
  ASSUME RemainInv, NEW c \in Clients, FirstBackup(c)
  PROVE  FilesRemain' /\ Relies(c)'
<1> DEFINE content == Encoded(Rows(batch[c]))
<1>1. /\ Writes(c, "first-backup", "backup", content, "first-primary")
      /\ TypeInv /\ FilesRemain /\ Relies(c)
  BY DEF FirstBackup, RemainInv
<1>2. pc[c] = "first-backup"
  BY <1>1 DEF Writes
<1>3. batch[c] \in Batch /\ file["primary"] = Missing
  BY <1>1, <1>2, DistinctAssumption DEF Relies, NewFile, TypeInv, Knows
<1>4. content \in Content /\ Valid(content)
  BY <1>3, RowsSound
<1> HIDE DEF content
<1>5. "first-primary" \in Steps
  BY DEF Steps
<1>6. FilesRemain'
  BY <1>1, <1>4, <1>5, WritesRemain
<1>7. /\ pc'[c] \in {"first-primary", "idle"}
      /\ pc'[c] # "idle" => file'["backup"] = content
      /\ file'["primary"] = file["primary"] /\ UNCHANGED <<legacy, batch, held>>
  BY <1>1, <1>4, <1>5, WritesStep
<1>8. CASE pc'[c] = "first-primary"
  <2>1. /\ Valid(file["backup"])' /\ file'["primary"] = Missing
    BY <1>3, <1>4, <1>7, <1>8
  <2>2. Relies(c)'
    BY <1>8, <2>1 DEF Relies, Loading, NewFile, Backed, Late, Found
  <2>3. QED
    BY <1>6, <2>2
<1>9. QED
  BY <1>6, <1>7, <1>8, IdleRelies

LEMMA FirstPrimaryRemains ==
  ASSUME RemainInv, NEW c \in Clients, FirstPrimary(c)
  PROVE  FilesRemain' /\ Relies(c)'
<1> DEFINE content == Encoded(Rows(batch[c]))
<1>1. /\ pc[c] = "first-primary" /\ TypeInv /\ FilesRemain /\ Relies(c)
      /\ \/ /\ file' = [file EXCEPT !["primary"] = content]
            /\ Return(c, Rows(batch[c])) /\ Acknowledge(c)
         \/ /\ file' \in {file, [file EXCEPT !["primary"] = content]}
            /\ Raise(c) /\ UNCHANGED ghosts
  BY DEF FirstPrimary, RemainInv
<1>2. /\ batch[c] \in Batch
      /\ Valid(file["backup"])
  BY <1>1, DistinctAssumption DEF Relies, Backed, TypeInv, Knows
<1>3. content \in Content /\ Valid(content)
  BY <1>2, RowsSound
<1> HIDE DEF content
<1>4. pc'[c] = "idle"
  BY <1>1 DEF Return, Raise, Goto, TypeInv
<1>5. CASE file' = [file EXCEPT !["primary"] = content]
  <2>1. Valid(file'["primary"]) /\ Valid(file'["backup"])
    BY <1>1, <1>2, <1>3, <1>5 DEF TypeInv
  <2>2. QED
    BY <1>4, <2>1, BothValid, IdleRelies
<1>6. CASE file' \in {file, [file EXCEPT !["primary"] = content]} /\ UNCHANGED ghosts
  <2>1. wounds' = wounds
    BY <1>6 DEF ghosts
  <2>2. FilesRemain'
    BY <1>1, <1>2, <1>3, <1>6, <2>1, Replaced
  <2>3. QED
    BY <1>4, <2>2, IdleRelies
<1>7. QED
  BY <1>1, <1>5, <1>6

\* What a save past its load relies on.
LEMMA LateRelies ==
  ASSUME TypeInv, NEW c \in Clients, Relies(c), pc[c] \in Late
  PROVE  /\ batch[c] \in Batch
         /\ held[c].data \in Histories /\ DOMAIN held[c].data \in SUBSET Hours
         /\ Sound(DOMAIN held[c].data) /\ Continues(c, DOMAIN held[c].data)
         /\ Newest(DOMAIN held[c].data) = DOMAIN held[c].data
         /\ Valid(file["primary"]) /\ file["primary"] # Missing
         /\ Encoded(held[c].data) \in Content /\ Valid(Encoded(held[c].data))
<1>1. batch[c] \in Batch /\ batch[c] # NoBatch /\ pc[c] # "idle"
  BY DistinctAssumption DEF TypeInv, Knows, Late
<1>2. held[c].data \in Histories /\ DOMAIN held[c].data \in SUBSET Hours
  BY LateFacts, HistoryType
<1>3. /\ Sound(DOMAIN held[c].data) /\ Continues(c, DOMAIN held[c].data)
      /\ Newest(DOMAIN held[c].data) = DOMAIN held[c].data
      /\ Valid(file["primary"])
  BY <1>1 DEF Relies
<1>4. file["primary"] # Missing
  BY <1>3 DEF Valid
<1>5. QED
  BY <1>1, <1>2, <1>3, <1>4, EncodedValid

LEMMA TidyBackupRemains ==
  ASSUME RemainInv, NEW c \in Clients, TidyBackup(c)
  PROVE  FilesRemain' /\ Relies(c)'
<1> DEFINE content == Encoded(held[c].data)
<1>1. /\ Writes(c, "tidy-backup", "backup", content, "tidy-primary")
      /\ TypeInv /\ FilesRemain /\ Relies(c)
  BY DEF TidyBackup, RemainInv
<1>2. pc[c] = "tidy-backup" /\ pc[c] \in Late
  BY <1>1 DEF Writes, Late
<1>3. /\ Sound(DOMAIN held[c].data) /\ Continues(c, DOMAIN held[c].data)
      /\ Newest(DOMAIN held[c].data) = DOMAIN held[c].data
      /\ Valid(file["primary"]) /\ content \in Content /\ Valid(content)
  BY <1>1, <1>2, LateRelies
<1> HIDE DEF content
<1>4. "tidy-primary" \in Steps
  BY DEF Steps
<1>5. FilesRemain'
  BY <1>1, <1>3, <1>4, WritesRemain
<1>6. /\ pc'[c] \in {"tidy-primary", "idle"}
      /\ pc'[c] # "idle" => file'["backup"] = content
      /\ file'["primary"] = file["primary"] /\ UNCHANGED <<legacy, batch, held>>
  BY <1>1, <1>3, <1>4, WritesStep
<1>7. CASE pc'[c] = "tidy-primary"
  <2>1. /\ Valid(file["backup"])' /\ Valid(file["primary"])'
        /\ Sound(DOMAIN held[c].data)' /\ Continues(c, DOMAIN held[c].data)'
        /\ Newest(DOMAIN held'[c].data) = DOMAIN held'[c].data
    BY <1>3, <1>6, <1>7 DEF Continues
  <2>2. Relies(c)'
    BY <1>7, <2>1 DEF Relies, Loading, NewFile, Backed, Late, Found
  <2>3. QED
    BY <1>5, <2>2
<1>8. QED
  BY <1>5, <1>6, <1>7, IdleRelies

LEMMA TidyPrimaryRemains ==
  ASSUME RemainInv, NEW c \in Clients, TidyPrimary(c)
  PROVE  FilesRemain' /\ Relies(c)'
<1> DEFINE tidy == Encoded(held[c].data)
<1>1. /\ pc[c] = "tidy-primary" /\ UNCHANGED <<legacy, batch, wounds>>
      /\ TypeInv /\ FilesRemain /\ Relies(c)
      /\ file' \in {file, [file EXCEPT !["primary"] = tidy]}
      /\ \/ /\ file' = [file EXCEPT !["primary"] = tidy]
            /\ held' = [held EXCEPT ![c] = tidy] /\ Goto(c, "check-backup")
         \/ Raise(c)
  BY DEF TidyPrimary, RemainInv, ghosts
<1>2. pc[c] \in Late
  BY <1>1 DEF Late
<1>3. /\ held[c].data \in Histories
      /\ Sound(DOMAIN held[c].data) /\ Continues(c, DOMAIN held[c].data)
      /\ Newest(DOMAIN held[c].data) = DOMAIN held[c].data
      /\ Valid(file["primary"]) /\ file["primary"] # Missing
      /\ tidy \in Content /\ Valid(tidy)
  BY <1>1, <1>2, LateRelies
<1>4. tidy.data = held[c].data /\ ~tidy.torn
  BY <1>3, EncodedType
<1> HIDE DEF tidy
<1>5. FilesRemain'
  BY <1>1, <1>3, Replaced
<1>6. CASE /\ file' = [file EXCEPT !["primary"] = tidy]
           /\ held' = [held EXCEPT ![c] = tidy] /\ Goto(c, "check-backup")
  <2>1. pc'[c] = "check-backup" /\ held'[c] = tidy /\ file'["primary"] = tidy
    BY <1>1, <1>6 DEF Goto, TypeInv
  <2>2. /\ Valid(file["primary"])' /\ ~file'["primary"].torn
        /\ Sound(DOMAIN held[c].data)' /\ Continues(c, DOMAIN held[c].data)'
        /\ Newest(DOMAIN held'[c].data) = DOMAIN held'[c].data
        /\ Bounded(file'["primary"].data) = held'[c].data
        /\ file'["primary"].lines <= held'[c].lines
    BY <1>1, <1>3, <1>4, <2>1, BoundedTwice, ContentParts DEF Continues
  <2>3. Relies(c)'
    BY <2>1, <2>2 DEF Relies, Loading, NewFile, Backed, Late, Found
  <2>4. QED
    BY <1>5, <2>3
<1>7. CASE Raise(c)
  <2>1. pc'[c] = "idle"
    BY <1>1, <1>7 DEF Raise, Goto, TypeInv
  <2>2. QED
    BY <1>5, <2>1, IdleRelies
<1>8. QED
  BY <1>1, <1>6, <1>7

LEMMA CheckBackupRemains ==
  ASSUME RemainInv, NEW c \in Clients, CheckBackup(c)
  PROVE  FilesRemain' /\ Relies(c)'
<1>1. /\ pc[c] = "check-backup" /\ UNCHANGED <<file, legacy, batch, held, wounds>>
      /\ TypeInv /\ FilesRemain /\ Relies(c)
      /\ Goto(c, IF Valid(file["backup"]) THEN "append" ELSE "rebuild")
  BY DEF CheckBackup, RemainInv, ghosts
<1>2. FilesRemain'
  BY <1>1, SameFiles
<1>3. /\ pc'[c] \in {"append", "rebuild"}
      /\ pc'[c] = "append" => Valid(file["backup"])
  BY <1>1 DEF Goto, TypeInv
<1>4. Relies(c)'
  BY <1>1, <1>3 DEF Relies, Continues, Loading, NewFile, Backed, Late, Found
<1>5. QED
  BY <1>2, <1>4

LEMMA RebuildRemains ==
  ASSUME RemainInv, NEW c \in Clients, Rebuild(c)
  PROVE  FilesRemain' /\ Relies(c)'
<1> DEFINE content == Encoded(held[c].data)
<1>1. /\ Writes(c, "rebuild", "backup", content, "append")
      /\ TypeInv /\ FilesRemain /\ Relies(c)
  BY DEF Rebuild, RemainInv
<1>2. pc[c] = "rebuild" /\ pc[c] \in Late
  BY <1>1 DEF Writes, Late
<1>3. /\ Sound(DOMAIN held[c].data) /\ Continues(c, DOMAIN held[c].data)
      /\ Newest(DOMAIN held[c].data) = DOMAIN held[c].data
      /\ Valid(file["primary"]) /\ content \in Content /\ Valid(content)
  BY <1>1, <1>2, LateRelies
<1>4. /\ ~file["primary"].torn /\ Bounded(file["primary"].data) = held[c].data
      /\ file["primary"].lines <= held[c].lines
  BY <1>1, <1>2 DEF Relies
<1> HIDE DEF content
<1>5. "append" \in Steps
  BY DEF Steps
<1>6. FilesRemain'
  BY <1>1, <1>3, <1>5, WritesRemain
<1>7. /\ pc'[c] \in {"append", "idle"}
      /\ pc'[c] # "idle" => file'["backup"] = content
      /\ file'["primary"] = file["primary"] /\ UNCHANGED <<legacy, batch, held>>
  BY <1>1, <1>3, <1>5, WritesStep
<1>8. CASE pc'[c] = "append"
  <2>1. /\ Valid(file["backup"])' /\ Valid(file["primary"])'
        /\ Sound(DOMAIN held[c].data)' /\ Continues(c, DOMAIN held[c].data)'
        /\ Newest(DOMAIN held'[c].data) = DOMAIN held'[c].data
        /\ ~file'["primary"].torn
        /\ Bounded(file'["primary"].data) = held'[c].data
        /\ file'["primary"].lines <= held'[c].lines
    BY <1>3, <1>4, <1>7, <1>8 DEF Continues
  <2>2. Relies(c)'
    BY <1>8, <2>1 DEF Relies, Loading, NewFile, Backed, Late, Found
  <2>3. QED
    BY <1>6, <2>2
<1>9. QED
  BY <1>6, <1>7, <1>8, IdleRelies

\* The primary stays readable whatever part of an append reached it.
LEMMA AppendedValid ==
  ASSUME TypeInv, NEW c \in Clients, Relies(c), pc[c] = "append", NEW limit \in Nat,
         NEW torn \in BOOLEAN, NEW rows \in Histories,
         DOMAIN rows = {k \in DOMAIN Bridged(held[c].data, batch[c]) : k < limit}
  PROVE  Appended(rows, torn) \in Content /\ Valid(Appended(rows, torn))
<1> DEFINE primary == file["primary"]
           D == DOMAIN primary.data
           N == DOMAIN held[c].data
           W == DOMAIN rows
<1>1. /\ batch[c] \in Batch /\ held[c].data \in Histories /\ Sound(N)
      /\ Continues(c, N) /\ Newest(N) = N /\ Valid(primary)
  BY LateRelies DEF Late
<1>2. primary \in Content /\ primary # Missing /\ primary # Damaged
  BY <1>1, ValidContent DEF Valid
<1>3. ~primary.torn /\ Bounded(primary.data) = held[c].data
  BY DEF Relies
<1>4. /\ primary.data \in Histories /\ D \in SUBSET Hours /\ W \in SUBSET Hours
      /\ Newest(D) = N
  BY <1>2, <1>3, ContentParts, HistoryType, BoundedType
<1>5. Over(rows, primary.data) \in Histories /\ DOMAIN Over(rows, primary.data) = W \cup D
  BY <1>4, OverType
<1>6. Sound(D)
  BY <1>1, <1>2, ContentValid
<1>7. Contiguous(N \cup W)
  <2>1. Contiguous(N)
    BY <1>1 DEF Sound
  <2>2. \E h \in N : h <= batch[c].first
    BY <1>1, DistinctAssumption DEF Continues
  <2>3. W = {k \in (batch[c].first..batch[c].last) \cup Gap(held[c].data, batch[c]) :
               k < limit}
    BY <1>1, BridgedType
  <2>4. QED
    BY <1>1, <2>1, <2>2, <2>3, AppendContiguous
<1>8. Sound(W \cup D)
  <2>1. Newest(D \cup W) = Newest(N \cup W)
    BY <1>4, NewestOfUnion
  <2>2. N \cup W \in SUBSET Hours
    BY <1>1, <1>4, HistoryType
  <2>3. Contiguous(Newest(N \cup W))
    BY <1>7, <2>2, NewestContiguous
  <2>4. W \cup D = D \cup W /\ D # {}
    BY <1>6 DEF Sound
  <2>5. QED
    BY <2>1, <2>3, <2>4 DEF Sound
<1>9. /\ Appended(rows, torn) \in Content
      /\ Appended(rows, torn).data = Over(rows, primary.data)
  BY <1>2, <1>3, AppendedContent
<1> HIDE DEF primary, D, N, W
<1>10. QED
  BY <1>5, <1>8, <1>9, ContentValid

LEMMA AppendRemains ==
  ASSUME RemainInv, NEW c \in Clients, Append(c)
  PROVE  FilesRemain' /\ Relies(c)'
<1> DEFINE rows == Bridged(held[c].data, batch[c])
           content == Appended(rows, FALSE)
<1>1. /\ pc[c] = "append" /\ UNCHANGED <<legacy, batch, held>>
      /\ TypeInv /\ FilesRemain /\ Relies(c)
      /\ file' = [file EXCEPT !["primary"] = content]
      /\ Goto(c, "compact-backup") \/ Goto(c, "idle")
  BY DEF Append, Return, RemainInv
<1>2. /\ batch[c] \in Batch
      /\ held[c].data \in Histories
      /\ Sound(DOMAIN held[c].data) /\ Continues(c, DOMAIN held[c].data)
      /\ Newest(DOMAIN held[c].data) = DOMAIN held[c].data
  BY <1>1, LateRelies DEF Late
<1>3. rows \in Histories /\ DOMAIN rows \in SUBSET Hours
  BY <1>2, BridgedType, HistoryType
<1>4. DOMAIN rows = {k \in DOMAIN rows : k < MaxHour + 1} /\ MaxHour + 1 \in Nat
  BY <1>3, Numbers DEF Hours
<1>5. Valid(content)
  BY <1>1, <1>3, <1>4, AppendedValid
<1>6. Valid(file["backup"])
  BY <1>1 DEF Relies, Backed
<1> HIDE DEF rows, content
<1>7. Valid(file'["primary"]) /\ Valid(file'["backup"])
  BY <1>1, <1>5, <1>6 DEF TypeInv
<1>8. FilesRemain'
  BY <1>7, BothValid
<1>9. CASE Goto(c, "compact-backup")
  <2>1. pc'[c] = "compact-backup"
    BY <1>1, <1>9 DEF Goto, TypeInv
  <2>2. /\ Sound(DOMAIN held[c].data)' /\ Continues(c, DOMAIN held[c].data)'
        /\ Newest(DOMAIN held'[c].data) = DOMAIN held'[c].data
    BY <1>1, <1>2 DEF Continues
  <2>3. Relies(c)'
    BY <1>7, <2>1, <2>2 DEF Relies, Loading, NewFile, Backed, Late, Found
  <2>4. QED
    BY <1>8, <2>3
<1>10. CASE Goto(c, "idle")
  <2>1. pc'[c] = "idle"
    BY <1>1, <1>10 DEF Goto, TypeInv
  <2>2. QED
    BY <1>8, <2>1, IdleRelies
<1>11. QED
  BY <1>1, <1>9, <1>10

LEMMA CutRemains ==
  ASSUME RemainInv, NEW c \in Clients, NEW hour \in Nat, NEW torn \in BOOLEAN,
         Cut(c, hour, torn)
  PROVE  FilesRemain' /\ Relies(c)'
<1> DEFINE rows == Bridged(held[c].data, batch[c])
           written == {h \in DOMAIN rows : h < hour}
           part == [h \in written |-> rows[h]]
           content == Appended(part, torn)
<1>1. /\ pc[c] = "append" /\ TypeInv /\ FilesRemain /\ Relies(c)
      /\ file' = [file EXCEPT !["primary"] = content]
      /\ Raise(c) \/ pc' = [d \in Clients |-> "idle"]
  BY DEF Cut, RemainInv
<1>2. batch[c] \in Batch /\ held[c].data \in Histories
  BY <1>1, LateRelies DEF Late
<1>3. rows \in Histories
  BY <1>2, BridgedType
<1>4. part \in Histories /\ DOMAIN part = written
  <2> HIDE DEF rows
  <2>1. written \in SUBSET Hours /\ part \in [written -> Values]
    BY <1>3, HistoryType
  <2>2. QED
    BY <2>1 DEF Histories
<1>5. DOMAIN part = {k \in DOMAIN rows : k < hour}
  BY <1>4
<1> HIDE DEF part
<1>6. Valid(content)
  BY <1>1, <1>4, <1>5, AppendedValid
<1>7. Valid(file["backup"])
  BY <1>1 DEF Relies, Backed
<1> HIDE DEF content
<1>8. Valid(file'["primary"]) /\ Valid(file'["backup"])
  BY <1>1, <1>6, <1>7 DEF TypeInv
<1>9. pc'[c] = "idle"
  BY <1>1 DEF Raise, Goto, TypeInv
<1>10. QED
  BY <1>8, <1>9, BothValid, IdleRelies

LEMMA CompactBackupRemains ==
  ASSUME RemainInv, NEW c \in Clients, CompactBackup(c)
  PROVE  FilesRemain' /\ Relies(c)'
<1> DEFINE content == Encoded(held[c].data)
<1>1. /\ Writes(c, "compact-backup", "backup", content, "compact-primary")
      /\ TypeInv /\ FilesRemain /\ Relies(c)
  BY DEF CompactBackup, RemainInv
<1>2. pc[c] = "compact-backup" /\ pc[c] \in Late
  BY <1>1 DEF Writes, Late
<1>3. /\ Sound(DOMAIN held[c].data) /\ Continues(c, DOMAIN held[c].data)
      /\ Newest(DOMAIN held[c].data) = DOMAIN held[c].data
      /\ Valid(file["primary"]) /\ content \in Content /\ Valid(content)
  BY <1>1, <1>2, LateRelies
<1> HIDE DEF content
<1>4. "compact-primary" \in Steps
  BY DEF Steps
<1>5. FilesRemain'
  BY <1>1, <1>3, <1>4, WritesRemain
<1>6. /\ pc'[c] \in {"compact-primary", "idle"}
      /\ pc'[c] # "idle" => file'["backup"] = content
      /\ file'["primary"] = file["primary"] /\ UNCHANGED <<legacy, batch, held>>
  BY <1>1, <1>3, <1>4, WritesStep
<1>7. CASE pc'[c] = "compact-primary"
  <2>1. /\ Valid(file["backup"])' /\ Valid(file["primary"])'
        /\ Sound(DOMAIN held[c].data)' /\ Continues(c, DOMAIN held[c].data)'
        /\ Newest(DOMAIN held'[c].data) = DOMAIN held'[c].data
    BY <1>3, <1>6, <1>7 DEF Continues
  <2>2. Relies(c)'
    BY <1>7, <2>1 DEF Relies, Loading, NewFile, Backed, Late, Found
  <2>3. QED
    BY <1>5, <2>2
<1>8. QED
  BY <1>5, <1>6, <1>7, IdleRelies

\* What a save compacts to can be read.
LEMMA MergedSound ==
  ASSUME TypeInv, NEW c \in Clients, Relies(c), pc[c] = "compact-primary"
  PROVE  /\ Sound(DOMAIN Merged(held[c].data, batch[c]))
         /\ Merged(held[c].data, batch[c]) \in Histories
<1> DEFINE merged == Merged(held[c].data, batch[c])
           S == (batch[c].first..batch[c].last) \cup Gap(held[c].data, batch[c])
                  \cup DOMAIN held[c].data
<1>1. /\ batch[c] \in Batch /\ held[c].data \in Histories
      /\ DOMAIN held[c].data \in SUBSET Hours /\ Sound(DOMAIN held[c].data)
  BY LateRelies DEF Late
<1>2. merged \in Histories /\ DOMAIN merged = Newest(S)
  BY <1>1, MergedType
<1>3. DOMAIN merged \in SUBSET Hours
  BY <1>2, HistoryType
<1>4. Contiguous(DOMAIN merged)
  BY DEF TypeInv, Knows, Mergeable, Late
<1>5. S \in SUBSET Hours /\ S # {}
  <2>1. DOMAIN Rows(batch[c]) \in SUBSET Hours
        /\ DOMAIN Rows(batch[c]) = batch[c].first..batch[c].last
    BY <1>1, RowsType, HistoryType
  <2>2. QED
    BY <1>1, <2>1 DEF Gap, Sound
<1> HIDE DEF S
<1>6. DOMAIN merged # {}
  BY <1>2, <1>5, NewestFacts
<1> HIDE DEF merged
<1>7. Contiguous(Newest(DOMAIN merged))
  BY <1>3, <1>4, NewestContiguous
<1>8. QED
  BY <1>2, <1>6, <1>7 DEF Sound, merged

LEMMA CompactPrimaryRemains ==
  ASSUME RemainInv, NEW c \in Clients, CompactPrimary(c)
  PROVE  FilesRemain' /\ Relies(c)'
<1> DEFINE merged == Merged(held[c].data, batch[c])
           content == Encoded(merged)
<1>1. /\ pc[c] = "compact-primary" /\ TypeInv /\ FilesRemain /\ Relies(c)
      /\ file' \in {file, [file EXCEPT !["primary"] = content]}
      /\ Raise(c) \/ Return(c, merged)
  BY DEF CompactPrimary, RemainInv
<1>2. pc[c] \in Late
  BY <1>1 DEF Late
<1>3. /\ batch[c] \in Batch /\ held[c].data \in Histories /\ Valid(file["primary"])
      /\ DOMAIN held[c].data \in SUBSET Hours /\ Sound(DOMAIN held[c].data)
  BY <1>1, <1>2, LateRelies
<1>4. Valid(file["backup"])
  BY <1>1 DEF Relies, Backed
<1>5. Sound(DOMAIN merged) /\ merged \in Histories
  BY <1>1, <1>3, MergedSound
<1> HIDE DEF merged
<1>6. Valid(content)
  BY <1>5, EncodedValid
<1> HIDE DEF content
<1>7. Valid(file'["primary"]) /\ Valid(file'["backup"])
  BY <1>1, <1>3, <1>4, <1>6 DEF TypeInv
<1>8. pc'[c] = "idle"
  BY <1>1 DEF Raise, Return, Goto, TypeInv
<1>9. QED
  BY <1>7, <1>8, BothValid, IdleRelies

LEMMA ReadFailsRemains ==
  ASSUME RemainInv, NEW c \in Clients, ReadFails(c)
  PROVE  FilesRemain' /\ Relies(c)'
<1>1. UNCHANGED <<file, wounds>> /\ pc'[c] = "idle" /\ FilesRemain
  BY DEF ReadFails, Raise, Goto, RemainInv, TypeInv, ghosts
<1>2. QED
  BY <1>1, SameFiles, IdleRelies

LEMMA CrashRemains ==
  ASSUME RemainInv, Crash
  PROVE  FilesRemain' /\ \A c \in Clients : Relies(c)'
<1>1. UNCHANGED <<file, wounds>> /\ FilesRemain
  BY DEF Crash, RemainInv, ghosts
<1>2. \A c \in Clients : pc'[c] = "idle"
  BY DEF Crash
<1>3. QED
  BY <1>1, <1>2, SameFiles, IdleRelies

LEMMA DamageRemains ==
  ASSUME RemainInv, NEW f \in Files, Damage(f)
  PROVE  FilesRemain' /\ \A c \in Clients : Relies(c)'
<1>1. /\ wounds' = wounds + 1 /\ wounds \in Nat
      /\ file' = [file EXCEPT ![f] = Damaged] /\ Valid(file[f])
      /\ \A c \in Clients : pc'[c] = "idle"
      /\ TypeInv /\ FilesRemain
  BY DEF Damage, RemainInv, TypeInv, GhostTypes, clientVars
<1>2. \A g \in Files \ {f} : file'[g] = file[g]
  BY <1>1 DEF TypeInv
<1>3. ASSUME wounds' <= 1, file'["primary"] # Missing
      PROVE  \E g \in Files : Valid(file'[g])
  <2>1. wounds = 0
    BY <1>1, <1>3
  <2>2. file["primary"] # Missing
    BY <1>1, <1>2, <1>3 DEF Valid
  <2>3. \A g \in Files : Valid(file[g])
    BY <1>1, <2>1, <2>2 DEF FilesRemain
  <2>4. PICK g \in Files : g # f
    OBVIOUS
  <2>5. QED
    BY <1>2, <2>3, <2>4
<1>4. wounds' # 0
  BY <1>1
<1>5. FilesRemain'
  BY <1>3, <1>4 DEF FilesRemain
<1>6. QED
  BY <1>1, <1>5, IdleRelies

-----------------------------------------------------------------------------
LEMMA RemainsInit == Init => RemainInv
<1> SUFFICES ASSUME Init PROVE RemainInv
  OBVIOUS
<1>1. TypeInv
  BY TypesInit
<1>2. FilesRemain
  BY DEF Init, FilesRemain
<1>3. \A c \in Clients : Relies(c)
  BY DEF Init, Relies, Loading, NewFile, Backed, Late, Found
<1>4. QED
  BY <1>1, <1>2, <1>3 DEF RemainInv

LEMMA RemainsStep ==
  ASSUME OneClient, ~Backfills
  PROVE  RemainInv /\ [Next]_vars => RemainInv'
<1> SUFFICES ASSUME RemainInv, [Next]_vars PROVE RemainInv'
  OBVIOUS
<1>1. TypeInv'
  BY TypesStep DEF RemainInv
<1>2. ASSUME NEW c \in Clients, LoadStep(c) PROVE FilesRemain' /\ Relies(c)'
  BY <1>2, BeginLoadRemains, LoadPrimaryRemains, LoadBackupRemains, RestoreRemains,
     LoadLegacyRemains, MigrateBackupRemains, MigratePrimaryRemains, UnlinkRemains
  DEF LoadStep
<1>3. ASSUME NEW c \in Clients, SaveStep(c) PROVE FilesRemain' /\ Relies(c)'
  <2>1. CASE \E hour \in 0..(MaxHour + 1), torn \in BOOLEAN : Cut(c, hour, torn)
    <3>1. PICK hour \in 0..(MaxHour + 1), torn \in BOOLEAN : Cut(c, hour, torn)
      BY <2>1
    <3>2. hour \in Nat
      BY Numbers
    <3>3. QED
      BY <3>1, <3>2, CutRemains
  <2>2. QED
    BY <1>3, <2>1, BeginSaveRemains, FirstBackupRemains, FirstPrimaryRemains,
       TidyBackupRemains, TidyPrimaryRemains, CheckBackupRemains, RebuildRemains,
       AppendRemains, CompactBackupRemains, CompactPrimaryRemains DEF SaveStep
<1>4. ASSUME NEW c \in Clients, FilesRemain' /\ Relies(c)' PROVE RemainInv'
  <2>1. \A d \in Clients : Relies(d)'
    BY <1>4 DEF OneClient
  <2>2. QED
    BY <1>1, <1>4, <2>1 DEF RemainInv
<1>5. ASSUME Crash \/ \E f \in Files : Damage(f) PROVE RemainInv'
  BY <1>1, <1>5, CrashRemains, DamageRemains DEF RemainInv
<1>6. ASSUME UNCHANGED vars PROVE RemainInv'
  <2>1. UNCHANGED <<file, legacy, pc, batch, held, wounds>>
    BY <1>6 DEF vars, clientVars, ghosts
  <2>2. FilesRemain'
    BY <2>1, SameFiles DEF RemainInv
  <2>3. ASSUME NEW c \in Clients PROVE Relies(c)'
    BY <2>1 DEF RemainInv, Relies, Continues, ValidLegacy
  <2>4. QED
    BY <1>1, <2>2, <2>3 DEF RemainInv
<1>7. QED
  BY <1>2, <1>3, <1>4, <1>5, <1>6, ReadFailsRemains DEF Next

LEMMA RemainsImplies == RemainInv => HistoryRemains
<1> SUFFICES ASSUME RemainInv, wounds <= 1, file["primary"] # Missing
             PROVE  Effective # Lost
  BY DEF HistoryRemains
<1>1. TypeInv /\ \E f \in Files : Valid(file[f])
  BY DEF RemainInv, FilesRemain
<1>2. ASSUME NEW f \in Files, Valid(file[f]) PROVE Bounded(file[f].data) # Lost
  <2>1. file[f] \in Content
    BY <1>1, <1>2, ValidContent
  <2>2. Bounded(file[f].data) \in Histories
    BY <2>1, ContentParts, BoundedType
  <2>3. QED
    BY <2>2, DistinctAssumption
<1>3. CASE Valid(file["primary"])
  BY <1>2, <1>3 DEF Effective
<1>4. CASE ~Valid(file["primary"])
  <2>1. Valid(file["backup"])
    BY <1>1, <1>4
  <2>2. QED
    BY <1>2, <1>4, <2>1 DEF Effective
<1>5. QED
  BY <1>3, <1>4

\* A single client whose saves do not start before the history never makes it
\* unreadable: an append cut off anywhere, a crash or a failing write at any step, and
\* one damaged file between two saves leave a file that can be read
\* (load_history, save and _parse of household_load_store.py).
THEOREM HouseholdHistoryRemains ==
  ASSUME OneClient, ~Backfills
  PROVE  Spec => []HistoryRemains
<1>1. Init => RemainInv
  BY RemainsInit
<1>2. RemainInv /\ [Next]_vars => RemainInv'
  BY RemainsStep
<1>3. RemainInv => HistoryRemains
  BY RemainsImplies
<1>4. QED
  BY <1>1, <1>2, <1>3, PTL DEF Spec

-----------------------------------------------------------------------------
(* What a call returns. *)

\* An answer is what the next load would read, and a save leaves no more lines than
\* the threshold.
Right(c) ==
  answer[c] = Pending /\ answer'[c] \notin {Pending, Error} =>
    /\ answer'[c] = Effective'
    /\ batch[c] # NoBatch => file'["primary"].lines <= Threshold

LEMMA QuietRight ==
  ASSUME NEW c, answer'[c] \in {answer[c], Pending, Error}
  PROVE  Right(c)
BY DEF Right

LEMMA WritesRight ==
  ASSUME TypeInv, NEW c \in Clients, NEW step, NEW f, NEW content, NEW next,
         Writes(c, step, f, content, next)
  PROVE  Right(c)
<1>1. answer'[c] \in {answer[c], Error}
  BY DEF Writes, Raise, TypeInv
<1>2. QED
  BY <1>1, QuietRight

LEMMA LoadedRight ==
  ASSUME TypeInv, NEW c \in Clients, NEW content \in Content, Loaded(c, content),
         Valid(file'["primary"]),
         Bounded(file'["primary"].data) = Bounded(content.data)
  PROVE  Right(c)
<1>1. Effective' = Bounded(content.data)
  BY DEF Effective
<1>2. CASE batch[c] = NoBatch
  <2>1. answer'[c] = Bounded(content.data)
    BY <1>2 DEF Loaded, Return, TypeInv
  <2>2. QED
    BY <1>1, <1>2, <2>1 DEF Right
<1>3. CASE batch[c] # NoBatch
  <2>1. answer'[c] \in {answer[c], Error}
    BY <1>3 DEF Loaded, Raise, TypeInv
  <2>2. QED
    BY <2>1, QuietRight
<1>4. QED
  BY <1>2, <1>3

LEMMA LoadPrimaryRight ==
  ASSUME RemainInv, NEW c \in Clients, LoadPrimary(c)
  PROVE  Right(c)
<1>1. CASE Valid(file["primary"]) /\ Loaded(c, file["primary"])
  <2>1. TypeInv /\ file["primary"] \in Content /\ file' = file
    BY <1>1, ValidContent DEF RemainInv, LoadPrimary
  <2>2. QED
    BY <1>1, <2>1, LoadedRight
<1>2. CASE UNCHANGED answer
  BY <1>2, QuietRight
<1>3. QED
  BY <1>1, <1>2 DEF LoadPrimary

LEMMA RestoreRight ==
  ASSUME RemainInv, NEW c \in Clients, Restore(c)
  PROVE  Right(c)
<1> DEFINE restored == Encoded(Bounded(held[c].data))
<1>1. pc[c] = "restore" /\ TypeInv /\ Relies(c) /\ held[c] \in Content
  BY DEF Restore, RemainInv, TypeInv
<1>2. Valid(restored) /\ Bounded(restored.data) = Bounded(held[c].data)
  BY <1>1, RestoredPrimary
<1>3. \/ file' = [file EXCEPT !["primary"] = restored] /\ Loaded(c, held[c])
      \/ Raise(c)
  BY DEF Restore
<1> HIDE DEF restored
<1>4. CASE file' = [file EXCEPT !["primary"] = restored] /\ Loaded(c, held[c])
  <2>1. file'["primary"] = restored
    BY <1>1, <1>4 DEF TypeInv
  <2>2. QED
    BY <1>1, <1>2, <1>4, <2>1, LoadedRight
<1>5. CASE Raise(c)
  <2>1. answer'[c] = Error
    BY <1>1, <1>5 DEF Raise, TypeInv
  <2>2. QED
    BY <2>1, QuietRight
<1>6. QED
  BY <1>3, <1>4, <1>5

LEMMA LoadLegacyRight ==
  ASSUME RemainInv, NEW c \in Clients, LoadLegacy(c)
  PROVE  Right(c)
<1> DEFINE nothing == [h \in {} |-> Unavailable]
<1>1. /\ pc[c] = "load-legacy" /\ TypeInv /\ Relies(c) /\ UNCHANGED <<file, legacy>>
  BY DEF LoadLegacy, RemainInv
<1>2. CASE answer'[c] \in {answer[c], Error}
  BY <1>2, QuietRight
<1>3. CASE /\ ~\E f \in Files : ValidLegacy(f)
           /\ ~\E f \in Files : legacy[f] = Damaged
           /\ batch[c] = NoBatch /\ answer'[c] = nothing
  <2>1. \A f \in Files : file[f] = Missing
    BY <1>1 DEF Relies
  <2>2. \A f \in Files : legacy'[f] = Missing /\ ~ValidLegacy(f)'
    BY <1>1, <1>3 DEF ValidLegacy
  <2>3. \A f \in Files : file'[f] = Missing /\ ~Valid(file'[f])
    BY <1>1, <2>1 DEF Valid
  <2>4. Effective' = nothing
    BY <2>2, <2>3 DEF Effective
  <2>5. QED
    BY <1>3, <2>4 DEF Right
<1>4. QED
  <2>1. \/ answer'[c] \in {answer[c], Error}
        \/ /\ ~\E f \in Files : ValidLegacy(f)
           /\ ~\E f \in Files : legacy[f] = Damaged
           /\ batch[c] = NoBatch /\ answer'[c] = nothing
    BY <1>1 DEF LoadLegacy, Raise, Return, TypeInv
  <2>2. QED
    BY <1>2, <1>3, <2>1

LEMMA UnlinkRight ==
  ASSUME RemainInv, NEW c \in Clients, Unlink(c)
  PROVE  Right(c)
<1>1. /\ pc[c] = "unlink" /\ TypeInv /\ Relies(c) /\ file' = file
      /\ held[c] \in Content
      /\ Loaded(c, held[c]) \/ Raise(c)
  BY DEF Unlink, RemainInv, TypeInv
<1>2. Valid(file["primary"]) /\ file["primary"] = held[c]
  BY <1>1 DEF Relies
<1>3. CASE Loaded(c, held[c])
  <2>1. Valid(file'["primary"]) /\ Bounded(file'["primary"].data) = Bounded(held[c].data)
        /\ held[c] \in Content
    BY <1>1, <1>2 DEF TypeInv
  <2>2. QED
    BY <1>1, <1>3, <2>1, LoadedRight
<1>4. CASE Raise(c)
  <2>1. answer'[c] = Error
    BY <1>1, <1>4 DEF Raise, TypeInv
  <2>2. QED
    BY <2>1, QuietRight
<1>5. QED
  BY <1>1, <1>3, <1>4

\* Nothing of a history within the retention is dropped.
LEMMA NewestAll ==
  ASSUME NEW S \in SUBSET Hours, Cardinality(S) <= MaxValues
  PROVE  Newest(S) = S
<1>1. IsFiniteSet(S) /\ Cardinality(S) \in Nat /\ S \subseteq Nat
  BY HoursFinite
<1>2. ASSUME NEW h \in S PROVE h \in Newest(S)
  <2>1. IsFiniteSet(S \ {h}) /\ Cardinality(S \ {h}) = Cardinality(S) - 1
    BY <1>1, FS_RemoveElement
  <2>2. Above(S, h) \subseteq S \ {h}
    BY <1>1 DEF Above
  <2>3. /\ Cardinality(Above(S, h)) <= Cardinality(S \ {h})
        /\ Cardinality(Above(S, h)) \in Nat
    BY <2>1, <2>2, FS_Subset, FS_CardinalityType
  <2>4. QED
    BY <1>1, <2>1, <2>3, NewestMember, Numbers
<1>3. QED
  BY <1>2, NewestFacts

\* The first save of a store is within the retention.
LEMMA FirstRows ==
  ASSUME NEW b \in Batch
  PROVE  /\ Rows(b) \in Histories /\ Valid(Encoded(Rows(b)))
         /\ Encoded(Rows(b)).data = Rows(b) /\ Bounded(Rows(b)) = Rows(b)
         /\ Encoded(Rows(b)).lines <= Threshold
<1> DEFINE rows == Rows(b)
           f == b.first
           l == b.last
<1>1. /\ rows \in Histories /\ DOMAIN rows = f..l /\ f <= l /\ l < f + MaxLength
      /\ f \in Nat /\ l \in Nat
  BY RowsType, Numbers DEF Hours
<1>2. Valid(Encoded(rows)) /\ Encoded(rows).data = rows
      /\ Encoded(rows).lines = Cardinality(DOMAIN rows)
  BY <1>1, RowsSound, EncodedType
<1> HIDE DEF rows, f, l
<1>3. Cardinality(DOMAIN rows) = l - f + 1
  <2>1. f \in Int /\ l \in Int /\ ~(f > l) /\ DOMAIN rows = f..l
    BY <1>1
  <2>2. Cardinality(f..l) = l - f + 1
    BY <2>1, FS_Interval
  <2>3. QED
    BY <2>1, <2>2
<1>4. Cardinality(DOMAIN rows) <= MaxValues /\ Cardinality(DOMAIN rows) <= Threshold
  <2>1. MaxLength <= MaxValues /\ MaxValues <= Threshold
    BY HouseholdAssumption
  <2>2. QED
    BY <1>1, <1>3, <2>1, Numbers
<1>5. Bounded(rows) = rows
  BY <1>1, <1>4, HistoryType, NewestAll, BoundedTwice
<1>6. QED
  BY <1>1, <1>2, <1>4, <1>5 DEF rows

LEMMA FirstPrimaryRight ==
  ASSUME RemainInv, NEW c \in Clients, FirstPrimary(c)
  PROVE  Right(c)
<1> DEFINE rows == Rows(batch[c])
           content == Encoded(rows)
<1>1. /\ pc[c] = "first-primary" /\ TypeInv
      /\ \/ file' = [file EXCEPT !["primary"] = content] /\ Return(c, rows)
         \/ Raise(c)
  BY DEF FirstPrimary, RemainInv
<1>2. batch[c] \in Batch
  BY <1>1 DEF TypeInv, Knows
<1>3. /\ Valid(content) /\ content.data = rows /\ content.lines <= Threshold
      /\ Bounded(rows) = rows
  BY <1>2, FirstRows
<1> HIDE DEF rows, content
<1>4. CASE file' = [file EXCEPT !["primary"] = content] /\ Return(c, rows)
  <2>1. file'["primary"] = content /\ answer'[c] = rows
    BY <1>1, <1>4 DEF Return, TypeInv
  <2>2. Effective' = rows
    BY <1>3, <2>1 DEF Effective
  <2>3. QED
    BY <1>3, <2>1, <2>2 DEF Right
<1>5. CASE Raise(c)
  <2>1. answer'[c] = Error
    BY <1>1, <1>5 DEF Raise, TypeInv
  <2>2. QED
    BY <2>1, QuietRight
<1>6. QED
  BY <1>1, <1>4, <1>5

\* Merging with the newest hours of a history is merging with all of it.
LEMMA MergeAgrees ==
  ASSUME NEW f \in Histories, NEW g \in Histories
  PROVE  Bounded(Over(f, g)) = Bounded(Over(f, Bounded(g)))
<1> DEFINE D == DOMAIN g
           W == DOMAIN f
           b == Bounded(g)
<1>1. D \in SUBSET Hours /\ W \in SUBSET Hours
  BY HistoryType
<1>2. b \in Histories /\ DOMAIN b = Newest(D) /\ \A h \in Newest(D) : b[h] = g[h]
  BY BoundedType DEF Bounded
<1>3. DOMAIN Over(f, g) = W \cup D /\ DOMAIN Over(f, b) = W \cup Newest(D)
  BY <1>2, OverType
<1>4. Newest(W \cup D) = Newest(W \cup Newest(D))
  <2>1. Newest(D \cup W) = Newest(Newest(D) \cup W)
    BY <1>1, NewestOfUnion
  <2>2. D \cup W = W \cup D /\ Newest(D) \cup W = W \cup Newest(D)
    OBVIOUS
  <2>3. QED
    BY <2>1, <2>2
<1>5. ASSUME NEW h \in Newest(W \cup D) PROVE Over(f, g)[h] = Over(f, b)[h]
  <2>1. h \in W \cup D /\ h \in W \cup Newest(D)
    <3>1. W \cup D \in SUBSET Hours /\ W \cup Newest(D) \in SUBSET Hours
      BY <1>1, NewestFacts
    <3>2. QED
      BY <1>4, <3>1, NewestFacts
  <2>2. CASE h \in W
    BY <1>3, <2>1, <2>2 DEF Over
  <2>3. CASE h \notin W
    <3>1. h \in Newest(D) /\ h \in DOMAIN b /\ h \in D
      BY <1>2, <2>1, <2>3
    <3>2. Over(f, g)[h] = g[h] /\ Over(f, b)[h] = b[h]
      BY <2>3, <3>1 DEF Over
    <3>3. QED
      BY <1>2, <3>1, <3>2
  <2>4. QED
    BY <2>2, <2>3
<1> HIDE DEF b, W, D
<1>6. /\ Bounded(Over(f, g)) = [h \in Newest(W \cup D) |-> Over(f, g)[h]]
      /\ Bounded(Over(f, b)) = [h \in Newest(W \cup Newest(D)) |-> Over(f, b)[h]]
  BY <1>3 DEF Bounded
<1>7. QED
  BY <1>4, <1>5, <1>6 DEF b

\* The effect of rows in the primary on what the next load finds.
LEMMA AppendedEffective ==
  ASSUME TypeInv, NEW c \in Clients, Relies(c), pc[c] = "append", NEW limit \in Nat,
         NEW torn \in BOOLEAN, NEW rows \in Histories,
         DOMAIN rows = {k \in DOMAIN Bridged(held[c].data, batch[c]) : k < limit},
         file' = [file EXCEPT !["primary"] = Appended(rows, torn)]
  PROVE  Effective' = Bounded(Over(rows, held[c].data))
<1> DEFINE content == Appended(rows, torn)
           primary == file["primary"]
<1>1. Valid(content)
  BY AppendedValid
<1>2. /\ primary \in Content /\ primary # Missing /\ primary # Damaged /\ ~primary.torn
      /\ Bounded(primary.data) = held[c].data
  BY LateRelies, ValidContent DEF Late, Relies, Valid
<1>3. content.data = Over(rows, primary.data)
  BY <1>2, AppendedContent
<1>4. primary.data \in Histories
  BY <1>2, ContentParts
<1>5. file'["primary"] = content
  BY DEF TypeInv
<1> HIDE DEF content, primary
<1>6. Effective' = Bounded(content.data)
  BY <1>1, <1>5 DEF Effective
<1>7. QED
  BY <1>2, <1>3, <1>4, <1>6, MergeAgrees

LEMMA AppendRight ==
  ASSUME RemainInv, NEW c \in Clients, Append(c)
  PROVE  Right(c)
<1> DEFINE rows == Bridged(held[c].data, batch[c])
           content == Appended(rows, FALSE)
           merged == Merged(held[c].data, batch[c])
<1>1. /\ pc[c] = "append" /\ TypeInv /\ Relies(c)
      /\ file' = [file EXCEPT !["primary"] = content]
      /\ UNCHANGED answer \/ (~TooLong(c, rows) /\ Return(c, merged))
  BY DEF Append, RemainInv
<1>2. /\ batch[c] \in Batch /\ held[c].data \in Histories /\ held[c] \in Content
      /\ Valid(file["primary"])
  BY <1>1, LateRelies DEF Late, TypeInv
<1>3. /\ file["primary"] \in Content /\ ~file["primary"].torn
      /\ file["primary"].lines <= held[c].lines
  BY <1>1, <1>2, ValidContent DEF Relies
<1>4. rows \in Histories /\ DOMAIN rows \in SUBSET Hours
  BY <1>2, BridgedType, HistoryType
<1>5. DOMAIN rows = {k \in DOMAIN rows : k < MaxHour + 1} /\ MaxHour + 1 \in Nat
  <2> HIDE DEF rows
  <2>1. QED
    BY <1>4, Numbers DEF Hours
<1>6. Effective' = merged
  <2>1. Effective' = Bounded(Over(rows, held[c].data))
    BY <1>1, <1>4, <1>5, AppendedEffective
  <2>2. QED
    BY <2>1 DEF Merged
<1>7. /\ content.lines = file["primary"].lines + Cardinality(DOMAIN rows)
      /\ Cardinality(DOMAIN rows) \in Nat
  BY <1>3, <1>4, AppendedContent
<1> HIDE DEF rows, content, merged
<1>8. CASE UNCHANGED answer
  BY <1>8, QuietRight
<1>9. CASE ~TooLong(c, rows) /\ Return(c, merged)
  <2>1. answer'[c] = merged /\ file'["primary"] = content
    BY <1>1, <1>9 DEF Return, TypeInv
  <2>2. content.lines <= Threshold
    <3>1. ~(held[c].lines + Cardinality(DOMAIN rows) > Threshold)
      BY <1>9 DEF TooLong
    <3>2. held[c].lines \in Nat /\ file["primary"].lines \in Nat
      BY <1>2, <1>3, ContentParts
    <3>3. QED
      BY <1>3, <1>7, <3>1, <3>2, Numbers
  <2>3. QED
    BY <1>6, <2>1, <2>2 DEF Right
<1>10. QED
  BY <1>1, <1>8, <1>9

\* Compacting keeps what is merged.
LEMMA CompactedMerged ==
  ASSUME TypeInv, NEW c \in Clients, Relies(c), pc[c] = "compact-primary",
         NEW merged, merged = Merged(held[c].data, batch[c])
  PROVE  /\ merged \in Histories /\ Valid(Encoded(merged))
         /\ Encoded(merged).data = merged /\ Bounded(merged) = merged
         /\ Encoded(merged).lines <= Threshold
<1>1. pc[c] \in Late
  BY DEF Late
<1>2. batch[c] \in Batch /\ held[c].data \in Histories
  BY <1>1, LateRelies
<1>3. /\ merged \in Histories /\ Newest(DOMAIN merged) = DOMAIN merged
      /\ Cardinality(DOMAIN merged) \in 0..MaxValues
  <2> DEFINE all == Over(Bridged(held[c].data, batch[c]), held[c].data)
  <2>1. all \in Histories
    BY <1>2, BridgedType, OverType
  <2>2. merged = Bounded(all)
    BY DEF Merged
  <2> HIDE DEF all
  <2>3. /\ DOMAIN all \in SUBSET Hours /\ DOMAIN merged = Newest(DOMAIN all)
        /\ merged \in Histories /\ Cardinality(DOMAIN merged) \in 0..MaxValues
    BY <2>1, <2>2, HistoryType, BoundedType
  <2>4. QED
    BY <2>3, NewestTwice
<1>4. Sound(DOMAIN merged)
  BY <1>2, MergedSound
<1>5. Encoded(merged).lines = Cardinality(DOMAIN merged) /\ Encoded(merged).data = merged
  BY <1>3, EncodedType
<1>6. MaxValues <= Threshold
  BY HouseholdAssumption
<1>7. QED
  BY <1>3, <1>4, <1>5, <1>6, EncodedValid, BoundedTwice, Numbers

LEMMA CompactPrimaryRight ==
  ASSUME RemainInv, NEW c \in Clients, CompactPrimary(c)
  PROVE  Right(c)
<1> DEFINE merged == Merged(held[c].data, batch[c])
           content == Encoded(merged)
<1>1. /\ pc[c] = "compact-primary" /\ TypeInv /\ Relies(c)
      /\ \/ file' = [file EXCEPT !["primary"] = content] /\ Return(c, merged)
         \/ Raise(c)
  BY DEF CompactPrimary, RemainInv
<1>2. /\ Valid(content) /\ content.data = merged /\ content.lines <= Threshold
      /\ Bounded(merged) = merged
  BY <1>1, CompactedMerged
<1> HIDE DEF merged, content
<1>3. CASE file' = [file EXCEPT !["primary"] = content] /\ Return(c, merged)
  <2>1. file'["primary"] = content /\ answer'[c] = merged
    BY <1>1, <1>3 DEF Return, TypeInv
  <2>2. Effective' = merged
    BY <1>2, <2>1 DEF Effective
  <2>3. QED
    BY <1>2, <2>1, <2>2 DEF Right
<1>4. CASE Raise(c)
  <2>1. answer'[c] = Error
    BY <1>1, <1>4 DEF Raise, TypeInv
  <2>2. QED
    BY <2>1, QuietRight
<1>5. QED
  BY <1>1, <1>3, <1>4

LEMMA StepRight ==
  ASSUME OneClient, RemainInv, [Next]_vars
  PROVE  \A c \in Clients : Right(c)
<1> TypeInv
  BY DEF RemainInv
<1>1. ASSUME NEW c \in Clients, LoadStep(c) PROVE Right(c)
  <2>1. ASSUME BeginLoad(c) \/ LoadBackup(c) PROVE Right(c)
    <3>1. answer'[c] \in {answer[c], Pending, Error}
      BY <2>1 DEF BeginLoad, LoadBackup, Raise, TypeInv
    <3>2. QED
      BY <3>1, QuietRight
  <2>2. ASSUME MigrateBackup(c) \/ MigratePrimary(c) PROVE Right(c)
    BY <2>2, WritesRight DEF MigrateBackup, MigratePrimary
  <2>3. QED
    BY <1>1, <2>1, <2>2, LoadPrimaryRight, RestoreRight, LoadLegacyRight, UnlinkRight
    DEF LoadStep
<1>2. ASSUME NEW c \in Clients, SaveStep(c) PROVE Right(c)
  <2>1. ASSUME NEW first \in Hours, NEW last \in Hours, BeginSave(c, first, last)
        PROVE  Right(c)
    <3>1. answer'[c] = Pending
      BY <2>1 DEF BeginSave, TypeInv
    <3>2. QED
      BY <3>1, QuietRight
  <2>2. ASSUME TidyPrimary(c) \/ CheckBackup(c) PROVE Right(c)
    <3>1. answer'[c] \in {answer[c], Error}
      BY <2>2 DEF TidyPrimary, CheckBackup, Raise, TypeInv
    <3>2. QED
      BY <3>1, QuietRight
  <2>3. ASSUME NEW hour, NEW torn, Cut(c, hour, torn) PROVE Right(c)
    <3>1. answer'[c] \in {answer[c], Error}
      BY <2>3 DEF Cut, Raise, TypeInv
    <3>2. QED
      BY <3>1, QuietRight
  <2>4. ASSUME FirstBackup(c) \/ TidyBackup(c) \/ Rebuild(c) \/ CompactBackup(c)
        PROVE  Right(c)
    BY <2>4, WritesRight DEF FirstBackup, TidyBackup, Rebuild, CompactBackup
  <2>5. QED
    BY <1>2, <2>1, <2>2, <2>3, <2>4, FirstPrimaryRight, AppendRight, CompactPrimaryRight
    DEF SaveStep
<1>3. ASSUME NEW c \in Clients, ReadFails(c) PROVE Right(c)
  <2>1. answer'[c] = Error
    BY <1>3 DEF ReadFails, Raise, TypeInv
  <2>2. QED
    BY <2>1, QuietRight
<1>4. ASSUME UNCHANGED answer PROVE \A c \in Clients : Right(c)
  BY <1>4, QuietRight
<1>5. CASE \E c \in Clients : LoadStep(c) \/ SaveStep(c) \/ ReadFails(c)
  <2>1. PICK c \in Clients : Right(c)
    BY <1>1, <1>2, <1>3, <1>5
  <2>2. QED
    BY <2>1 DEF OneClient
<1>6. CASE Crash \/ (\E f \in Files : Damage(f)) \/ UNCHANGED vars
  <2>1. UNCHANGED answer
    BY <1>6 DEF Crash, Damage, clientVars, vars
  <2>2. QED
    BY <1>4, <2>1
<1>7. QED
  BY <1>5, <1>6 DEF Next

\* What a save or a load of a single client returns is what reading the file would
\* give: appending lines and reading the last line of each hour amounts to the merge
\* in memory, whatever earlier calls left behind (append_household_rows and
\* merge of household_load_store.py).
THEOREM HouseholdAnswersAreRead ==
  ASSUME OneClient, ~Backfills
  PROVE  Spec => AnswersAreRead
<1>1. Init => RemainInv
  BY RemainsInit
<1>2. RemainInv /\ [Next]_vars => RemainInv'
  BY RemainsStep
<1>3. RemainInv /\ [Next]_vars =>
        [\A c \in Clients : Answered(c) => answer'[c] \in {Effective', Error}]_vars
  BY StepRight DEF Right, Answered
<1>4. QED
  BY <1>1, <1>2, <1>3, PTL DEF Spec, AnswersAreRead

\* The lines of the file stay within the compaction threshold after every save of a
\* single client (save of household_load_store.py).
THEOREM HouseholdLinesBounded ==
  ASSUME OneClient, ~Backfills
  PROVE  Spec => LinesBounded
<1>1. Init => RemainInv
  BY RemainsInit
<1>2. RemainInv /\ [Next]_vars => RemainInv'
  BY RemainsStep
<1>3. RemainInv /\ [Next]_vars =>
        [\A c \in Clients : Answered(c) /\ batch[c] # NoBatch /\ answer'[c] # Error =>
           file'["primary"].lines <= Threshold]_vars
  BY StepRight DEF Right, Answered
<1>4. QED
  BY <1>1, <1>2, <1>3, PTL DEF Spec, LinesBounded

-----------------------------------------------------------------------------
(* What the retention keeps of a history. *)

\* An hour with MaxValues later ones has them among the newest too.
LEMMA TrimmedNewest ==
  ASSUME NEW S \in SUBSET Hours, NEW h \in Nat, Cardinality(Above(S, h)) >= MaxValues
  PROVE  Cardinality(Above(Newest(S), h)) >= MaxValues
<1>1. /\ Newest(S) \in SUBSET S /\ Newest(S) \in SUBSET Hours /\ S \subseteq Nat
      /\ IsFiniteSet(Above(Newest(S), h)) /\ Cardinality(Above(Newest(S), h)) \in Nat
  BY NewestFacts, HoursFinite, AboveFacts
<1>2. CASE Above(S, h) \subseteq Newest(S)
  <2>1. Above(Newest(S), h) = Above(S, h)
    BY <1>1, <1>2 DEF Above
  <2>2. QED
    BY <2>1
<1>3. CASE ~(Above(S, h) \subseteq Newest(S))
  <2> DEFINE dropped == Above(S, h) \ Newest(S)
  <2>1. PICK d \in dropped : \A k \in dropped : k <= d
    <3>1. dropped \in SUBSET Hours /\ dropped # {}
      BY <1>1, <1>3 DEF Above
    <3>2. QED
      BY <3>1, LastHour
  <2>2. d \in S /\ d > h /\ d \in Nat /\ d \notin Newest(S)
    BY <1>1, <2>1 DEF Above
  <2>3. Above(S, d) \subseteq Above(Newest(S), h)
    <3>1. ASSUME NEW k \in Above(S, d) PROVE k \in Above(Newest(S), h)
      <4>1. k \in S /\ k > d /\ k \in Nat
        BY <1>1 DEF Above
      <4>2. k \in Newest(S)
        BY <2>1, <2>2, <4>1 DEF Above
      <4>3. QED
        BY <2>2, <4>1, <4>2 DEF Above
    <3>2. QED
      BY <3>1
  <2>4. Cardinality(Above(S, d)) <= Cardinality(Above(Newest(S), h))
        /\ Cardinality(Above(S, d)) \in Nat
    BY <1>1, <2>3, FS_Subset, FS_CardinalityType
  <2>5. ~(Cardinality(Above(S, d)) < MaxValues)
    BY <2>2, NewestMember
  <2>6. QED
    BY <1>1, <2>4, <2>5, Numbers
<1>4. QED
  BY <1>2, <1>3

\* Every hour of A is dropped by the retention or has one of the values W gives it.
Fits(f, A, W) ==
  \A h \in A : \/ Cardinality(Above(DOMAIN f, h)) >= MaxValues
               \/ h \in DOMAIN f /\ f[h] \in W[h]

LEMMA FitsBounded ==
  ASSUME NEW f \in Histories, NEW A \in SUBSET Hours, NEW W, Fits(f, A, W)
  PROVE  Fits(Bounded(f), A, W)
<1> SUFFICES ASSUME NEW h \in A
             PROVE  \/ Cardinality(Above(DOMAIN Bounded(f), h)) >= MaxValues
                    \/ h \in DOMAIN Bounded(f) /\ Bounded(f)[h] \in W[h]
  BY DEF Fits
<1> DEFINE D == DOMAIN f
<1>1. /\ D \in SUBSET Hours /\ DOMAIN Bounded(f) = Newest(D) /\ h \in Nat
      /\ \A k \in Newest(D) : Bounded(f)[k] = f[k]
  BY HistoryType, BoundedType, HoursFinite DEF Bounded
<1>2. Cardinality(Above(D, h)) \in Nat
  BY <1>1, AboveFacts
<1>3. CASE Cardinality(Above(D, h)) >= MaxValues
  BY <1>1, <1>3, TrimmedNewest
<1>4. CASE ~(Cardinality(Above(D, h)) >= MaxValues)
  <2>1. h \in D /\ f[h] \in W[h]
    BY <1>4 DEF Fits
  <2>2. h \in Newest(D)
    BY <1>1, <1>2, <1>4, <2>1, NewestMember, Numbers
  <2>3. QED
    BY <1>1, <2>1, <2>2
<1>5. QED
  BY <1>3, <1>4

\* Rows with values that W gives do not take an hour away.
LEMMA FitsOver ==
  ASSUME NEW f \in Histories, NEW rows \in Histories, NEW A \in SUBSET Hours, NEW W,
         \A h \in A : \/ h \in DOMAIN rows /\ rows[h] \in W[h]
                      \/ Cardinality(Above(DOMAIN f, h)) >= MaxValues
                      \/ h \in DOMAIN f \ DOMAIN rows /\ f[h] \in W[h]
  PROVE  Fits(Bounded(Over(rows, f)), A, W)
<1> DEFINE g == Over(rows, f)
<1>1. /\ g \in Histories /\ DOMAIN g = DOMAIN rows \cup DOMAIN f
      /\ \A h \in DOMAIN rows : g[h] = rows[h]
      /\ \A h \in DOMAIN f \ DOMAIN rows : g[h] = f[h]
  BY OverType DEF Over
<1>2. DOMAIN g \in SUBSET Hours /\ DOMAIN f \in SUBSET DOMAIN g
  BY <1>1, HistoryType
<1> HIDE DEF g
<1>3. ASSUME NEW h \in A
      PROVE  \/ Cardinality(Above(DOMAIN g, h)) >= MaxValues
             \/ h \in DOMAIN g /\ g[h] \in W[h]
  <2>1. h \in Nat
    BY HoursFinite
  <2>2. CASE h \in DOMAIN rows /\ rows[h] \in W[h]
    BY <1>1, <2>2
  <2>3. CASE Cardinality(Above(DOMAIN f, h)) >= MaxValues
    <3>1. /\ Cardinality(Above(DOMAIN f, h)) <= Cardinality(Above(DOMAIN g, h))
          /\ Cardinality(Above(DOMAIN f, h)) \in Nat
          /\ Cardinality(Above(DOMAIN g, h)) \in Nat
      BY <1>2, <2>1, AboveParts
    <3>2. QED
      BY <2>3, <3>1, Numbers
  <2>4. CASE h \in DOMAIN f \ DOMAIN rows /\ f[h] \in W[h]
    BY <1>1, <2>4
  <2>5. QED
    BY <2>2, <2>3, <2>4
<1>4. Fits(g, A, W)
  BY <1>3 DEF Fits
<1>5. QED
  BY <1>1, <1>4, FitsBounded DEF g

\* The hours a save fills in lie after the history and were never acknowledged.
LEMMA GapNew ==
  ASSUME NEW history \in Histories, NEW b \in Batch, NEW A \in SUBSET Hours, NEW W,
         Fits(history, A, W), NEW h \in Gap(history, b)
  PROVE  h \notin A
<1> SUFFICES ASSUME h \in A PROVE FALSE
  OBVIOUS
<1>1. DOMAIN history \in SUBSET Hours /\ DOMAIN history \subseteq Nat /\ h \in Nat
  BY HistoryType, HoursFinite
<1>2. \A k \in DOMAIN history : k < h
  BY DEF Gap
<1>3. Above(DOMAIN history, h) = {}
  BY <1>1, <1>2 DEF Above
<1>4. Cardinality(Above(DOMAIN history, h)) = 0
  BY <1>3, FS_EmptySet
<1>5. h \in DOMAIN history
  BY <1>4, Numbers DEF Fits
<1>6. QED
  BY <1>1, <1>2, <1>5

\* Appending the first rows of a save, or all of them, keeps every hour.
LEMMA FitsRows ==
  ASSUME NEW history \in Histories, NEW b \in Batch, NEW A \in SUBSET Hours,
         NEW W, Fits(history, A, W),
         \A h \in DOMAIN Rows(b) : b.value \in W[h],
         NEW rows \in Histories, DOMAIN rows \subseteq DOMAIN Bridged(history, b),
         \A h \in DOMAIN rows : rows[h] = Bridged(history, b)[h]
  PROVE  Fits(Bounded(Over(rows, history)), A, W)
<1> DEFINE bridged == Bridged(history, b)
           N == b.first..b.last
<1>1. DOMAIN bridged = N \cup Gap(history, b) /\ DOMAIN Rows(b) = N
  BY BridgedType, RowsType
<1>2. \A h \in N : bridged[h] = b.value
  BY <1>1 DEF Bridged, Over, Rows
<1> HIDE DEF bridged
<1>3. ASSUME NEW h \in A
      PROVE  \/ h \in DOMAIN rows /\ rows[h] \in W[h]
             \/ Cardinality(Above(DOMAIN history, h)) >= MaxValues
             \/ h \in DOMAIN history \ DOMAIN rows /\ history[h] \in W[h]
  <2>1. CASE h \in DOMAIN rows
    <3>1. h \in N
      BY <1>1, <2>1, GapNew DEF bridged
    <3>2. QED
      BY <1>1, <1>2, <2>1, <3>1 DEF bridged
  <2>2. CASE h \notin DOMAIN rows
    BY <2>2 DEF Fits
  <2>3. QED
    BY <2>1, <2>2
<1>4. QED
  BY <1>3, FitsOver
LEMMA FitsBoth ==
  ASSUME NEW f, NEW A, NEW B, NEW W, Fits(f, A, W), Fits(f, B, W)
  PROVE  Fits(f, A \cup B, W)
BY DEF Fits

\* What the merge of a save leaves of its own hours.
LEMMA RowsFit ==
  ASSUME NEW history \in Histories, NEW b \in Batch, NEW W,
         \A h \in DOMAIN Rows(b) : b.value \in W[h]
  PROVE  /\ Fits(Rows(b), DOMAIN Rows(b), W)
         /\ Fits(Merged(history, b), DOMAIN Rows(b), W)
<1> DEFINE bridged == Bridged(history, b)
           N == DOMAIN Rows(b)
           all == Over(bridged, history)
<1>1. /\ bridged \in Histories /\ N \subseteq DOMAIN bridged /\ N \in SUBSET Hours
      /\ \A h \in N : bridged[h] = b.value /\ Rows(b)[h] = b.value
  <2>1. /\ bridged \in Histories /\ DOMAIN bridged = (b.first..b.last) \cup Gap(history, b)
        /\ N = b.first..b.last /\ N \in SUBSET Hours
    BY BridgedType, RowsType, HistoryType
  <2>2. \A h \in N : bridged[h] = Rows(b)[h] /\ Rows(b)[h] = b.value
    BY <2>1 DEF Bridged, Over, Rows
  <2>3. QED
    BY <2>1, <2>2
<1> HIDE DEF bridged
<1>2. /\ all \in Histories /\ N \subseteq DOMAIN all
      /\ \A h \in N : all[h] = b.value
  BY <1>1, OverType DEF Over
<1>3. Merged(history, b) = Bounded(all)
  BY DEF Merged, bridged
<1> HIDE DEF all
<1>4. Fits(all, N, W) /\ Fits(Rows(b), N, W)
  BY <1>1, <1>2 DEF Fits
<1>5. QED
  BY <1>1, <1>2, <1>3, <1>4, FitsBounded

\* A save that returns adds its hours, with its value.
LEMMA AcknowledgeFits ==
  ASSUME TypeInv, NEW c \in Clients, batch[c] \in Batch, Acknowledge(c), NEW f,
         Fits(f, acked, allowed),
         Fits(f, DOMAIN Rows(batch[c]), allowed')
  PROVE  Fits(f, acked', allowed')
<1> DEFINE N == DOMAIN Rows(batch[c])
<1>1. acked' = acked \cup N /\ acked \in SUBSET Hours
  BY DEF Acknowledge, TypeInv, GhostTypes
<1>2. \A h \in Hours \ N : allowed'[h] = allowed[h]
  BY DEF Acknowledge
<1>3. Fits(f, acked \ N, allowed')
  BY <1>1, <1>2 DEF Fits
<1>4. acked' = (acked \ N) \cup N
  BY <1>1
<1>5. QED
  BY <1>3, <1>4, FitsBoth

LEMMA AcknowledgeAllows ==
  ASSUME NEW c, Acknowledge(c), batch[c] \in Batch
  PROVE  \A h \in DOMAIN Rows(batch[c]) : batch[c].value \in allowed'[h]
<1>1. DOMAIN Rows(batch[c]) \in SUBSET Hours
  BY RowsType, HistoryType
<1>2. QED
  BY <1>1 DEF Acknowledge

-----------------------------------------------------------------------------
(* What a single client knows of the history the next load returns. *)

\* Legacy files that can both be read hold one version.
OneVersionOnly ==
  \A l \in LegacyFiles :
    {l["primary"], l["backup"]} \cap {Missing, Damaged} = {} => l["primary"] = l["backup"]

OneLegacy ==
  ValidLegacy("primary") /\ ValidLegacy("backup") => legacy["primary"] = legacy["backup"]

Reads == Found \cup {"tidy-backup", "tidy-primary", "check-backup", "rebuild", "append"}

\* The next load returns what the client found, and with the rows of the save once
\* they are written.
Finds(c) ==
  /\ pc[c] = "load-backup" => ~Valid(file["primary"])
  /\ pc[c] = "first-backup" => Effective = [h \in {} |-> Unavailable]
  /\ pc[c] = "first-primary" => Effective = Rows(batch[c])
  /\ pc[c] = "migrate-backup" => /\ \E f \in Files : ValidLegacy(f)
                                 /\ held[c].data = Bounded(LegacyCurrent)
  /\ pc[c] \in Reads => Effective = Bounded(held[c].data)
  /\ pc[c] \in {"compact-backup", "compact-primary"} =>
       Effective = Merged(held[c].data, batch[c])

FindInv == RemainInv /\ OneLegacy /\ \A c \in Clients : Finds(c)

LEMMA FindsFacts ==
  ASSUME FindInv, NEW c \in Clients
  PROVE  TypeInv /\ Relies(c) /\ Finds(c) /\ OneLegacy
BY DEF FindInv, RemainInv

LEMMA IdleFinds ==
  ASSUME NEW c, pc'[c] = "idle"
  PROVE  Finds(c)'
BY DEF Finds, Reads, Found

LEMMA SameEffective ==
  ASSUME UNCHANGED <<file, legacy>>
  PROVE  Effective' = Effective
BY DEF Effective, LegacyCurrent, ValidLegacy

\* A client found what the next load would find.
LEMMA LoadedFinds ==
  ASSUME TypeInv, NEW c \in Clients, NEW content \in Content, Loaded(c, content),
         Effective' = Bounded(content.data)
  PROVE  Finds(c)'
<1> DEFINE history == Bounded(content.data)
           loaded == [content EXCEPT !.data = history]
<1>1. Bounded(history) = history
  <2>1. content.data \in Histories /\ DOMAIN content.data \in SUBSET Hours
    BY ContentParts, HistoryType
  <2>2. history \in Histories /\ DOMAIN history = Newest(DOMAIN content.data)
    BY <2>1, BoundedType
  <2>3. QED
    BY <2>1, <2>2, NewestTwice, BoundedTwice
<1>2. loaded.data = history
  BY BoundedContent
<1>3. /\ held' = [held EXCEPT ![c] = loaded]
      /\ \/ pc' = [pc EXCEPT ![c] = "idle"]
         \/ pc' = [pc EXCEPT ![c] = IF content.torn THEN "tidy-backup" ELSE "check-backup"]
  BY DEF Loaded, Return, Raise, Goto
<1> HIDE DEF history, loaded
<1>4. held'[c].data = history
  BY <1>2, <1>3 DEF TypeInv
<1>5. CASE pc'[c] = "idle"
  BY <1>5, IdleFinds
<1>6. CASE pc'[c] \in {"tidy-backup", "check-backup"}
  <2>1. Effective' = Bounded(held'[c].data)
    BY <1>1, <1>4 DEF history
  <2>2. QED
    BY <1>6, <2>1 DEF Finds, Reads, Found
<1>7. QED
  BY <1>3, <1>5, <1>6 DEF TypeInv

LEMMA BeginFinds ==
  ASSUME FindInv, NEW c \in Clients,
         BeginLoad(c) \/ \E first, last \in Hours : BeginSave(c, first, last)
  PROVE  Finds(c)' /\ Effective' = Effective
<1>1. pc'[c] = "load-primary" /\ UNCHANGED <<file, legacy>>
  BY FindsFacts DEF BeginLoad, BeginSave, Goto, TypeInv
<1>2. QED
  BY <1>1, SameEffective DEF Finds, Reads, Found

LEMMA LoadPrimaryFinds ==
  ASSUME FindInv, NEW c \in Clients, LoadPrimary(c)
  PROVE  Finds(c)' /\ Effective' = Effective
<1>1. UNCHANGED <<file, legacy>> /\ TypeInv
  BY FindsFacts DEF LoadPrimary
<1>2. Effective' = Effective
  BY <1>1, SameEffective
<1>3. CASE Valid(file["primary"]) /\ Loaded(c, file["primary"])
  <2>1. Effective' = Bounded(file["primary"].data)
    BY <1>2, <1>3 DEF Effective
  <2>2. file["primary"] \in Content
    BY <1>1, <1>3, ValidContent
  <2>3. QED
    BY <1>1, <1>2, <1>3, <2>1, <2>2, LoadedFinds
<1>4. CASE ~Valid(file["primary"]) /\ Goto(c, "load-backup")
  <2>1. pc'[c] = "load-backup"
    BY <1>1, <1>4 DEF Goto, TypeInv
  <2>2. Finds(c)'
    BY <1>1, <1>4, <2>1 DEF Finds, Reads, Found
  <2>3. QED
    BY <1>2, <2>2
<1>5. QED
  BY <1>3, <1>4 DEF LoadPrimary

LEMMA LoadBackupFinds ==
  ASSUME FindInv, NEW c \in Clients, LoadBackup(c)
  PROVE  Finds(c)' /\ Effective' = Effective
<1>1. pc[c] = "load-backup" /\ UNCHANGED <<file, legacy>> /\ TypeInv /\ Finds(c)
  BY FindsFacts DEF LoadBackup
<1>2. Effective' = Effective
  BY <1>1, SameEffective
<1>3. CASE /\ Valid(file["backup"])
           /\ held' = [held EXCEPT ![c] = file["backup"]]
           /\ Goto(c, "restore")
  <2>1. pc'[c] = "restore" /\ held'[c] = file["backup"]
    BY <1>1, <1>3 DEF Goto, TypeInv
  <2>2. ~Valid(file["primary"])
    BY <1>1 DEF Finds
  <2>3. Effective' = Bounded(held'[c].data)
    BY <1>2, <1>3, <2>1, <2>2 DEF Effective
  <2>4. Finds(c)'
    BY <2>1, <2>3 DEF Finds, Reads, Found
  <2>5. QED
    BY <1>2, <2>4
<1>4. CASE Goto(c, "load-legacy") \/ Raise(c)
  <2>1. pc'[c] \in {"load-legacy", "idle"}
    BY <1>1, <1>4 DEF Raise, Goto, TypeInv
  <2>2. Finds(c)'
    BY <2>1 DEF Finds, Reads, Found
  <2>3. QED
    BY <1>2, <2>2
<1>5. QED
  BY <1>3, <1>4 DEF LoadBackup

\* A replacement that the next load does not see, or that holds what it finds.
LEMMA ReplacedEffective ==
  ASSUME TypeInv, NEW f \in Files, NEW content,
         file' \in {file, [file EXCEPT ![f] = content]}, legacy' = legacy,
         \/ f = "backup" /\ Valid(file["primary"])
         \/ /\ Valid(content) /\ Effective = Bounded(content.data)
            /\ f = "backup" => ~Valid(file["primary"])
  PROVE  Effective' = Effective
<1>1. CASE file' = file
  BY <1>1, SameEffective
<1>2. CASE file' = [file EXCEPT ![f] = content]
  <2>1. file'[f] = content /\ \A g \in Files \ {f} : file'[g] = file[g]
    BY <1>2 DEF TypeInv
  <2>2. CASE f = "backup" /\ Valid(file["primary"])
    BY <2>1, <2>2 DEF Effective
  <2>3. CASE f = "backup" /\ ~Valid(file["primary"])
    <3>1. file'["primary"] = file["primary"] /\ file'["backup"] = content
      BY <2>1, <2>3
    <3>2. Valid(content) /\ Effective = Bounded(content.data)
      BY <2>3
    <3>3. Effective' = Bounded(content.data)
      BY <2>3, <3>1, <3>2 DEF Effective
    <3>4. QED
      BY <3>2, <3>3
  <2>4. CASE f = "primary"
    <3>1. file'["primary"] = content /\ Valid(content) /\ Effective = Bounded(content.data)
      BY <2>1, <2>4
    <3>2. Effective' = Bounded(content.data)
      BY <3>1 DEF Effective
    <3>3. QED
      BY <3>1, <3>2
  <2>5. QED
    BY <2>2, <2>3, <2>4
<1>3. QED
  BY <1>1, <1>2

LEMMA RestoreFinds ==
  ASSUME FindInv, NEW c \in Clients, Restore(c)
  PROVE  Finds(c)' /\ Effective' = Effective
<1> DEFINE restored == Encoded(Bounded(held[c].data))
<1>1. /\ pc[c] = "restore" /\ legacy' = legacy
      /\ TypeInv /\ Finds(c) /\ Relies(c) /\ held[c] \in Content
      /\ file' \in {file, [file EXCEPT !["primary"] = restored]}
      /\ Loaded(c, held[c]) \/ Raise(c)
  BY FindsFacts DEF Restore, TypeInv
<1>2. Valid(restored) /\ Bounded(restored.data) = Bounded(held[c].data)
  BY <1>1, RestoredPrimary
<1>3. Effective = Bounded(held[c].data)
  BY <1>1 DEF Finds, Reads, Found
<1> HIDE DEF restored
<1>4. Effective' = Effective
  BY <1>1, <1>2, <1>3, ReplacedEffective
<1>5. CASE Loaded(c, held[c])
  BY <1>1, <1>3, <1>4, <1>5, LoadedFinds
<1>6. CASE Raise(c)
  <2>1. pc'[c] = "idle"
    BY <1>1, <1>6 DEF Raise, Goto, TypeInv
  <2>2. QED
    BY <1>4, <2>1, IdleFinds
<1>7. QED
  BY <1>1, <1>5, <1>6

LEMMA LoadLegacyFinds ==
  ASSUME FindInv, NEW c \in Clients, LoadLegacy(c)
  PROVE  Finds(c)' /\ Effective' = Effective
<1>1. /\ pc[c] = "load-legacy" /\ UNCHANGED <<file, legacy>>
      /\ TypeInv /\ Relies(c)
  BY FindsFacts DEF LoadLegacy
<1>2. Effective' = Effective
  BY <1>1, SameEffective
<1>3. \A f \in Files : file[f] = Missing /\ ~Valid(file[f])
  BY <1>1 DEF Relies, NewFile, Valid
<1>4. CASE (\E f \in Files : ValidLegacy(f)) /\ Goto(c, "migrate-backup")
  <2> DEFINE current == Bounded(LegacyCurrent)
  <2>1. current \in Histories /\ Bounded(current) = current
    <3>1. LegacyCurrent \in Histories
      BY <1>1, <1>4, LegacyType DEF LegacyCurrent
    <3>2. DOMAIN LegacyCurrent \in SUBSET Hours
      BY <3>1, HistoryType
    <3>3. QED
      BY <3>1, <3>2, BoundedType, NewestTwice, BoundedTwice
  <2>2. pc'[c] = "migrate-backup" /\ held'[c] = Encoded(current)
    BY <1>1, <1>4 DEF LoadLegacy, Goto, TypeInv
  <2>3. current' = current /\ (\E f \in Files : ValidLegacy(f))'
    BY <1>1, <1>4 DEF LegacyCurrent, ValidLegacy
  <2>4. Effective = current
    BY <1>3, <1>4 DEF Effective
  <2> HIDE DEF current
  <2>5. held'[c].data = current
    BY <2>1, <2>2, EncodedType
  <2>6. Effective' = Bounded(held'[c].data)
    BY <1>2, <2>1, <2>4, <2>5
  <2>7. Finds(c)'
    BY <2>2, <2>3, <2>5, <2>6 DEF Finds, current
  <2>8. QED
    BY <1>2, <2>7
<1>5. CASE /\ ~\E f \in Files : ValidLegacy(f)
           /\ ~\E f \in Files : legacy[f] = Damaged
           /\ Goto(c, "first-backup")
  <2>1. pc'[c] = "first-backup"
    BY <1>1, <1>5 DEF Goto, TypeInv
  <2>2. \A f \in Files : legacy[f] = Missing /\ ~ValidLegacy(f)
    BY <1>5 DEF ValidLegacy
  <2>3. Effective = [h \in {} |-> Unavailable]
    BY <1>3, <2>2 DEF Effective
  <2>4. Finds(c)'
    BY <1>2, <2>1, <2>3 DEF Finds, Reads, Found
  <2>5. QED
    BY <1>2, <2>4
<1>6. CASE Goto(c, "idle")
  <2>1. pc'[c] = "idle"
    BY <1>1, <1>6 DEF Goto, TypeInv
  <2>2. QED
    BY <1>2, <2>1, IdleFinds
<1>7. QED
  BY <1>4, <1>5, <1>6 DEF LoadLegacy, Raise, Return

\* A file is written that leaves what the next load returns.
LEMMA WritesFinds ==
  ASSUME FindInv, NEW c \in Clients, NEW step, NEW f \in Files,
         NEW content \in Content, NEW next \in Reads \cup {"compact-primary"},
         Writes(c, step, f, content, next), next # "migrate-backup",
         next \in Reads => step \in Reads,
         next = "compact-primary" => step = "compact-backup",
         \/ f = "backup" /\ Valid(file["primary"])
         \/ /\ Valid(content) /\ Effective = Bounded(content.data)
            /\ f = "backup" => ~Valid(file["primary"])
  PROVE  Finds(c)' /\ Effective' = Effective
<1>1. next \in Steps
  BY DEF Reads, Found, Steps
<1>2. /\ pc'[c] \in {next, "idle"} /\ pc[c] = step
      /\ UNCHANGED <<legacy, batch, held>> /\ TypeInv /\ Finds(c)
  <2>1. TypeInv /\ Finds(c)
    BY FindsFacts
  <2>2. QED
    BY <1>1, <2>1, WritesStep
<1>3. Effective' = Effective
  <2>1. file' \in {file, [file EXCEPT ![f] = content]}
    BY DEF Writes
  <2>2. QED
    BY <1>2, <2>1, ReplacedEffective
<1>4. CASE pc'[c] = next
  <2>1. pc'[c] \in Reads => Effective' = Bounded(held'[c].data)
    BY <1>2, <1>3, <1>4 DEF Finds
  <2>2. pc'[c] = "compact-primary" => Effective' = Merged(held'[c].data, batch'[c])
    BY <1>2, <1>3, <1>4 DEF Finds
  <2>3. pc'[c] \notin {"load-backup", "first-backup", "first-primary",
                       "migrate-backup", "compact-backup"}
    BY <1>4 DEF Reads, Found
  <2>4. QED
    BY <1>3, <2>1, <2>2, <2>3 DEF Finds
<1>5. QED
  BY <1>2, <1>3, <1>4, IdleFinds

LEMMA MigrateBackupFinds ==
  ASSUME FindInv, NEW c \in Clients, MigrateBackup(c)
  PROVE  Finds(c)' /\ Effective' = Effective
<1> DEFINE data == IF ValidLegacy("backup") THEN Bounded(LegacyBackup) ELSE held[c].data
<1>1. pc[c] = "migrate-backup" /\ TypeInv /\ Finds(c) /\ Relies(c) /\ OneLegacy
  BY FindsFacts DEF MigrateBackup, Writes
<1>2. data = held[c].data
  <2>1. ValidLegacy("backup") => LegacyBackup = LegacyCurrent
    BY <1>1 DEF LegacyBackup, LegacyCurrent, OneLegacy
  <2>2. held[c].data = Bounded(LegacyCurrent)
    BY <1>1 DEF Finds
  <2>3. QED
    BY <2>1, <2>2
<1>3. Writes(c, "migrate-backup", "backup", Encoded(held[c].data), "migrate-primary")
  BY <1>2 DEF MigrateBackup
<1>4. file["primary"] = Missing /\ Sound(DOMAIN held[c].data)
  BY <1>1 DEF Relies, NewFile, Found
<1>5. /\ Encoded(held[c].data) \in Content /\ Valid(Encoded(held[c].data))
      /\ Encoded(held[c].data).data = held[c].data
  <2>1. held[c].data \in Histories
    BY <1>1, ContentParts DEF TypeInv
  <2>2. QED
    BY <1>4, <2>1, EncodedValid, EncodedType
<1>6. Effective = Bounded(Encoded(held[c].data).data) /\ ~Valid(file["primary"])
  BY <1>1, <1>4, <1>5 DEF Finds, Reads, Found, Valid
<1>7. "migrate-backup" \in Reads /\ "migrate-primary" \in Reads
  BY DEF Reads, Found
<1>8. QED
  BY <1>3, <1>5, <1>6, <1>7, WritesFinds

LEMMA MigratePrimaryFinds ==
  ASSUME FindInv, NEW c \in Clients, MigratePrimary(c)
  PROVE  Finds(c)' /\ Effective' = Effective
<1>1. /\ Writes(c, "migrate-primary", "primary", held[c], "unlink")
      /\ pc[c] = "migrate-primary" /\ TypeInv /\ Finds(c) /\ Relies(c)
  BY FindsFacts DEF MigratePrimary, Writes
<1>2. held[c] \in Content /\ Sound(DOMAIN held[c].data)
  BY <1>1 DEF Relies, Found, TypeInv
<1>3. Valid(held[c])
  BY <1>2, ContentValid
<1>4. Effective = Bounded(held[c].data)
  BY <1>1 DEF Finds, Reads, Found
<1>5. "migrate-primary" \in Reads /\ "unlink" \in Reads
  BY DEF Reads, Found
<1>6. QED
  BY <1>1, <1>2, <1>3, <1>4, <1>5, WritesFinds

LEMMA UnlinkFinds ==
  ASSUME FindInv, NEW c \in Clients, Unlink(c)
  PROVE  Finds(c)' /\ Effective' = Effective
<1>1. /\ pc[c] = "unlink" /\ file' = file
      /\ TypeInv /\ Finds(c) /\ Relies(c) /\ held[c] \in Content
      /\ Loaded(c, held[c]) \/ Raise(c)
  BY FindsFacts DEF Unlink, TypeInv
<1>2. Valid(file["primary"])
  BY <1>1 DEF Relies
<1>3. Effective' = Effective
  BY <1>1, <1>2 DEF Effective
<1>4. CASE Loaded(c, held[c])
  <2>1. Effective' = Bounded(held[c].data)
    BY <1>1, <1>3 DEF Finds, Reads, Found
  <2>2. QED
    BY <1>1, <1>3, <1>4, <2>1, LoadedFinds
<1>5. CASE Raise(c)
  <2>1. pc'[c] = "idle"
    BY <1>1, <1>5 DEF Raise, Goto, TypeInv
  <2>2. QED
    BY <1>3, <2>1, IdleFinds
<1>6. QED
  BY <1>1, <1>4, <1>5

LEMMA TidyBackupFinds ==
  ASSUME FindInv, NEW c \in Clients, TidyBackup(c)
  PROVE  Finds(c)' /\ Effective' = Effective
<1>1. /\ Writes(c, "tidy-backup", "backup", Encoded(held[c].data), "tidy-primary")
      /\ pc[c] = "tidy-backup" /\ TypeInv /\ Relies(c)
  BY FindsFacts DEF TidyBackup, Writes
<1>2. Encoded(held[c].data) \in Content /\ Valid(file["primary"])
  BY <1>1, LateRelies DEF Late
<1>3. "tidy-backup" \in Reads /\ "tidy-primary" \in Reads
  BY DEF Reads
<1>4. QED
  BY <1>1, <1>2, <1>3, WritesFinds

LEMMA RebuildFinds ==
  ASSUME FindInv, NEW c \in Clients, Rebuild(c)
  PROVE  Finds(c)' /\ Effective' = Effective
<1>1. /\ Writes(c, "rebuild", "backup", Encoded(held[c].data), "append")
      /\ pc[c] = "rebuild" /\ TypeInv /\ Relies(c)
  BY FindsFacts DEF Rebuild, Writes
<1>2. Encoded(held[c].data) \in Content /\ Valid(file["primary"])
  BY <1>1, LateRelies DEF Late
<1>3. "rebuild" \in Reads /\ "append" \in Reads
  BY DEF Reads
<1>4. QED
  BY <1>1, <1>2, <1>3, WritesFinds

LEMMA CompactBackupFinds ==
  ASSUME FindInv, NEW c \in Clients, CompactBackup(c)
  PROVE  Finds(c)' /\ Effective' = Effective
<1>1. /\ Writes(c, "compact-backup", "backup", Encoded(held[c].data), "compact-primary")
      /\ pc[c] = "compact-backup" /\ TypeInv /\ Relies(c)
  BY FindsFacts DEF CompactBackup, Writes
<1>2. Encoded(held[c].data) \in Content /\ Valid(file["primary"])
  BY <1>1, LateRelies DEF Late
<1>3. "compact-primary" \notin Reads
  BY DEF Reads, Found
<1>4. QED
  BY <1>1, <1>2, <1>3, WritesFinds


LEMMA FirstBackupFinds ==
  ASSUME FindInv, NEW c \in Clients, FirstBackup(c)
  PROVE  /\ Finds(c)' /\ batch[c] \in Batch /\ file["primary"] = Missing
         /\ file'["primary"] = Missing
         /\ Effective = [h \in {} |-> Unavailable]
         /\ Effective' \in {Effective, Rows(batch[c])}
<1> DEFINE content == Encoded(Rows(batch[c]))
<1>1. /\ Writes(c, "first-backup", "backup", content, "first-primary")
      /\ pc[c] = "first-backup" /\ TypeInv /\ Finds(c) /\ Relies(c)
  BY FindsFacts DEF FirstBackup, Writes
<1>2. batch[c] \in Batch /\ file["primary"] = Missing
  BY <1>1 DEF TypeInv, Knows, Relies, NewFile
<1>3. /\ content \in Content /\ "first-primary" \in Steps
      /\ Valid(content) /\ Bounded(content.data) = Rows(batch[c])
  BY <1>2, RowsSound, FirstRows DEF Steps
<1> HIDE DEF content
<1>4. /\ pc'[c] \in {"first-primary", "idle"} /\ UNCHANGED <<legacy, batch>>
      /\ pc'[c] # "idle" => file'["backup"] = content
      /\ file'["primary"] = file["primary"]
      /\ file' = file \/ file'["backup"] = content
  BY <1>1, <1>3, WritesStep DEF Writes, TypeInv
<1>5. Effective = [h \in {} |-> Unavailable]
  BY <1>1 DEF Finds
<1>6. file'["backup"] = content => Effective' = Rows(batch[c])
  <2>1. ~Valid(file'["primary"])
    BY <1>2, <1>4 DEF Valid
  <2>2. QED
    BY <1>3, <2>1 DEF Effective
<1>7. file' = file => Effective' = Effective
  BY <1>4, SameEffective
<1>8. Finds(c)'
  BY <1>4, <1>6 DEF Finds, Reads, Found
<1>9. QED
  BY <1>2, <1>4, <1>5, <1>6, <1>7, <1>8

LEMMA FirstPrimaryFinds ==
  ASSUME FindInv, NEW c \in Clients, FirstPrimary(c)
  PROVE  /\ Finds(c)' /\ pc'[c] = "idle" /\ batch[c] \in Batch
         /\ Effective = Rows(batch[c]) /\ Effective' = Effective
<1> DEFINE content == Encoded(Rows(batch[c]))
<1>1. /\ pc[c] = "first-primary" /\ TypeInv /\ Finds(c) /\ legacy' = legacy
      /\ file' \in {file, [file EXCEPT !["primary"] = content]}
      /\ Return(c, Rows(batch[c])) \/ Raise(c)
  BY FindsFacts DEF FirstPrimary
<1>2. batch[c] \in Batch /\ Effective = Rows(batch[c])
  BY <1>1 DEF TypeInv, Knows, Finds
<1>3. Valid(content) /\ Bounded(content.data) = Rows(batch[c])
  BY <1>2, FirstRows
<1> HIDE DEF content
<1>4. Effective' = Effective
  BY <1>1, <1>2, <1>3, ReplacedEffective
<1>5. pc'[c] = "idle"
  BY <1>1 DEF Return, Raise, Goto, TypeInv
<1>6. QED
  BY <1>2, <1>4, <1>5, IdleFinds

LEMMA TidyPrimaryFinds ==
  ASSUME FindInv, NEW c \in Clients, TidyPrimary(c)
  PROVE  Finds(c)' /\ Effective' = Effective
<1> DEFINE tidy == Encoded(held[c].data)
<1>1. /\ pc[c] = "tidy-primary" /\ legacy' = legacy
      /\ TypeInv /\ Relies(c) /\ Finds(c)
      /\ file' \in {file, [file EXCEPT !["primary"] = tidy]}
      /\ \/ held' = [held EXCEPT ![c] = tidy] /\ Goto(c, "check-backup")
         \/ Raise(c)
  BY FindsFacts DEF TidyPrimary
<1>2. held[c].data \in Histories /\ Valid(tidy)
  BY <1>1, LateRelies DEF Late
<1>3. tidy.data = held[c].data
  BY <1>2, EncodedType
<1>4. Effective = Bounded(held[c].data)
  BY <1>1 DEF Finds, Reads
<1> HIDE DEF tidy
<1>5. Effective' = Effective
  BY <1>1, <1>2, <1>3, <1>4, ReplacedEffective
<1>6. CASE held' = [held EXCEPT ![c] = tidy] /\ Goto(c, "check-backup")
  <2>1. pc'[c] = "check-backup" /\ held'[c] = tidy
    BY <1>1, <1>6 DEF Goto, TypeInv
  <2>2. Effective' = Bounded(held'[c].data)
    BY <1>3, <1>4, <1>5, <2>1
  <2>3. Finds(c)'
    BY <2>1, <2>2 DEF Finds
  <2>4. QED
    BY <1>5, <2>3
<1>7. CASE Raise(c)
  <2>1. pc'[c] = "idle"
    BY <1>1, <1>7 DEF Raise, Goto, TypeInv
  <2>2. QED
    BY <1>5, <2>1, IdleFinds
<1>8. QED
  BY <1>1, <1>6, <1>7

LEMMA CheckBackupFinds ==
  ASSUME FindInv, NEW c \in Clients, CheckBackup(c)
  PROVE  Finds(c)' /\ Effective' = Effective
<1>1. /\ pc[c] = "check-backup" /\ pc'[c] \in {"append", "rebuild"}
      /\ UNCHANGED <<file, legacy, batch, held>> /\ Finds(c)
  BY FindsFacts DEF CheckBackup, Goto, TypeInv
<1>2. Effective' = Effective
  BY <1>1, SameEffective
<1>3. Effective' = Bounded(held'[c].data)
  BY <1>1, <1>2 DEF Finds, Reads
<1>4. Finds(c)'
  BY <1>1, <1>3 DEF Finds
<1>5. QED
  BY <1>2, <1>4

\* The history a save appends to is the one the next load would find.
LEMMA AppendsTo ==
  ASSUME FindInv, NEW c \in Clients, pc[c] = "append"
  PROVE  /\ batch[c] \in Batch /\ held[c].data \in Histories
         /\ Effective = held[c].data /\ DOMAIN held[c].data # {}
<1>1. TypeInv /\ Relies(c) /\ Finds(c)
  BY FindsFacts
<1>2. /\ batch[c] \in Batch /\ held[c].data \in Histories
      /\ Newest(DOMAIN held[c].data) = DOMAIN held[c].data
      /\ Sound(DOMAIN held[c].data)
  BY <1>1, LateRelies DEF Late
<1>3. Effective = held[c].data
  BY <1>1, <1>2, BoundedTwice DEF Finds, Reads
<1>4. QED
  BY <1>2, <1>3 DEF Sound

\* The rows of a save before some hour.
Part(rows, hour) == [h \in {k \in DOMAIN rows : k < hour} |-> rows[h]]

LEMMA PartFacts ==
  ASSUME NEW rows \in Histories, NEW hour \in Nat
  PROVE  /\ Part(rows, hour) \in Histories
         /\ DOMAIN Part(rows, hour) = {k \in DOMAIN rows : k < hour}
         /\ \A h \in DOMAIN Part(rows, hour) : Part(rows, hour)[h] = rows[h]
         /\ Part(rows, MaxHour + 1) = rows
<1>1. ASSUME NEW limit \in Nat
      PROVE  /\ Part(rows, limit) \in Histories
             /\ DOMAIN Part(rows, limit) = {k \in DOMAIN rows : k < limit}
             /\ \A h \in DOMAIN Part(rows, limit) : Part(rows, limit)[h] = rows[h]
  <2> DEFINE written == {k \in DOMAIN rows : k < limit}
  <2>1. written \in SUBSET Hours /\ Part(rows, limit) \in [written -> Values]
    BY HistoryType DEF Part
  <2>2. QED
    BY <2>1 DEF Histories, Part
<1>2. Part(rows, MaxHour + 1) = rows
  <2>1. {k \in DOMAIN rows : k < MaxHour + 1} = DOMAIN rows
    <3>1. \A k \in DOMAIN rows : k \in 0..MaxHour
      BY HistoryType DEF Hours
    <3>2. \A k \in DOMAIN rows : k < MaxHour + 1
      BY <3>1, Numbers
    <3>3. QED
      BY <3>2
  <2>2. rows = [h \in DOMAIN rows |-> rows[h]]
    BY HistoryType
  <2>3. QED
    BY <2>1, <2>2 DEF Part
<1>3. QED
  BY <1>1, <1>2

LEMMA AppendFinds ==
  ASSUME FindInv, NEW c \in Clients, Append(c)
  PROVE  /\ Finds(c)'
         /\ Effective' = Merged(held[c].data, batch[c])
         /\ Effective' = Bounded(Over(Part(Bridged(held[c].data, batch[c]), MaxHour + 1),
                                      held[c].data))
<1> DEFINE rows == Bridged(held[c].data, batch[c])
           merged == Merged(held[c].data, batch[c])
<1>1. /\ pc[c] = "append" /\ UNCHANGED <<batch, held>> /\ TypeInv /\ Relies(c)
      /\ file' = [file EXCEPT !["primary"] = Appended(rows, FALSE)]
      /\ Goto(c, "compact-backup") \/ Return(c, merged)
  BY FindsFacts DEF Append
<1>2. rows \in Histories
  BY <1>1, AppendsTo, BridgedType
<1>3. Part(rows, MaxHour + 1) = rows
  BY <1>2, Numbers, PartFacts
<1>4. DOMAIN rows = {k \in DOMAIN rows : k < MaxHour + 1} /\ MaxHour + 1 \in Nat
  <2>1. MaxHour + 1 \in Nat
    BY Numbers
  <2> HIDE DEF rows
  <2>2. DOMAIN Part(rows, MaxHour + 1) = {k \in DOMAIN rows : k < MaxHour + 1}
    BY <1>2, <2>1, PartFacts
  <2>3. QED
    BY <1>3, <2>1, <2>2
<1>5. Effective' = Bounded(Over(rows, held[c].data))
  BY <1>1, <1>2, <1>4, AppendedEffective
<1>6. Effective' = merged
  BY <1>5 DEF Merged
<1>7. CASE Goto(c, "compact-backup")
  <2>1. pc'[c] = "compact-backup"
    BY <1>1, <1>7 DEF Goto, TypeInv
  <2>2. Effective' = Merged(held'[c].data, batch'[c])
    BY <1>1, <1>6
  <2>3. Finds(c)'
    BY <2>1, <2>2 DEF Finds, Reads, Found
  <2>4. QED
    BY <1>3, <1>5, <1>6, <2>3
<1>8. CASE Return(c, merged)
  <2>1. pc'[c] = "idle"
    BY <1>1, <1>8 DEF Return, Goto, TypeInv
  <2>2. QED
    BY <1>3, <1>5, <1>6, <2>1, IdleFinds
<1>9. QED
  BY <1>1, <1>7, <1>8

LEMMA CutFinds ==
  ASSUME FindInv, NEW c \in Clients, NEW hour \in Nat, NEW torn \in BOOLEAN,
         Cut(c, hour, torn)
  PROVE  /\ Finds(c)' /\ pc'[c] = "idle"
         /\ Effective' = Bounded(Over(Part(Bridged(held[c].data, batch[c]), hour),
                                      held[c].data))
<1> DEFINE rows == Bridged(held[c].data, batch[c])
           part == Part(rows, hour)
<1>1. /\ pc[c] = "append" /\ TypeInv /\ Relies(c)
      /\ file' = [file EXCEPT !["primary"] = Appended(part, torn)]
      /\ Raise(c) \/ pc' = [d \in Clients |-> "idle"]
  BY FindsFacts DEF Cut, Part
<1>2. rows \in Histories
  BY <1>1, AppendsTo, BridgedType
<1>3. part \in Histories /\ DOMAIN part = {k \in DOMAIN rows : k < hour}
  BY <1>2, PartFacts
<1> HIDE DEF part
<1>4. Effective' = Bounded(Over(part, held[c].data))
  BY <1>1, <1>3, AppendedEffective
<1>5. pc'[c] = "idle"
  BY <1>1 DEF Raise, Goto, TypeInv
<1>6. QED
  BY <1>4, <1>5, IdleFinds DEF part

LEMMA CompactPrimaryFinds ==
  ASSUME FindInv, NEW c \in Clients, CompactPrimary(c)
  PROVE  /\ Finds(c)' /\ pc'[c] = "idle" /\ batch[c] \in Batch /\ held[c].data \in Histories
         /\ Effective = Merged(held[c].data, batch[c]) /\ Effective' = Effective
<1> DEFINE merged == Merged(held[c].data, batch[c])
           content == Encoded(merged)
<1>1. /\ pc[c] = "compact-primary" /\ TypeInv /\ Relies(c) /\ Finds(c)
      /\ file' \in {file, [file EXCEPT !["primary"] = content]} /\ legacy' = legacy
      /\ Return(c, merged) \/ Raise(c)
  BY FindsFacts DEF CompactPrimary
<1>2. batch[c] \in Batch /\ held[c].data \in Histories
  BY <1>1, LateRelies DEF Late
<1>3. Valid(content) /\ content.data = merged /\ Bounded(merged) = merged
  BY <1>1, CompactedMerged
<1>4. Effective = merged
  BY <1>1 DEF Finds
<1>5. pc'[c] = "idle"
  BY <1>1 DEF Return, Raise, Goto, TypeInv
<1> HIDE DEF merged, content
<1>6. Effective' = Effective
  BY <1>1, <1>3, <1>4, ReplacedEffective
<1>7. QED
  BY <1>2, <1>4, <1>5, <1>6, IdleFinds DEF merged

LEMMA ReadFailsFinds ==
  ASSUME FindInv, NEW c \in Clients, ReadFails(c)
  PROVE  Finds(c)' /\ Effective' = Effective
<1>1. UNCHANGED <<file, legacy>> /\ pc'[c] = "idle"
  BY FindsFacts DEF ReadFails, Raise, Goto, TypeInv
<1>2. QED
  BY <1>1, SameEffective, IdleFinds

LEMMA FindInit == ASSUME OneVersionOnly PROVE Init => FindInv
<1> SUFFICES ASSUME Init PROVE FindInv
  OBVIOUS
<1>1. RemainInv
  BY RemainsInit
<1>2. OneLegacy
  <2>1. legacy \in LegacyFiles
    BY DEF Init
  <2>2. QED
    BY <2>1 DEF OneVersionOnly, OneLegacy, ValidLegacy
<1>3. \A c \in Clients : Finds(c)
  BY DEF Init, Finds, Reads, Found
<1>4. QED
  BY <1>1, <1>2, <1>3 DEF FindInv

LEMMA FindStep ==
  ASSUME OneClient, ~Backfills
  PROVE  FindInv /\ [Next]_vars => FindInv'
<1> SUFFICES ASSUME FindInv, [Next]_vars PROVE FindInv'
  OBVIOUS
<1>1. RemainInv'
  BY RemainsStep DEF FindInv
<1>2. OneLegacy'
  <2>1. \/ legacy' \in {legacy, [legacy EXCEPT !["primary"] = Missing]}
        \/ legacy' = [f \in Files |-> Missing]
    BY DEF Next, LoadStep, SaveStep, BeginLoad, LoadPrimary, LoadBackup, Restore,
       LoadLegacy, MigrateBackup, MigratePrimary, Unlink, BeginSave, FirstBackup,
       FirstPrimary, TidyBackup, TidyPrimary, CheckBackup, Rebuild, Append, Cut,
       CompactBackup, CompactPrimary, ReadFails, Crash, Damage, Writes, vars
  <2>2. QED
    BY <2>1 DEF FindInv, OneLegacy, ValidLegacy, RemainInv, TypeInv
<1>3. \A c \in Clients : Finds(c)'
  <2>1. ASSUME NEW c \in Clients, LoadStep(c) PROVE Finds(c)'
    BY <2>1, BeginFinds, LoadPrimaryFinds, LoadBackupFinds, RestoreFinds,
       LoadLegacyFinds, MigrateBackupFinds, MigratePrimaryFinds, UnlinkFinds DEF LoadStep
  <2>2. ASSUME NEW c \in Clients, SaveStep(c) PROVE Finds(c)'
    <3>1. CASE \E hour \in 0..(MaxHour + 1), torn \in BOOLEAN : Cut(c, hour, torn)
      <4>1. PICK hour \in 0..(MaxHour + 1), torn \in BOOLEAN : Cut(c, hour, torn)
        BY <3>1
      <4>2. hour \in Nat
        BY Numbers
      <4>3. QED
        BY <4>1, <4>2, CutFinds
    <3>2. QED
      BY <2>2, <3>1, BeginFinds, FirstBackupFinds, FirstPrimaryFinds, TidyBackupFinds,
         TidyPrimaryFinds, CheckBackupFinds, RebuildFinds, AppendFinds,
         CompactBackupFinds, CompactPrimaryFinds DEF SaveStep
  <2>3. CASE \E c \in Clients : LoadStep(c) \/ SaveStep(c) \/ ReadFails(c)
    <3>1. PICK c \in Clients : Finds(c)'
      BY <2>1, <2>2, <2>3, ReadFailsFinds
    <3>2. QED
      BY <3>1 DEF OneClient
  <2>4. CASE Crash \/ \E f \in Files : Damage(f)
    <3>1. \A c \in Clients : pc'[c] = "idle"
      BY <2>4 DEF Crash, Damage, clientVars
    <3>2. QED
      BY <3>1, IdleFinds
  <2>5. CASE UNCHANGED vars
    <3>1. UNCHANGED <<file, legacy, pc, batch, held>>
      BY <2>5 DEF vars, clientVars
    <3>2. Effective' = Effective
      BY <3>1, SameEffective
    <3>3. TAKE c \in Clients
    <3>4. Finds(c)
      BY DEF FindInv
    <3>5. QED
      BY <3>1, <3>2, <3>4 DEF Finds, LegacyCurrent, ValidLegacy
  <2>6. QED
    BY <2>3, <2>4, <2>5 DEF Next
<1>4. QED
  BY <1>1, <1>2, <1>3 DEF FindInv

-----------------------------------------------------------------------------
(* A single client keeps the hours of its saves. *)

\* The next load finds the acknowledged hours.
Kept == acked # {} => Effective # Lost /\ Fits(Effective, acked, allowed)

\* The values of a save under way may be found, and nothing was acknowledged before
\* the first save.
Owes(c) ==
  /\ pc[c] # "idle" /\ batch[c] # NoBatch =>
       \A h \in DOMAIN Rows(batch[c]) : batch[c].value \in allowed[h]
  /\ pc[c] \in {"first-backup", "first-primary"} => acked = {}

KeepInv == FindInv /\ (damage = 0 => Kept /\ \A c \in Clients : Owes(c))

LEMMA KeepsFacts ==
  ASSUME KeepInv, damage = 0, NEW c \in Clients
  PROVE  FindInv /\ TypeInv /\ Relies(c) /\ Kept /\ Owes(c)
BY FindsFacts DEF KeepInv

LEMMA IdleOwes ==
  ASSUME NEW c, pc'[c] = "idle"
  PROVE  Owes(c)'
BY DEF Owes

LEMMA SameKept ==
  ASSUME TypeInv, Kept, Effective' = Effective, acked' = acked,
         \A h \in Hours : allowed[h] \subseteq allowed'[h]
  PROVE  Kept'
<1>1. acked \in SUBSET Hours
  BY DEF TypeInv, GhostTypes
<1>2. QED
  BY <1>1 DEF Kept, Fits

\* A step that leaves what a load returns and what may be found.
LEMMA QuietKeeps ==
  ASSUME KeepInv, damage = 0, NEW c \in Clients, Effective' = Effective,
         UNCHANGED <<batch, acked, allowed>>, pc[c] # "idle",
         pc'[c] \in {"first-backup", "first-primary"} => acked = {}
  PROVE  Kept' /\ Owes(c)'
BY KeepsFacts, SameKept DEF Owes

LEMMA QuietActions ==
  ASSUME TypeInv, NEW c \in Clients,
         \/ LoadPrimary(c) \/ LoadBackup(c) \/ Restore(c) \/ MigrateBackup(c)
         \/ MigratePrimary(c) \/ Unlink(c) \/ TidyBackup(c) \/ TidyPrimary(c)
         \/ CheckBackup(c) \/ Rebuild(c) \/ CompactBackup(c) \/ ReadFails(c)
  PROVE  /\ UNCHANGED <<batch, acked, allowed>> /\ pc[c] # "idle"
         /\ pc'[c] \notin {"first-backup", "first-primary"}
<1>1. /\ UNCHANGED <<batch, acked, allowed>> /\ pc[c] # "idle"
      /\ \E next \in Steps \ {"first-backup", "first-primary"} : Goto(c, next)
  BY DEF LoadPrimary, LoadBackup, Restore, MigrateBackup, MigratePrimary, Unlink,
     TidyBackup, TidyPrimary, CheckBackup, Rebuild, CompactBackup, ReadFails,
     Loaded, Return, Raise, Writes, Steps, ghosts
<1>2. QED
  BY <1>1 DEF Goto, TypeInv

LEMMA QuietActionsKeep ==
  ASSUME KeepInv, damage = 0, NEW c \in Clients,
         \/ LoadPrimary(c) \/ LoadBackup(c) \/ Restore(c) \/ MigrateBackup(c)
         \/ MigratePrimary(c) \/ Unlink(c) \/ TidyBackup(c) \/ TidyPrimary(c)
         \/ CheckBackup(c) \/ Rebuild(c) \/ CompactBackup(c) \/ ReadFails(c)
  PROVE  Kept' /\ Owes(c)'
<1>1. FindInv /\ TypeInv
  BY KeepsFacts
<1>2. Effective' = Effective
  BY <1>1, LoadPrimaryFinds, LoadBackupFinds, RestoreFinds, MigrateBackupFinds,
     MigratePrimaryFinds, UnlinkFinds, TidyBackupFinds, TidyPrimaryFinds,
     CheckBackupFinds, RebuildFinds, CompactBackupFinds, ReadFailsFinds
<1>3. /\ UNCHANGED <<batch, acked, allowed>> /\ pc[c] # "idle"
      /\ pc'[c] \notin {"first-backup", "first-primary"}
  BY <1>1, QuietActions
<1>4. QED
  BY <1>2, <1>3, QuietKeeps

LEMMA BeginLoadKeeps ==
  ASSUME KeepInv, damage = 0, NEW c \in Clients, BeginLoad(c)
  PROVE  Kept' /\ Owes(c)'
<1>1. FindInv /\ TypeInv
  BY KeepsFacts
<1>2. /\ pc'[c] = "load-primary" /\ batch'[c] = NoBatch
      /\ UNCHANGED <<acked, allowed>> /\ Effective' = Effective
  BY <1>1, BeginFinds DEF BeginLoad, Goto, TypeInv, ghosts
<1>3. QED
  BY <1>2, KeepsFacts, SameKept DEF Owes

LEMMA BeginSaveKeeps ==
  ASSUME KeepInv, damage = 0, NEW c \in Clients, NEW first \in Hours, NEW last \in Hours,
         BeginSave(c, first, last)
  PROVE  Kept' /\ Owes(c)'
<1> DEFINE b == [first |-> first, last |-> last, value |-> saves + 1]
<1>1. /\ TypeInv /\ pc'[c] = "load-primary" /\ batch'[c] = b /\ acked' = acked
      /\ allowed' = [h \in Hours |-> IF h \in DOMAIN Rows(b)
                                     THEN allowed[h] \cup {b.value} ELSE allowed[h]]
  BY KeepsFacts DEF BeginSave, Goto, TypeInv
<1>2. Effective' = Effective
  BY KeepsFacts, BeginFinds
<1>3. Kept'
  <2>1. \A h \in Hours : allowed[h] \subseteq allowed'[h]
    BY <1>1
  <2>2. QED
    BY <1>1, <1>2, <2>1, KeepsFacts, SameKept
<1>4. \A h \in DOMAIN Rows(b) : b.value \in allowed'[h]
  <2>1. DOMAIN Rows(b) \subseteq Hours
    BY Numbers DEF Rows, Hours
  <2> HIDE DEF b
  <2>2. QED
    BY <1>1, <2>1
<1> HIDE DEF b
<1>5. Owes(c)'
  BY <1>1, <1>4 DEF Owes
<1>6. QED
  BY <1>3, <1>5

\* A store without any file never had an acknowledged hour.
LEMMA NothingAcknowledged ==
  ASSUME TypeInv, Kept, \A f \in Files : file[f] = Missing /\ legacy[f] = Missing
  PROVE  acked = {}
<1> DEFINE nothing == [h \in {} |-> Unavailable]
<1>1. \A f \in Files : ~Valid(file[f]) /\ ~ValidLegacy(f)
  BY DEF Valid, ValidLegacy
<1>2. Effective = nothing
  BY <1>1 DEF Effective
<1>3. DOMAIN nothing = {}
  OBVIOUS
<1> HIDE DEF nothing
<1>4. ASSUME NEW h \in acked PROVE FALSE
  <2>1. Cardinality(Above(DOMAIN nothing, h)) = 0 /\ h \notin DOMAIN nothing
    <3>1. Above(DOMAIN nothing, h) = {}
      BY <1>3 DEF Above
    <3>2. QED
      BY <1>3, <3>1, FS_EmptySet
  <2>2. Fits(nothing, acked, allowed)
    BY <1>2, <1>4 DEF Kept
  <2>3. ~(Cardinality(Above(DOMAIN nothing, h)) >= MaxValues)
    BY <2>1, Numbers
  <2>4. QED
    BY <1>4, <2>1, <2>2, <2>3 DEF Fits
<1>5. QED
  BY <1>4

LEMMA LoadLegacyKeeps ==
  ASSUME KeepInv, damage = 0, NEW c \in Clients, LoadLegacy(c)
  PROVE  Kept' /\ Owes(c)'
<1>1. /\ pc[c] = "load-legacy" /\ UNCHANGED <<batch, acked, allowed>>
      /\ FindInv /\ TypeInv /\ Kept /\ Relies(c)
  BY KeepsFacts DEF LoadLegacy, ghosts
<1>2. Effective' = Effective
  BY <1>1, LoadLegacyFinds
<1>3. pc'[c] \in {"first-backup", "first-primary"} => acked = {}
  <2>1. SUFFICES ASSUME pc'[c] \in {"first-backup", "first-primary"} PROVE acked = {}
    OBVIOUS
  <2>2. \A f \in Files : ~ValidLegacy(f) /\ legacy[f] # Damaged
    BY <1>1, <2>1 DEF LoadLegacy, Raise, Return, Goto, TypeInv
  <2>3. \A f \in Files : file[f] = Missing /\ legacy[f] = Missing
    BY <1>1, <2>2 DEF Relies, NewFile, ValidLegacy
  <2>4. QED
    BY <1>1, <2>3, NothingAcknowledged
<1>4. QED
  BY <1>1, <1>2, <1>3, QuietKeeps

LEMMA FirstBackupKeeps ==
  ASSUME KeepInv, damage = 0, NEW c \in Clients, FirstBackup(c)
  PROVE  Kept' /\ Owes(c)'
<1>1. pc[c] = "first-backup" /\ UNCHANGED <<batch, acked, allowed>> /\ Owes(c)
  BY KeepsFacts DEF FirstBackup, Writes, ghosts
<1>2. QED
  BY <1>1 DEF Owes, Kept

\* A save returns the history the next load finds.
LEMMA AcknowledgedKept ==
  ASSUME TypeInv, NEW c \in Clients, batch[c] \in Batch, Acknowledge(c),
         NEW history \in Histories, Effective' = history,
         Fits(history, acked, allowed), Fits(history, DOMAIN Rows(batch[c]), allowed')
  PROVE  Kept'
<1>1. Fits(history, acked', allowed')
  BY AcknowledgeFits
<1>2. history # Lost
  BY DistinctAssumption
<1>3. QED
  BY <1>1, <1>2 DEF Kept

LEMMA FirstPrimaryKeeps ==
  ASSUME KeepInv, damage = 0, NEW c \in Clients, FirstPrimary(c)
  PROVE  Kept' /\ Owes(c)'
<1> DEFINE rows == Rows(batch[c])
<1>1. /\ pc[c] = "first-primary" /\ TypeInv /\ FindInv /\ Owes(c) /\ Kept
      /\ Acknowledge(c) \/ UNCHANGED ghosts
  BY KeepsFacts DEF FirstPrimary
<1>2. /\ batch[c] \in Batch /\ pc'[c] = "idle"
      /\ Effective = rows /\ Effective' = rows
  BY <1>1, FirstPrimaryFinds
<1>3. CASE Acknowledge(c)
  <2>1. rows \in Histories /\ acked = {}
    BY <1>1, <1>2, FirstRows DEF Owes
  <2>2. \A h \in DOMAIN rows : batch[c].value \in allowed'[h]
    BY <1>2, <1>3, AcknowledgeAllows
  <2>3. Fits(rows, acked, allowed) /\ Fits(rows, DOMAIN rows, allowed')
    BY <1>2, <2>1, <2>2, RowsFit, Nothing DEF Fits
  <2>4. Kept'
    BY <1>1, <1>2, <1>3, <2>1, <2>3, AcknowledgedKept
  <2>5. QED
    BY <1>2, <2>4, IdleOwes
<1>4. CASE UNCHANGED ghosts
  BY <1>1, <1>2, <1>4, SameKept, IdleOwes DEF ghosts
<1>5. QED
  BY <1>1, <1>3, <1>4

\* What a save knows when it appends: the history fits, and its value may be found.
LEMMA AppendKnows ==
  ASSUME KeepInv, damage = 0, NEW c \in Clients, pc[c] = "append"
  PROVE  /\ batch[c] \in Batch /\ held[c].data \in Histories
         /\ acked \in SUBSET Hours
         /\ Fits(held[c].data, acked, allowed)
         /\ \A h \in DOMAIN Rows(batch[c]) : batch[c].value \in allowed[h]
<1>1. FindInv /\ TypeInv /\ Owes(c) /\ Kept
  BY KeepsFacts
<1>2. batch[c] \in Batch /\ held[c].data \in Histories /\ Effective = held[c].data
  BY <1>1, AppendsTo
<1>3. acked \in SUBSET Hours
  BY <1>1 DEF TypeInv, GhostTypes
<1>4. Fits(held[c].data, acked, allowed)
  BY <1>1, <1>2 DEF Kept, Fits
<1>5. QED
  BY <1>1, <1>2, <1>3, <1>4, DistinctAssumption DEF Owes

LEMMA AppendKeeps ==
  ASSUME KeepInv, damage = 0, NEW c \in Clients, Append(c)
  PROVE  Kept' /\ Owes(c)'
<1> DEFINE rows == Bridged(held[c].data, batch[c])
           merged == Merged(held[c].data, batch[c])
<1>1. /\ pc[c] = "append" /\ TypeInv /\ FindInv /\ Owes(c) /\ batch' = batch
      /\ \/ Goto(c, "compact-backup") /\ UNCHANGED ghosts
         \/ Return(c, merged) /\ Acknowledge(c)
  BY KeepsFacts DEF Append
<1>2. /\ batch[c] \in Batch /\ held[c].data \in Histories /\ acked \in SUBSET Hours
      /\ Fits(held[c].data, acked, allowed)
      /\ \A h \in DOMAIN Rows(batch[c]) : batch[c].value \in allowed[h]
  BY <1>1, AppendKnows
<1>3. Effective' = merged
  BY <1>1, AppendFinds
<1>4. Fits(merged, acked, allowed)
  <2>1. rows \in Histories
    BY <1>2, BridgedType
  <2>2. Fits(Bounded(Over(rows, held[c].data)), acked, allowed)
    BY <1>2, <2>1, FitsRows
  <2>3. QED
    BY <2>2 DEF Merged
<1>5. merged \in Histories /\ merged # Lost
  BY <1>2, MergedType, DistinctAssumption
<1>6. CASE Goto(c, "compact-backup") /\ UNCHANGED ghosts
  <2>1. pc'[c] = "compact-backup" /\ pc[c] # "idle" /\ UNCHANGED <<acked, allowed>>
    BY <1>1, <1>6 DEF Goto, TypeInv, ghosts
  <2>2. Kept'
    BY <1>3, <1>4, <1>5, <2>1 DEF Kept
  <2>3. Owes(c)'
    BY <1>1, <2>1 DEF Owes
  <2>4. QED
    BY <2>2, <2>3
<1>7. CASE Return(c, merged) /\ Acknowledge(c)
  <2>1. pc'[c] = "idle"
    BY <1>1, <1>7 DEF Return, Goto, TypeInv
  <2>2. \A h \in DOMAIN Rows(batch[c]) : batch[c].value \in allowed'[h]
    BY <1>2, <1>7, AcknowledgeAllows
  <2>3. Fits(merged, DOMAIN Rows(batch[c]), allowed')
    BY <1>2, <2>2, RowsFit
  <2> HIDE DEF merged
  <2>4. Kept'
    BY <1>1, <1>2, <1>3, <1>4, <1>5, <1>7, <2>3, AcknowledgedKept
  <2>5. QED
    BY <2>1, <2>4, IdleOwes
<1>8. QED
  BY <1>1, <1>6, <1>7

LEMMA CutKeeps ==
  ASSUME KeepInv, damage = 0, NEW c \in Clients, NEW hour \in Nat, NEW torn \in BOOLEAN,
         Cut(c, hour, torn)
  PROVE  Kept' /\ Owes(c)'
<1> DEFINE rows == Bridged(held[c].data, batch[c])
           part == Part(rows, hour)
<1>1. pc[c] = "append" /\ FindInv /\ UNCHANGED <<acked, allowed>>
  BY KeepsFacts DEF Cut, ghosts
<1>2. /\ batch[c] \in Batch /\ held[c].data \in Histories /\ acked \in SUBSET Hours
      /\ Fits(held[c].data, acked, allowed)
      /\ \A h \in DOMAIN Rows(batch[c]) : batch[c].value \in allowed[h]
  BY <1>1, AppendKnows
<1>3. rows \in Histories
  BY <1>2, BridgedType
<1>4. /\ part \in Histories /\ DOMAIN part \subseteq DOMAIN rows
      /\ \A h \in DOMAIN part : part[h] = rows[h]
  BY <1>3, PartFacts
<1>5. pc'[c] = "idle" /\ Effective' = Bounded(Over(part, held[c].data))
  BY <1>1, CutFinds
<1> HIDE DEF part
<1>6. Fits(Bounded(Over(part, held[c].data)), acked, allowed)
  BY <1>2, <1>4, FitsRows
<1>7. Bounded(Over(part, held[c].data)) # Lost
  BY <1>2, <1>4, OverType, BoundedType, DistinctAssumption
<1>8. Kept'
  BY <1>1, <1>5, <1>6, <1>7 DEF Kept
<1>9. QED
  BY <1>5, <1>8, IdleOwes

LEMMA CompactPrimaryKeeps ==
  ASSUME KeepInv, damage = 0, NEW c \in Clients, CompactPrimary(c)
  PROVE  Kept' /\ Owes(c)'
<1> DEFINE merged == Merged(held[c].data, batch[c])
<1>1. /\ TypeInv /\ FindInv /\ Kept
      /\ Acknowledge(c) \/ UNCHANGED ghosts
  BY KeepsFacts DEF CompactPrimary
<1>2. /\ batch[c] \in Batch /\ held[c].data \in Histories /\ pc'[c] = "idle"
      /\ Effective = merged /\ Effective' = merged
  BY <1>1, CompactPrimaryFinds
<1>3. CASE Acknowledge(c)
  <2>1. \A h \in DOMAIN Rows(batch[c]) : batch[c].value \in allowed'[h]
    BY <1>2, <1>3, AcknowledgeAllows
  <2>2. Fits(merged, DOMAIN Rows(batch[c]), allowed') /\ merged \in Histories
    BY <1>2, <2>1, RowsFit, MergedType
  <2> HIDE DEF merged
  <2>3. Fits(merged, acked, allowed)
    BY <1>1, <1>2 DEF Kept, Fits
  <2>4. Kept'
    BY <1>1, <1>2, <1>3, <2>2, <2>3, AcknowledgedKept
  <2>5. QED
    BY <1>2, <2>4, IdleOwes
<1>4. CASE UNCHANGED ghosts
  BY <1>1, <1>2, <1>4, SameKept, IdleOwes DEF ghosts
<1>5. QED
  BY <1>1, <1>3, <1>4

-----------------------------------------------------------------------------
LEMMA KeepInit == ASSUME OneVersionOnly PROVE Init => KeepInv
<1> SUFFICES ASSUME Init PROVE KeepInv
  OBVIOUS
<1>1. FindInv /\ TypeInv
  BY FindInit DEF FindInv, RemainInv
<1>2. \A c \in Clients : Owes(c)
  BY DEF Init, Owes
<1>3. Kept
  <2>1. \A f \in Files : file[f] = Missing /\ ~Valid(file[f])
    BY DEF Init, Valid
  <2>2. CASE \E f \in Files : ValidLegacy(f)
    <3>1. /\ acked = DOMAIN LegacyCurrent
          /\ allowed = [h \in Hours |-> IF h \in DOMAIN LegacyCurrent
                                        THEN {LegacyCurrent[h]} ELSE {Unavailable}]
      BY <2>2 DEF Init
    <3>2. Effective = Bounded(LegacyCurrent)
      BY <2>1, <2>2 DEF Effective
    <3>3. LegacyCurrent \in Histories
      BY <1>1, <2>2, LegacyType DEF LegacyCurrent
    <3> DEFINE current == LegacyCurrent
    <3>4. DOMAIN current \in SUBSET Hours
      BY <3>3, HistoryType
    <3> HIDE DEF current
    <3>5. Fits(current, acked, allowed)
      BY <3>1, <3>4 DEF Fits, current
    <3>6. Fits(Bounded(current), acked, allowed) /\ Bounded(current) # Lost
      BY <3>1, <3>3, <3>4, <3>5, FitsBounded, BoundedType, DistinctAssumption DEF current
    <3>7. QED
      BY <3>2, <3>6 DEF Kept, current
  <2>3. CASE ~\E f \in Files : ValidLegacy(f)
    <3>1. acked = {}
      BY <2>3, Nothing DEF Init
    <3>2. QED
      BY <3>1 DEF Kept
  <2>4. QED
    BY <2>2, <2>3
<1>4. QED
  BY <1>1, <1>2, <1>3 DEF KeepInv

LEMMA DamageCounts == [Next]_vars => damage' = damage \/ damage' = damage + 1
<1>1. ASSUME NEW c \in Clients, LoadStep(c) PROVE damage' = damage
  BY <1>1 DEF LoadStep, BeginLoad, LoadPrimary, LoadBackup, Restore, LoadLegacy,
     MigrateBackup, MigratePrimary, Unlink, Writes, ghosts
<1>2. ASSUME NEW c \in Clients, SaveStep(c) PROVE damage' = damage
  BY <1>2 DEF SaveStep, BeginSave, FirstBackup, FirstPrimary, TidyBackup,
     TidyPrimary, CheckBackup, Rebuild, Append, Cut, CompactBackup, CompactPrimary,
     Writes, Acknowledge, ghosts
<1>3. QED
  BY <1>1, <1>2 DEF Next, ReadFails, Crash, Damage, ghosts, vars

LEMMA KeepStep ==
  ASSUME OneClient, ~Backfills
  PROVE  KeepInv /\ [Next]_vars => KeepInv'
<1> SUFFICES ASSUME KeepInv, [Next]_vars PROVE KeepInv'
  OBVIOUS
<1>1. FindInv'
  BY FindStep DEF KeepInv
<1>2. damage' = 0 => damage = 0
  <2>1. damage \in Nat
    BY DEF KeepInv, FindInv, RemainInv, TypeInv, GhostTypes
  <2>2. QED
    BY <2>1, DamageCounts
<1>3. ASSUME damage' = 0 PROVE Kept' /\ \A c \in Clients : Owes(c)'
  <2>1. damage = 0
    BY <1>2, <1>3
  <2>2. ASSUME NEW c \in Clients, LoadStep(c) PROVE Kept' /\ Owes(c)'
    BY <2>1, <2>2, BeginLoadKeeps, LoadLegacyKeeps, QuietActionsKeep DEF LoadStep
  <2>3. ASSUME NEW c \in Clients, SaveStep(c) PROVE Kept' /\ Owes(c)'
    <3>1. CASE \E hour \in 0..(MaxHour + 1), torn \in BOOLEAN : Cut(c, hour, torn)
      <4>1. PICK hour \in 0..(MaxHour + 1), torn \in BOOLEAN : Cut(c, hour, torn)
        BY <3>1
      <4>2. hour \in Nat
        BY Numbers
      <4>3. QED
        BY <2>1, <4>1, <4>2, CutKeeps
    <3>2. QED
      BY <2>1, <2>3, <3>1, BeginSaveKeeps, FirstBackupKeeps, FirstPrimaryKeeps,
         QuietActionsKeep, AppendKeeps, CompactPrimaryKeeps DEF SaveStep
  <2>4. CASE \E c \in Clients : LoadStep(c) \/ SaveStep(c) \/ ReadFails(c)
    <3>1. PICK c \in Clients : Kept' /\ Owes(c)'
      BY <2>1, <2>2, <2>3, <2>4, QuietActionsKeep
    <3>2. QED
      BY <3>1 DEF OneClient
  <2>5. CASE Crash
    <3>1. UNCHANGED <<file, legacy, acked, allowed>> /\ TypeInv /\ Kept
      BY <2>1, <2>5 DEF Crash, ghosts, KeepInv, FindInv, RemainInv
    <3>2. \A c \in Clients : pc'[c] = "idle"
      BY <2>5 DEF Crash
    <3>3. QED
      BY <3>1, <3>2, SameEffective, SameKept, IdleOwes
  <2>6. CASE \E f \in Files : Damage(f)
    <3>1. damage' = damage + 1
      BY <2>6 DEF Damage
    <3>2. QED
      BY <1>3, <2>1, <3>1
  <2>7. CASE UNCHANGED vars
    <3>1. UNCHANGED <<file, legacy, pc, batch, acked, allowed>> /\ TypeInv /\ Kept
      BY <2>1, <2>7 DEF vars, clientVars, ghosts, KeepInv, FindInv, RemainInv
    <3>2. Kept'
      BY <3>1, SameEffective, SameKept
    <3>3. ASSUME NEW c \in Clients PROVE Owes(c)'
      <4>1. Owes(c)
        BY <2>1 DEF KeepInv
      <4>2. QED
        BY <3>1, <4>1 DEF Owes
    <3>4. QED
      BY <3>2, <3>3
  <2>8. QED
    BY <2>4, <2>5, <2>6, <2>7 DEF Next
<1>4. QED
  BY <1>1, <1>3 DEF KeepInv

\* A single client whose saves do not start before the history loses no hour of a
\* save that returned: whatever append, compaction or migration was interrupted, and
\* however often, the next load finds the hour with its value or that of a later save,
\* unless the retention dropped it. The history an earlier version left is kept the
\* same way if its files agree: an interrupted migration can restore the older one
\* (load_history, save and _migrate_legacy of household_load_store.py).
THEOREM HouseholdObservationsKept ==
  ASSUME OneClient, ~Backfills, OneVersionOnly
  PROVE  Spec => []ObservationsKept
<1>1. Init => KeepInv
  BY KeepInit
<1>2. KeepInv /\ [Next]_vars => KeepInv'
  BY KeepStep
<1>3. KeepInv => ObservationsKept
  <2>1. ASSUME KeepInv, damage = 0, NEW h \in acked
        PROVE  /\ Effective # Lost
               /\ Trimmed(Effective, h) \/ (h \in DOMAIN Effective /\ Effective[h] \in allowed[h])
    BY <2>1 DEF KeepInv, Kept, Fits, Trimmed, Above
  <2>2. QED
    BY <2>1 DEF ObservationsKept
<1>4. QED
  BY <1>1, <1>2, <1>3, PTL DEF Spec

-----------------------------------------------------------------------------
(* The files together are one durable history. *)

\* A step of the store seen as a step of DurableHistory.
HistoryStep == Durable!Next \/ UNCHANGED <<Effective, Fallback, damage>>

LEMMA ContentRetained ==
  ASSUME NEW content \in {Missing, Damaged} \cup Content, Valid(content)
  PROVE  Bounded(content.data) \in Retained
<1>1. content \in Content /\ Contiguous(Newest(DOMAIN content.data))
  BY DEF Valid
<1>2. content.data \in Histories
  BY <1>1, ContentParts
<1>3. QED
  BY <1>1, <1>2, BoundedType, Numbers DEF Retained

LEMMA EffectiveRetained == TypeInv => Effective \in Retained \cup {Lost}
<1> SUFFICES ASSUME TypeInv PROVE Effective \in Retained \cup {Lost}
  OBVIOUS
<1>1. ASSUME NEW f \in Files, Valid(file[f]) PROVE Bounded(file[f].data) \in Retained
  BY <1>1, ContentRetained DEF TypeInv
<1>2. ASSUME \E f \in Files : ValidLegacy(f) PROVE Bounded(LegacyCurrent) \in Retained
  <2>1. LegacyCurrent \in Histories /\ Contiguous(DOMAIN LegacyCurrent)
    BY <1>2 DEF LegacyCurrent, ValidLegacy, TypeInv, LegacyContents
  <2>2. DOMAIN LegacyCurrent \in SUBSET Hours
    BY <2>1, HistoryType
  <2>3. Contiguous(Newest(DOMAIN LegacyCurrent))
    BY <2>1, <2>2, NewestContiguous
  <2>4. QED
    BY <2>1, <2>3, BoundedType, Numbers DEF Retained
<1>3. [h \in {} |-> Unavailable] \in Retained
  BY Nothing, FS_EmptySet, Numbers DEF Retained, Contiguous
<1>4. QED
  BY <1>1, <1>2, <1>3 DEF Effective

LEMMA NextRetained == TypeInv' => Effective' \in Retained \cup {Lost}
<1>1. (TypeInv => Effective \in Retained \cup {Lost})'
  BY EffectiveRetained, PTL
<1>2. QED
  BY <1>1

\* As long as the primary is missing nothing else remains than what a load returns;
\* a backup that can be read is what remains otherwise.
LEMMA BackedFallback ==
  ASSUME Valid(file["backup"])
  PROVE  Fallback = Bounded(file["backup"].data)
BY DEF Fallback, Effective, Valid

LEMMA BackedFallbackNext ==
  ASSUME Valid(file'["backup"])
  PROVE  Fallback' = Bounded(file'["backup"].data)
BY DEF Fallback, Effective, Valid

LEMMA UnreadStep ==
  ASSUME UNCHANGED <<file, legacy, damage>>
  PROVE  HistoryStep
<1>1. Effective' = Effective
  BY SameEffective
<1>2. QED
  BY <1>1 DEF HistoryStep, Fallback

LEMMA BackedStep ==
  ASSUME Valid(file["backup"]), file'["backup"] = file["backup"], Effective' = Effective,
         damage' = damage
  PROVE  HistoryStep
<1>1. Fallback' = Fallback
  BY BackedFallback, BackedFallbackNext
<1>2. QED
  BY <1>1 DEF HistoryStep

\* The backup is replaced and what a load returns stays: by that itself, or by what it
\* was before the append.
LEMMA ShelvedStep ==
  ASSUME NEW history, Valid(Encoded(history)), Bounded(Encoded(history).data) = history,
         file' = file \/ file' = [file EXCEPT !["backup"] = Encoded(history)],
         legacy' = legacy, damage' = damage, Effective' = Effective, Effective # Lost,
         history = Effective \/ <<history, Effective>> \in Extends, TypeInv
  PROVE  HistoryStep
<1>1. CASE file' = file
  BY <1>1, UnreadStep
<1>2. CASE file' = [file EXCEPT !["backup"] = Encoded(history)]
  <2>1. file'["backup"] = Encoded(history)
    BY <1>2 DEF TypeInv
  <2>2. Fallback' = history
    BY <2>1, BackedFallbackNext
  <2>3. CASE Fallback' = Fallback
    BY <2>3 DEF HistoryStep
  <2>4. CASE Fallback' # Fallback
    <3>1. Durable!Shelve
      BY <2>2, <2>4 DEF Durable!Shelve
    <3>2. QED
      BY <3>1 DEF HistoryStep, Durable!Next
  <2>5. QED
    BY <2>3, <2>4
<1>3. QED
  BY <1>1, <1>2

\* What an append makes of a history is one of its extensions.
LEMMA WrittenExtends ==
  ASSUME NEW history \in Retained, DOMAIN history # {}, NEW b \in Batch,
         NEW hour \in 0..(MaxHour + 1), NEW result \in Retained,
         result = Bounded(Over(Part(Bridged(history, b), hour), history))
  PROVE  <<history, result>> \in Extends
<1>1. result = Written(history, b, hour)
  BY DEF Written, Part
<1>2. history \in {h \in Retained : DOMAIN h # {}}
  OBVIOUS
<1>3. <<history, result>>[2] = result
  OBVIOUS
<1>4. QED
  BY <1>1, <1>2, <1>3 DEF Extends

LEMMA MergedExtends ==
  ASSUME NEW history \in Retained, DOMAIN history # {}, NEW b \in Batch,
         NEW result \in Retained, result = Merged(history, b)
  PROVE  <<history, result>> \in Extends
<1>1. history \in Histories /\ Bridged(history, b) \in Histories
  BY BridgedType DEF Retained
<1>2. Part(Bridged(history, b), MaxHour + 1) = Bridged(history, b)
  BY <1>1, Numbers, PartFacts
<1>3. result = Bounded(Over(Part(Bridged(history, b), MaxHour + 1), history))
  BY <1>2 DEF Merged
<1>4. MaxHour + 1 \in 0..(MaxHour + 1)
  BY Numbers
<1>5. QED
  BY <1>3, <1>4, WrittenExtends

-----------------------------------------------------------------------------
(* Every action is a step of the durable history, or none. *)

LEMMA LoadImplements ==
  ASSUME FindInv, NEW c \in Clients,
         \/ BeginLoad(c) \/ LoadPrimary(c) \/ LoadBackup(c) \/ LoadLegacy(c)
         \/ CheckBackup(c) \/ ReadFails(c)
         \/ \E first, last \in Hours : BeginSave(c, first, last)
  PROVE  HistoryStep
<1>1. UNCHANGED <<file, legacy, damage>>
  BY DEF BeginLoad, LoadPrimary, LoadBackup, LoadLegacy, CheckBackup, ReadFails,
     BeginSave, ghosts
<1>2. QED
  BY <1>1, UnreadStep

\* A file is replaced, and the backup could be read before and after.
LEMMA PrimaryImplements ==
  ASSUME FindInv, NEW c \in Clients,
         \/ Restore(c) \/ MigratePrimary(c) \/ Unlink(c) \/ FirstPrimary(c)
         \/ TidyPrimary(c) \/ CompactPrimary(c)
  PROVE  HistoryStep
<1>1. TypeInv /\ Relies(c)
  BY FindsFacts
<1>2. /\ damage' = damage
      /\ file' = file \/ \E content : file' = [file EXCEPT !["primary"] = content]
      /\ pc[c] \in Backed
  BY DEF Restore, MigratePrimary, Unlink, FirstPrimary, TidyPrimary, CompactPrimary,
     Writes, Acknowledge, ghosts, Backed
<1>3. Valid(file["backup"]) /\ file'["backup"] = file["backup"]
  BY <1>1, <1>2 DEF Relies, TypeInv
<1>4. Effective' = Effective
  BY RestoreFinds, MigratePrimaryFinds, UnlinkFinds, FirstPrimaryFinds,
     TidyPrimaryFinds, CompactPrimaryFinds
<1>5. QED
  BY <1>2, <1>3, <1>4, BackedStep

LEMMA MigrateBackupImplements ==
  ASSUME FindInv, NEW c \in Clients, MigrateBackup(c)
  PROVE  HistoryStep
<1>1. /\ pc[c] = "migrate-backup" /\ TypeInv /\ Relies(c) /\ damage' = damage
      /\ file' = file \/ \E content : file' = [file EXCEPT !["backup"] = content]
  BY FindsFacts DEF MigrateBackup, Writes, ghosts
<1>2. file["primary"] = Missing /\ file'["primary"] = Missing
  BY <1>1 DEF Relies, NewFile, TypeInv
<1>3. Effective' = Effective
  BY MigrateBackupFinds
<1>4. QED
  BY <1>1, <1>2, <1>3 DEF HistoryStep, Fallback

LEMMA FirstBackupImplements ==
  ASSUME FindInv, NEW c \in Clients, FirstBackup(c)
  PROVE  HistoryStep
<1> DEFINE nothing == [h \in {} |-> Unavailable]
           b == batch[c]
<1>1. /\ b \in Batch /\ Effective = nothing /\ Effective' \in {Effective, Rows(b)}
      /\ file["primary"] = Missing /\ file'["primary"] = Missing
  BY FirstBackupFinds
<1>2. damage' = damage
  BY DEF FirstBackup, Writes, ghosts
<1>3. Fallback = Effective /\ Fallback' = Effective'
  BY <1>1 DEF Fallback
<1>4. CASE Effective' = Effective
  BY <1>2, <1>3, <1>4 DEF HistoryStep
<1>5. CASE Effective' = Rows(b)
  <2>1. <<nothing, Rows(b)>> \in Extends
    BY <1>1 DEF Extends
  <2>2. nothing # Rows(b)
    <3>1. /\ DOMAIN Rows(b) = b.first..b.last /\ b.first \in Nat /\ b.last \in Nat
          /\ b.first <= b.last
      BY <1>1, RowsType, Numbers DEF Hours
    <3>2. b.first \in DOMAIN Rows(b) /\ DOMAIN nothing = {}
      BY <3>1
    <3>3. QED
      BY <3>2
  <2> HIDE DEF nothing, b
  <2>3. Durable!Extend
    BY <1>1, <1>2, <1>3, <1>5, <2>1, <2>2 DEF Durable!Extend
  <2>4. QED
    BY <2>3 DEF HistoryStep, Durable!Next
<1>6. QED
  BY <1>1, <1>4, <1>5

LEMMA CopyImplements ==
  ASSUME FindInv, NEW c \in Clients, TidyBackup(c) \/ Rebuild(c)
  PROVE  HistoryStep
<1> DEFINE history == held[c].data
<1>1. /\ pc[c] \in {"tidy-backup", "rebuild"} /\ TypeInv /\ Relies(c) /\ Finds(c)
      /\ file' = file \/ file' = [file EXCEPT !["backup"] = Encoded(history)]
      /\ legacy' = legacy /\ damage' = damage
  BY FindsFacts DEF TidyBackup, Rebuild, Writes, ghosts
<1>2. /\ history \in Histories /\ Newest(DOMAIN history) = DOMAIN history
      /\ Valid(Encoded(history))
  BY <1>1, LateRelies DEF Late
<1>3. Bounded(history) = history /\ Encoded(history).data = history
  BY <1>2, BoundedTwice, EncodedType
<1>4. Effective = history
  BY <1>1, <1>3 DEF Finds, Reads
<1>5. Effective' = Effective
  BY TidyBackupFinds, RebuildFinds
<1>6. history # Lost
  BY <1>2, DistinctAssumption
<1> HIDE DEF history
<1>7. QED
  BY <1>1, <1>2, <1>3, <1>4, <1>5, <1>6, ShelvedStep

LEMMA HeldRetained ==
  ASSUME TypeInv, NEW c \in Clients, Relies(c), pc[c] \in Late
  PROVE  held[c].data \in Retained /\ DOMAIN held[c].data # {}
<1>1. /\ held[c].data \in Histories /\ Newest(DOMAIN held[c].data) = DOMAIN held[c].data
      /\ Sound(DOMAIN held[c].data)
  BY LateRelies
<1>2. Bounded(held[c].data) = held[c].data
  BY <1>1, BoundedTwice
<1>3. Cardinality(DOMAIN held[c].data) \in 0..MaxValues
  BY <1>1, <1>2, BoundedType
<1>4. QED
  BY <1>1, <1>3, Numbers DEF Retained, Sound

LEMMA CompactBackupImplements ==
  ASSUME FindInv, NEW c \in Clients, CompactBackup(c)
  PROVE  HistoryStep
<1> DEFINE history == held[c].data
           merged == Merged(history, batch[c])
<1>1. /\ pc[c] = "compact-backup" /\ TypeInv /\ Relies(c) /\ Finds(c)
      /\ file' = file \/ file' = [file EXCEPT !["backup"] = Encoded(history)]
      /\ legacy' = legacy /\ damage' = damage
  BY FindsFacts DEF CompactBackup, Writes, ghosts
<1>2. /\ history \in Histories /\ Newest(DOMAIN history) = DOMAIN history
      /\ Valid(Encoded(history)) /\ batch[c] \in Batch
      /\ history \in Retained /\ DOMAIN history # {}
  BY <1>1, LateRelies, HeldRetained DEF Late
<1>3. Bounded(history) = history /\ Encoded(history).data = history
  BY <1>2, BoundedTwice, EncodedType
<1>4. Effective = merged /\ merged \in Histories
  BY <1>1, <1>2, MergedType DEF Finds
<1>5. Effective' = Effective
  BY CompactBackupFinds
<1>6. Effective # Lost /\ Effective \in Retained
  BY <1>1, <1>4, EffectiveRetained, DistinctAssumption
<1>7. <<history, Effective>> \in Extends
  BY <1>2, <1>4, <1>6, MergedExtends
<1> HIDE DEF history, merged
<1>8. QED
  BY <1>1, <1>2, <1>3, <1>5, <1>6, <1>7, ShelvedStep

\* Rows are appended, all of them or those before some hour.
LEMMA RowsImplement ==
  ASSUME FindInv, FindInv', NEW c \in Clients, pc[c] = "append",
         NEW hour \in 0..(MaxHour + 1), damage' = damage,
         file'["backup"] = file["backup"],
         Effective' = Bounded(Over(Part(Bridged(held[c].data, batch[c]), hour),
                                   held[c].data))
  PROVE  HistoryStep
<1> DEFINE history == held[c].data
           rows == Bridged(history, batch[c])
<1>1. TypeInv /\ Relies(c) /\ Valid(file["backup"])
  BY FindsFacts DEF Relies, Backed
<1>2. batch[c] \in Batch /\ history \in Histories /\ Effective = history
  BY AppendsTo
<1>3. history \in Retained /\ DOMAIN history # {}
  BY <1>1, HeldRetained DEF Late
<1>4. Effective' # Lost
  <2>1. hour \in Nat
    BY Numbers
  <2>2. Part(rows, hour) \in Histories
    BY <1>2, <2>1, BridgedType, PartFacts
  <2>3. Over(Part(rows, hour), history) \in Histories
    BY <1>2, <2>2, OverType
  <2>4. Effective' \in Histories
    BY <2>3, BoundedType
  <2>5. QED
    BY <2>4, DistinctAssumption
<1>5. Effective' \in Retained
  <2>1. Effective' \in Retained \cup {Lost}
    BY NextRetained DEF FindInv, RemainInv
  <2>2. QED
    BY <1>4, <2>1
<1>6. Fallback' = Fallback
  BY <1>1, BackedFallback, BackedFallbackNext
<1> HIDE DEF history, rows
<1>7. <<history, Effective'>> \in Extends
  BY <1>2, <1>3, <1>5, WrittenExtends DEF history, rows
<1>8. CASE Effective' = Effective
  BY <1>6, <1>8 DEF HistoryStep
<1>9. CASE Effective' # Effective
  <2>1. Durable!Extend
    BY <1>2, <1>6, <1>7, <1>9 DEF Durable!Extend
  <2>2. QED
    BY <2>1 DEF HistoryStep, Durable!Next
<1>10. QED
  BY <1>8, <1>9

LEMMA AppendImplements ==
  ASSUME FindInv, FindInv', NEW c \in Clients, Append(c)
  PROVE  HistoryStep
<1>1. pc[c] = "append" /\ damage' = damage /\ file'["backup"] = file["backup"]
  BY FindsFacts DEF Append, Acknowledge, ghosts, TypeInv
<1>2. MaxHour + 1 \in 0..(MaxHour + 1)
  BY Numbers
<1>3. QED
  BY <1>1, <1>2, AppendFinds, RowsImplement

LEMMA CutImplements ==
  ASSUME FindInv, FindInv', NEW c \in Clients, NEW hour \in 0..(MaxHour + 1),
         NEW torn \in BOOLEAN, Cut(c, hour, torn)
  PROVE  HistoryStep
<1>1. pc[c] = "append" /\ damage' = damage /\ file'["backup"] = file["backup"]
  BY FindsFacts DEF Cut, ghosts, TypeInv
<1>2. hour \in Nat
  BY Numbers
<1>3. QED
  BY <1>1, <1>2, CutFinds, RowsImplement

\* Damage to the backup leaves nothing to fall back to; to the primary, the backup.
LEMMA DamageImplements ==
  ASSUME TypeInv, NEW f \in Files, Damage(f)
  PROVE  HistoryStep
<1>1. /\ Valid(file[f]) /\ damage' = damage + 1 /\ legacy' = legacy
      /\ file'[f] = Damaged /\ ~Valid(file'[f]) /\ file'[f] # Missing
      /\ \A g \in Files \ {f} : file'[g] = file[g]
  <2>1. ~Valid(Damaged) /\ ~Valid(Missing) /\ Damaged # Missing
    BY DistinctAssumption DEF Valid
  <2>2. QED
    BY <2>1 DEF Damage, TypeInv
<1>2. CASE f = "primary"
  <2>1. /\ file'["backup"] = file["backup"] /\ Valid(file["primary"])
        /\ ~Valid(file'["primary"]) /\ file'["primary"] # Missing
        /\ file["primary"] # Missing
    BY <1>1, <1>2 DEF Valid
  <2>2. Effective' = Fallback /\ Fallback' = Fallback
    BY <2>1 DEF Effective, Fallback
  <2>3. Durable!Fall
    BY <1>1, <2>2 DEF Durable!Fall
  <2>4. QED
    BY <2>3 DEF HistoryStep, Durable!Next
<1>3. CASE f = "backup"
  <2>1. /\ file'["primary"] = file["primary"] /\ Valid(file["backup"])
        /\ ~Valid(file'["backup"]) /\ file'["backup"] # Missing
    BY <1>1, <1>3
  <2>2. CASE Valid(file["primary"])
    <3>1. Effective' = Effective /\ Fallback' = Lost
      BY <2>1, <2>2 DEF Effective, Fallback, Valid
    <3>2. Durable!LoseBackup
      BY <1>1, <3>1 DEF Durable!LoseBackup
    <3>3. QED
      BY <3>2 DEF HistoryStep, Durable!Next
  <2>3. CASE ~Valid(file["primary"])
    <3>1. Effective' = Lost /\ Fallback' = Lost /\ Effective = Fallback
      BY <2>1, <2>3 DEF Effective, Fallback
    <3>2. Durable!LoseBackup
      BY <1>1, <3>1 DEF Durable!LoseBackup
    <3>3. QED
      BY <3>2 DEF HistoryStep, Durable!Next
  <2>4. QED
    BY <2>2, <2>3
<1>4. QED
  BY <1>2, <1>3

LEMMA StepImplements ==
  ASSUME OneClient, ~Backfills, FindInv, [Next]_vars
  PROVE  HistoryStep
<1>1. FindInv'
  BY FindStep
<1>2. ASSUME NEW c \in Clients, LoadStep(c) PROVE HistoryStep
  BY <1>2, LoadImplements, PrimaryImplements, MigrateBackupImplements DEF LoadStep
<1>3. ASSUME NEW c \in Clients, SaveStep(c) PROVE HistoryStep
  BY <1>1, <1>3, LoadImplements, PrimaryImplements, FirstBackupImplements,
     CopyImplements, CompactBackupImplements, AppendImplements, CutImplements
  DEF SaveStep
<1>4. ASSUME NEW c \in Clients, ReadFails(c) PROVE HistoryStep
  BY <1>4, LoadImplements
<1>5. CASE Crash \/ UNCHANGED vars
  BY <1>5, UnreadStep DEF Crash, vars, ghosts
<1>6. CASE \E f \in Files : Damage(f)
  BY <1>6, DamageImplements DEF FindInv, RemainInv
<1>7. QED
  BY <1>2, <1>3, <1>4, <1>5, <1>6 DEF Next

\* HouseholdStore refines DurableHistory: for a single client without backfills the
\* two files behave as one history that appends extend, whole or in part. Restoring,
\* migrating, tidying, copying and compacting files, failing or crashing at any write,
\* never changes what the next load returns, and a damaged file costs at most what was
\* appended since the copy beside it (household_load_store.py; docs/architecture.md:
\* compaction "preserves the prior valid history as the backup").
THEOREM HouseholdImplementsHistory ==
  ASSUME OneClient, ~Backfills, OneVersionOnly
  PROVE  Spec => ImplementsHistory
<1>1. Init => Durable!Init
  <2> SUFFICES ASSUME Init PROVE Durable!Init
    OBVIOUS
  <2>1. TypeInv /\ damage = 0 /\ Fallback = Effective
    BY TypesInit DEF Init, Fallback
  <2>2. QED
    BY <2>1, EffectiveRetained DEF Durable!Init
<1>2. FindInv /\ [Next]_vars => [Durable!Next]_<<Effective, Fallback, damage>>
  BY StepImplements DEF HistoryStep
<1>3. Init => FindInv
  BY FindInit
<1>4. FindInv /\ [Next]_vars => FindInv'
  BY FindStep
<1>5. QED
  BY <1>1, <1>2, <1>3, <1>4, PTL DEF Spec, ImplementsHistory, Durable!Spec

=============================================================================
