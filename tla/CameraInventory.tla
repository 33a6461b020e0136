------------------------------ MODULE CameraInventory ------------------------------
(***************************************************************************)
(* The Camera rows of one organisation as CamerasService creates, imports  *)
(* and deletes them: the quota of the package and the unique stream URLs.  *)
(* A step is what the code does between two awaits; the import's inserts   *)
(* are one transaction.  A push camera has a URL of its own, built from a  *)
(* key made for it, so push cameras are only counted.                      *)
(***************************************************************************)
EXTENDS Naturals, FiniteSets

CONSTANTS
  Urls,         \* stream URLs of pull cameras
  Push, NoUrl,  \* an import row for a push camera, and one without a URL
  Calls,        \* create and import calls at the same time
  MaxCameras,   \* the package's maxCameras
  MaxRows       \* rows of an import file

ASSUME InventoryAssumption ==
  /\ MaxCameras \in Nat /\ MaxRows \in Nat \ {0}
  /\ IsFiniteSet(Urls) /\ IsFiniteSet(Calls) /\ Calls # {}
  /\ Push # NoUrl /\ {Push, NoUrl} \cap Urls = {}

VARIABLES
  pull, push,  \* Camera rows: URLs of the pull cameras, number of push cameras
  adding,      \* calls: place, rows to insert by their place in the file
  theirs,      \* history: URLs others inserted since a call looked for them
  clash        \* history: an import was refused for a URL nobody had inserted meanwhile

inventoryVars == <<pull, push, adding, theirs, clash>>

Count == Cardinality(pull) + push
NoCreate == [at |-> "idle", rows |-> <<>>]

InventoryInit ==
  /\ pull \in SUBSET Urls /\ push = 0 /\ Count <= MaxCameras
  /\ adding = [c \in Calls |-> NoCreate]
  /\ theirs = [c \in Calls |-> {}] /\ clash = FALSE

Go(c, place, rows) == adding' = [adding EXCEPT ![c] = [at |-> place, rows |-> rows]]

\* enforceMaxCamerasLimit and enforceMaxCamerasLimitBulk.
WithinLimit(n) == Count + n <= MaxCameras

\* createCamera up to its insert.
CreateCheck(c) ==
  /\ adding[c].at = "idle" /\ WithinLimit(1)
  /\ \E u \in Urls \cup {Push} : Go(c, "create", <<u>>)
  /\ UNCHANGED <<pull, push, theirs, clash>>

(***************************************************************************)
(* bulkImport.  Rows with a URL that is known or was met before in the     *)
(* file are skipped, rows without one are passed over, push rows go in.    *)
(***************************************************************************)
Files == UNION {[1..n -> Urls \cup {Push, NoUrl}] : n \in 1..MaxRows}

\* Mutant of ToInsert: duplicates within the file are not looked for.
ToInsertRepeated(file, existing) == [k \in {j \in DOMAIN file : file[j] \notin existing \cup {NoUrl}} |-> file[k]]
ToInsert(file, existing) ==
  [k \in {j \in DOMAIN file :
            \/ file[j] = Push
            \/ file[j] \notin existing \cup {NoUrl} /\ \A i \in 1..j - 1 : file[i] # file[j]} |-> file[k]]

RowCount(rows) == Cardinality(DOMAIN rows)

ImportRead(c) ==
  /\ adding[c].at = "idle"
  /\ \E file \in Files : Go(c, "check", ToInsert(file, pull))
  /\ theirs' = [theirs EXCEPT ![c] = {}]
  /\ UNCHANGED <<pull, push, clash>>

\* The quota is looked at before an empty import returns.
ImportCheck(c) ==
  LET rows == adding[c].rows IN
  /\ adding[c].at = "check"
  /\ IF RowCount(rows) > 0 /\ WithinLimit(RowCount(rows)) THEN Go(c, "import", rows) ELSE Go(c, "idle", <<>>)
  /\ UNCHANGED <<pull, push, theirs, clash>>

\* All rows go in or, when the database refuses a URL, none.
Insertable(rows) ==
  \A j \in DOMAIN rows : rows[j] # Push =>
     rows[j] \notin pull /\ \A k \in DOMAIN rows : rows[k] = rows[j] => k = j

Insert(c) ==
  LET rows == adding[c].rows
      urls == {rows[k] : k \in DOMAIN rows} \ {Push} IN
  /\ adding[c].at \in {"create", "import"}
  /\ IF Insertable(rows)
     THEN /\ pull' = pull \cup urls
          /\ push' = push + Cardinality({k \in DOMAIN rows : rows[k] = Push})
          /\ theirs' = [d \in Calls |-> IF d = c THEN {} ELSE theirs[d] \cup urls]
          /\ UNCHANGED clash
     ELSE /\ clash' = (clash \/ (adding[c].at = "import" /\ urls \cap theirs[c] = {}))
          /\ UNCHANGED <<pull, push, theirs>>
  /\ Go(c, "idle", <<>>)

\* deleteCamera's last step: what it does before belongs to StreamKeys.
DeleteCamera ==
  /\ \/ \E u \in pull : pull' = pull \ {u} /\ UNCHANGED push
     \/ push > 0 /\ push' = push - 1 /\ UNCHANGED pull
  /\ UNCHANGED <<adding, theirs, clash>>

InventoryThrows(c) ==
  /\ adding[c].at # "idle" /\ Go(c, "idle", <<>>)
  /\ UNCHANGED <<pull, push, theirs, clash>>

InventoryNext ==
  \/ \E c \in Calls : \/ CreateCheck(c) \/ ImportRead(c) \/ ImportCheck(c) \/ Insert(c)
                      \/ InventoryThrows(c)
  \/ DeleteCamera

InventorySpec == InventoryInit /\ [][InventoryNext]_inventoryVars

(***************************************************************************)
(* Properties.                                                             *)
(***************************************************************************)
InventoryTypeOK ==
  /\ pull \subseteq Urls /\ push \in Nat
  /\ adding \in [Calls -> [at : {"idle", "create", "check", "import"},
                         rows : UNION {[places -> Urls \cup {Push}] : places \in SUBSET (1..MaxRows)}]]
  /\ theirs \in [Calls -> SUBSET Urls] /\ clash \in BOOLEAN

\* The quota is passed by no more than what the calls in progress beside one
\* were admitted for.  (CamerasService.enforceMaxCamerasLimit, cameras.service.ts:196)
CameraQuotaNearlyKept == Count <= MaxCameras + (Cardinality(Calls) - 1) * MaxRows

\* An import is refused for a URL only if another call inserted it after the
\* import had looked: what the message "bulk-import race: a concurrent request
\* inserted one of these stream URLs" says.  (cameras.service.ts:1224)
ImportClashIsRace == ~clash

\* The quota passed by calls in progress only, and imports refused for a race only.
\* (cameras.service.ts:196, :1224)
InventorySound == CameraQuotaNearlyKept /\ ImportClashIsRace
=============================================================================
