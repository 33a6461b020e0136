------------------------------ MODULE ImportDialog ------------------------------
(***************************************************************************)
(* BulkImportDialog of the web application: a file is read, its rows are   *)
(* flagged as known or new against a list loaded from the server, and the  *)
(* new ones are sent.  Loads, file readers and imports are asynchronous,   *)
(* are not cancelled when the dialog closes, and work with what the render *)
(* that started them knew.  A row is its URL, or ByPush; a name that is    *)
(* known counts like a URL that is.  Rows with errors are left out: they   *)
(* must be edited or removed before anything is sent.                      *)
(***************************************************************************)
EXTENDS Naturals, Sequences, FiniteSets, Optional

LOCAL INSTANCE SequencesExt

CONSTANTS
  FileUrls,     \* URLs of pull rows
  ByPush,       \* a push row
  MaxFileRows,  \* 500
  Sites,        \* of all projects
  FirstSite,    \* the one the selector begins with
  Imports,      \* POST bulk-import at the same time
  MaxLoads,     \* bound: loadSites calls in the same state
  MaxSessions   \* bound: times the dialog is closed

ASSUME DialogAssumption ==
  /\ MaxFileRows \in Nat \ {0} /\ MaxLoads \in Nat \ {0} /\ MaxSessions \in Nat
  /\ FirstSite \in Sites /\ None \notin Sites /\ ByPush \notin FileUrls

VARIABLES
  open, step,  \* the dialog
  rows, dup,   \* the preview and its flags
  existing,    \* existingUrls
  site,        \* selectedSiteId
  importing,   \* the buttons are disabled
  fileReader,      \* a file being read: rows, and the list and site of that render
  loads,       \* loadSites: begun without a site, begun with one, at the cameras
  sent,        \* imports: place, the rows there are among those sent, opening
  opening,     \* history: openings so far, cameras of push rows the user has not
  untold,      \*   been told of, such cameras made once more, a later opening
  doubled,     \*   ended by an answer of an earlier one, and why either may
  swept,       \*   happen
  doubt

dialogHistory == <<opening, untold, doubled, swept, doubt>>
dialogVars == <<open, step, rows, dup, existing, site, importing, fileReader, loads, sent, dialogHistory>>

DialogRows == BoundedSeq(FileUrls \cup {ByPush}, MaxFileRows)
NoImport == [at |-> "idle", rows |-> {}, opening |-> 0]

DialogInit ==
  /\ open = FALSE /\ step = "upload" /\ rows = <<>> /\ dup = <<>> /\ existing = {} /\ site = None
  /\ importing = FALSE /\ fileReader = None /\ loads = [early |-> 0, sites |-> 0, cameras |-> 0]
  /\ sent = [i \in Imports |-> NoImport]
  /\ opening = 0 /\ untold = FALSE /\ doubled = FALSE /\ swept = FALSE /\ doubt = FALSE

(***************************************************************************)
(* annotateDuplicates: known to the server first, then within the file.    *)
(***************************************************************************)
Annotated(list, known) ==
  [k \in DOMAIN list |->
     /\ list[k] # ByPush
     /\ list[k] \in known \/ \E j \in 1..(k - 1) : list[j] = list[k]]

PreviewRows(list, known) == rows' = list /\ dup' = Annotated(list, known)
\* payloadRows; that there are several alike does not matter here.
ToSend == {rows[k] : k \in {j \in DOMAIN rows : ~dup[j]}}

\* loadSites, and again when another site is selected while the dialog is open.
LoadKind(at) == IF at = None THEN "early" ELSE "sites"
RoomFor(kind) == loads[kind] < MaxLoads
OneMore(ls, kind) == [ls EXCEPT ![kind] = @ + 1]
OneFewer(ls, kind) == [ls EXCEPT ![kind] = @ - 1]

OpenDialog ==
  /\ ~open /\ open' = TRUE
  /\ RoomFor(LoadKind(site)) /\ loads' = OneMore(loads, LoadKind(site))
  /\ UNCHANGED <<step, rows, dup, existing, site, importing, fileReader, sent, dialogHistory>>

\* handleClose(false): escape, the result's button, a click beside the dialog.  The
\* URLs are forgotten, the names are not.
CloseDialog ==
  /\ open /\ opening < MaxSessions /\ open' = FALSE
  /\ step' = "upload" /\ PreviewRows(<<>>, existing) /\ importing' = FALSE
  /\ existing' \in SUBSET existing
  /\ opening' = opening + 1 /\ doubt' = (doubt \/ importing)
  /\ UNCHANGED <<site, fileReader, loads, sent, untold, doubled, swept>>

\* The button that is there when no row is new: the rows stay.
CloseBare ==
  /\ open /\ step = "preview" /\ ToSend = {} /\ rows # <<>> /\ open' = FALSE
  /\ UNCHANGED <<step, rows, dup, existing, site, importing, fileReader, loads, sent, dialogHistory>>

BackToUpload ==
  /\ open /\ step = "preview" /\ ~importing
  /\ step' = "upload" /\ PreviewRows(<<>>, existing)
  /\ UNCHANGED <<open, existing, site, importing, fileReader, loads, sent, dialogHistory>>

(***************************************************************************)
(* A file: FileReader answers with the functions of the render that asked. *)
(***************************************************************************)
PickFile ==
  /\ open /\ step = "upload" /\ fileReader = None
  /\ \E file \in DialogRows \ {<<>>} : fileReader' = [rows |-> file, known |-> existing, site |-> site]
  /\ UNCHANGED <<open, step, rows, dup, existing, site, importing, loads, sent, dialogHistory>>

\* Mutant of FileRead: the list of the opening is thought to be enough.
FileReadOnly ==
  /\ fileReader # None /\ fileReader' = None
  /\ PreviewRows(fileReader.rows, fileReader.known) /\ step' = "preview"
  /\ UNCHANGED <<open, existing, site, importing, loads, sent, dialogHistory>>

\* processRows
FileRead ==
  /\ fileReader # None /\ fileReader' = None
  /\ PreviewRows(fileReader.rows, fileReader.known) /\ step' = "preview"
  /\ RoomFor(LoadKind(fileReader.site)) /\ loads' = OneMore(loads, LoadKind(fileReader.site))
  /\ UNCHANGED <<open, existing, site, importing, sent, dialogHistory>>

FileRefused ==
  /\ fileReader # None /\ fileReader' = None
  /\ UNCHANGED <<open, step, rows, dup, existing, site, importing, loads, sent, dialogHistory>>

EditRow(k) ==
  /\ open /\ step = "preview" /\ rows[k] # ByPush
  /\ \E u \in FileUrls : PreviewRows([rows EXCEPT ![k] = u], existing)
  /\ UNCHANGED <<open, step, existing, site, importing, fileReader, loads, sent, dialogHistory>>

RemoveRow(k) ==
  /\ open /\ step = "preview" /\ PreviewRows(RemoveAt(rows, k), existing)
  /\ UNCHANGED <<open, step, existing, site, importing, fileReader, loads, sent, dialogHistory>>

(***************************************************************************)
(* loadSites: the sites, which select the first for a load that was begun  *)
(* when none was; then the cameras.  Others add and delete cameras, so the *)
(* list may be any.                                                        *)
(***************************************************************************)
SelectSite(s, rest) ==
  /\ site' = s
  /\ IF open /\ s # site
     THEN RoomFor(LoadKind(s)) /\ loads' = OneMore(rest, LoadKind(s))
     ELSE loads' = rest

SitesAnswered(kind) ==
  LET rest == OneMore(OneFewer(loads, kind), "cameras") IN
  /\ loads[kind] > 0 /\ RoomFor("cameras")
  /\ \/ kind = "early" /\ SelectSite(FirstSite, rest)
     \/ loads' = rest /\ UNCHANGED site  \* selected already, or the request failed
  /\ UNCHANGED <<open, step, rows, dup, existing, importing, fileReader, sent, dialogHistory>>

CamerasAnswered ==
  /\ loads.cameras > 0 /\ loads' = OneFewer(loads, "cameras")
  /\ \E known \in SUBSET FileUrls : existing' = known /\ PreviewRows(rows, known)
  /\ UNCHANGED <<open, step, site, importing, fileReader, sent, dialogHistory>>

ChooseSite(s) ==
  /\ open /\ step = "preview" /\ SelectSite(s, loads)
  /\ UNCHANGED <<open, step, rows, dup, existing, importing, fileReader, sent, dialogHistory>>

(***************************************************************************)
(* The import.  The server makes all rows or none, and skips pull rows it  *)
(* has (CameraInventory); a push row is a new camera every time.           *)
(***************************************************************************)
MayImport == open /\ step = "preview" /\ site # None /\ ToSend # {} /\ ~importing

HandleImport(i) ==
  /\ MayImport /\ sent[i].at = "idle"
  /\ importing' = TRUE
  /\ sent' = [sent EXCEPT ![i] = [at |-> "sent", rows |-> ToSend, opening |-> opening]]
  /\ UNCHANGED <<open, step, rows, dup, existing, site, fileReader, loads, dialogHistory>>

HasPush(list) == ByPush \in list

ServeImport(i) ==
  /\ sent[i].at = "sent" /\ sent' = [sent EXCEPT ![i].at = "made"]
  /\ untold' = (untold \/ HasPush(sent[i].rows))
  /\ doubled' = (doubled \/ (untold /\ HasPush(sent[i].rows)))
  /\ UNCHANGED <<open, step, rows, dup, existing, site, importing, fileReader, loads, opening, swept, doubt>>

\* The answer, to whatever the dialog shows by now.
ImportAnswered(i) ==
  /\ sent[i].at = "made" /\ sent' = [sent EXCEPT ![i] = NoImport] /\ importing' = FALSE
  /\ IF HasPush(sent[i].rows)
     THEN step' = "result" /\ UNCHANGED <<open, rows, dup>>
     ELSE open' = FALSE /\ step' = "upload" /\ PreviewRows(<<>>, existing)
  /\ untold' = FALSE
  /\ swept' = (swept \/ (sent[i].opening # opening /\ open))
  /\ UNCHANGED <<existing, site, fileReader, loads, opening, doubled, doubt>>

\* Refused by the server, or done and the answer lost.
ImportFailed(i) ==
  /\ sent[i].at # "idle" /\ sent' = [sent EXCEPT ![i] = NoImport] /\ importing' = FALSE
  /\ doubt' = (doubt \/ (sent[i].at = "made" /\ HasPush(sent[i].rows)))
  /\ UNCHANGED <<open, step, rows, dup, existing, site, fileReader, loads, opening, untold, doubled, swept>>

DialogNext ==
  \/ OpenDialog \/ CloseDialog \/ CloseBare \/ BackToUpload
  \/ PickFile \/ FileRead \/ FileRefused
  \/ \E k \in DOMAIN rows : EditRow(k) \/ RemoveRow(k)
  \/ SitesAnswered("early") \/ SitesAnswered("sites") \/ CamerasAnswered
  \/ \E s \in Sites : ChooseSite(s)
  \/ \E i \in Imports : HandleImport(i) \/ ServeImport(i) \/ ImportAnswered(i) \/ ImportFailed(i)

DialogSpec == DialogInit /\ [][DialogNext]_dialogVars

(***************************************************************************)
(* Properties.                                                             *)
(***************************************************************************)
DialogTypeOK ==
  /\ open \in BOOLEAN /\ step \in {"upload", "preview", "result"} /\ importing \in BOOLEAN
  /\ rows \in DialogRows /\ dup \in BoundedSeq(BOOLEAN, MaxFileRows) /\ Len(dup) = Len(rows)
  /\ existing \subseteq FileUrls /\ site \in Sites \cup {None}
  /\ fileReader # None => fileReader.rows \in DialogRows /\ fileReader.known \subseteq FileUrls
  /\ loads \in [{"early", "sites", "cameras"} -> 0..MaxLoads]
  /\ \A i \in Imports : sent[i].at \in {"idle", "sent", "made"} /\ sent[i].rows \subseteq FileUrls \cup {ByPush}
  /\ opening \in 0..MaxSessions /\ untold \in BOOLEAN /\ doubled \in BOOLEAN /\ swept \in BOOLEAN
  /\ doubt \in BOOLEAN

\* "Re-annotate rows when existingUrls resolves so flags appear without requiring
\* re-upload": when nothing is being loaded or read, the flags are those of the list the
\* dialog has, whatever order the answers came in and whatever render a fileReader knew.
\* (bulk-import-dialog.tsx:481)
FlagsSettled ==
  fileReader = None /\ loads = [early |-> 0, sites |-> 0, cameras |-> 0] =>
    dup = Annotated(rows, existing)

\* Push rows are made twice, and a later opening is ended by an earlier one's answer,
\* only if the dialog was closed while importing or an import was done whose answer
\* got lost.  (handleImport, bulk-import-dialog.tsx:640)
ImportsApart == doubled \/ swept => doubt

\* Both, as the run takes them.
ImportDialogSound == FlagsSettled /\ ImportsApart

\* A site that is selected is only changed by the user.  TLC refutes it: a load that was
\* begun when none was selected answers later and selects the first.
\* (bulk-import-dialog.tsx:444)
SiteStaysChosen == [][site # None /\ site' # site => \E s \in Sites : ChooseSite(s)]_dialogVars
=============================================================================
