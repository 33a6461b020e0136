-------------------------- MODULE RecordingDownload --------------------------
(***************************************************************************)
(* What is played and downloaded of recordings: the manifest               *)
(* (ManifestService) and the bulk download (BulkDownloadService): a        *)
(* directory of remuxed files and a zip per job in /tmp, a map of the      *)
(* ready ones in memory, and a timer and the end of a transfer, either of  *)
(* which takes them away.                                                  *)
(***************************************************************************)
EXTENDS Naturals, FiniteSets, Sequences, Optional

CONSTANTS
  Clips,      \* recordings
  FileNames,  \* names of remuxed files: camera, date and minute
  ClipSize,   \* bound: segments of a recording
  Downloads,  \* bulk downloads
  Transfers,  \* GETs of a zip at the same time
  MaxProcessDeaths  \* bound: deaths of the process

ASSUME DownloadAssumption == ClipSize \in Nat /\ MaxProcessDeaths \in Nat

VARIABLES
  clip,      \* rows: hasKeyframe of the segments in order, file name
  download,  \* processJob: place, recordings asked for, recordings left, names made
  dir,       \* files of a job's directory: what each name holds; None: no directory
  zip,       \* the zip: what its entries hold; None: no file
  jobs,      \* the map of ready jobs
  closing,   \* cleanupJob: zip removed, entry of the map not yet
  transfer,  \* downloadBulkZip: place, job
  processDeaths,
  lost       \* history: jobs that failed, or that the process had when it died

downloadVars == <<clip, download, dir, zip, jobs, closing, transfer, processDeaths, lost>>

Flags == {"yes", "no", "null"}
NoDownload == [at |-> "none", asked |-> <<>>, left |-> <<>>, files |-> <<>>]
NoTransfer == [at |-> "idle", job |-> None]

Lists(S, min, max) == UNION {[1..n -> S] : n \in min..max}

DownloadInit ==
  /\ clip \in [Clips -> [segments : Lists(Flags, 0, ClipSize), name : FileNames]]
  /\ download = [j \in Downloads |-> NoDownload]
  /\ dir = [j \in Downloads |-> None] /\ zip = [j \in Downloads |-> None]
  /\ jobs = {} /\ closing = {}
  /\ transfer = [t \in Transfers |-> NoTransfer] /\ processDeaths = 0 /\ lost = {}

(***************************************************************************)
(* The segment to begin with, 0 if there is none: in the manifest, which   *)
(* reads whole rows, and in a download, whose query selects objectPath,    *)
(* seqNo and duration only.                                                *)
(***************************************************************************)
firstPlayable(flags) ==
  LET playable == {k \in DOMAIN flags : flags[k] # "no"} IN
  IF playable = {} THEN 0 ELSE CHOOSE k \in playable : \A i \in playable : k <= i
ManifestFirst(r) == firstPlayable(clip[r].segments)
Selected(flags) == [k \in DOMAIN flags |-> "null"]
RemuxFirst(r) == firstPlayable(Selected(clip[r].segments))

(***************************************************************************)
(* processJob.                                                             *)
(***************************************************************************)
To(j, place) == download' = [download EXCEPT ![j].at = place]

ProcessBegin(j) ==
  /\ download[j].at = "none"
  /\ \E ids \in Lists(Clips, 1, Cardinality(Clips)) :
       download' = [download EXCEPT ![j] = [at |-> "loop", asked |-> ids, left |-> ids, files |-> <<>>]]
  /\ dir' = [dir EXCEPT ![j] = <<>>]
  /\ UNCHANGED <<clip, zip, jobs, closing, transfer, processDeaths, lost>>

\* FFmpeg writes over a file of the same name.
WithFile(files, name, content) == [n \in DOMAIN files \cup {name} |-> IF n = name THEN content ELSE files[n]]

Remux(j) ==
  LET k == download[j]
      r == Head(k.left) IN
  /\ k.at = "loop" /\ k.left # <<>>
  /\ IF clip[r].segments = <<>>
     THEN download' = [download EXCEPT ![j].left = Tail(@)] /\ UNCHANGED dir
     ELSE /\ download' = [download EXCEPT ![j].left = Tail(@), ![j].files = Append(@, clip[r].name)]
          /\ dir' = [dir EXCEPT ![j] = WithFile(@, clip[r].name, [of |-> r, first |-> RemuxFirst(r)])]
  /\ UNCHANGED <<clip, zip, jobs, closing, transfer, processDeaths, lost>>

WriteZip(j) ==
  LET k == download[j] IN
  /\ k.at = "loop" /\ k.left = <<>> /\ To(j, "stat")
  /\ zip' = [zip EXCEPT ![j] = [i \in DOMAIN k.files |-> dir[j][k.files[i]]]]
  /\ UNCHANGED <<clip, dir, jobs, closing, transfer, processDeaths, lost>>

Register(j) ==
  /\ download[j].at = "stat" /\ To(j, "tidy") /\ jobs' = jobs \cup {j}
  /\ UNCHANGED <<clip, dir, zip, closing, transfer, processDeaths, lost>>

Tidy(j) ==
  /\ download[j].at = "tidy" /\ To(j, "done") /\ dir' = [dir EXCEPT ![j] = None]
  /\ UNCHANGED <<clip, zip, jobs, closing, transfer, processDeaths, lost>>

\* The recording is gone, FFmpeg fails, the disk is full: an error is sent, and
\* what has been made stays.
ProcessFails(j) ==
  /\ download[j].at \in {"loop", "stat"} /\ To(j, "failed") /\ lost' = lost \cup {j}
  /\ UNCHANGED <<clip, dir, zip, jobs, closing, transfer, processDeaths>>

(***************************************************************************)
(* cleanupJob: unlink, then delete.  The timer calls it ten minutes after, *)
(* whatever goes on.                                                       *)
(***************************************************************************)
\* Mutant of Unlinked: the file stays.
UnlinkedNot(j) == zip
Unlinked(j) == [zip EXCEPT ![j] = None]

Unlink(j) == zip' = Unlinked(j) /\ closing' = closing \cup {j}

CleanupOld(j) ==
  /\ j \in jobs \ closing /\ Unlink(j)
  /\ UNCHANGED <<clip, download, dir, jobs, transfer, processDeaths, lost>>

CleanupDelete(j) ==
  /\ j \in closing /\ jobs' = jobs \ {j} /\ closing' = closing \ {j}
  /\ UNCHANGED <<clip, download, dir, zip, transfer, processDeaths, lost>>

(***************************************************************************)
(* downloadBulkZip: the job is looked up, then, an await later, its file   *)
(* opened.  A stream nobody listens to for errors takes the process down   *)
(* when the file is gone.                                                  *)
(***************************************************************************)
GetJob(t) ==
  /\ transfer[t].at = "idle"
  /\ \E j \in jobs : transfer' = [transfer EXCEPT ![t] = [at |-> "open", job |-> j]]
  /\ UNCHANGED <<clip, download, dir, zip, jobs, closing, processDeaths, lost>>

OpenZip(t) ==
  /\ transfer[t].at = "open" /\ zip[transfer[t].job] # None
  /\ transfer' = [transfer EXCEPT ![t].at = "send"]
  /\ UNCHANGED <<clip, download, dir, zip, jobs, closing, processDeaths, lost>>

SendEnd(t) ==
  LET j == transfer[t].job IN
  /\ transfer[t].at = "send" /\ transfer' = [transfer EXCEPT ![t] = NoTransfer]
  /\ IF j \in jobs THEN Unlink(j) ELSE UNCHANGED <<zip, closing>>
  /\ UNCHANGED <<clip, download, dir, jobs, processDeaths, lost>>

\* The client goes away.
SendAborted(t) ==
  /\ transfer[t].at = "send" /\ transfer' = [transfer EXCEPT ![t] = NoTransfer]
  /\ UNCHANGED <<clip, download, dir, zip, jobs, closing, processDeaths, lost>>

ProcessDies ==
  /\ processDeaths < MaxProcessDeaths /\ processDeaths' = processDeaths + 1
  /\ lost' = lost \cup {j \in Downloads : download[j].at \notin {"none", "done"}} \cup jobs
  /\ download' = [j \in Downloads |->
       IF download[j].at \in {"loop", "stat", "tidy"} THEN [download[j] EXCEPT !.at = "failed"] ELSE download[j]]
  /\ jobs' = {} /\ closing' = {} /\ transfer' = [t \in Transfers |-> NoTransfer]
  /\ UNCHANGED <<clip, dir, zip>>

OpenMissing(t) == transfer[t].at = "open" /\ zip[transfer[t].job] = None /\ ProcessDies

DownloadNext ==
  \/ \E j \in Downloads :
       \/ ProcessBegin(j) \/ Remux(j) \/ WriteZip(j) \/ Register(j) \/ Tidy(j) \/ ProcessFails(j)
       \/ CleanupOld(j) \/ CleanupDelete(j)
  \/ \E t \in Transfers : GetJob(t) \/ OpenZip(t) \/ OpenMissing(t) \/ SendEnd(t) \/ SendAborted(t)
  \/ ProcessDies

DownloadSpec == DownloadInit /\ [][DownloadNext]_downloadVars

(***************************************************************************)
(* Properties.                                                             *)
(***************************************************************************)
Content == [of : Clips, first : 0..ClipSize]
DownloadTypeOK ==
  /\ \A r \in Clips : clip[r].segments \in Seq(Flags) /\ clip[r].name \in FileNames
  /\ \A j \in Downloads :
       /\ download[j].at \in {"none", "loop", "stat", "tidy", "done", "failed"}
       /\ zip[j] # None => zip[j] \in Seq(Content)
       /\ dir[j] # None => dir[j] \in [DOMAIN dir[j] -> Content] /\ DOMAIN dir[j] \subseteq FileNames
  /\ closing \subseteq jobs /\ jobs \subseteq Downloads /\ lost \subseteq Downloads
  /\ transfer \in [Transfers -> [at : {"idle", "open", "send"}, job : Downloads \cup {None}]]
  /\ processDeaths \in 0..MaxProcessDeaths

\* A job that is ready holds every recording asked for that has segments, unless
\* another one asked for has the same name; and nothing of a job is left on the
\* disk when it is over, unless it failed or the process died.
\* (BulkDownloadService, bulk-download.service.ts:57)
DownloadsWhole ==
  \A j \in Downloads :
    LET asked == download[j].asked IN
    /\ download[j].at \in {"stat", "tidy", "done"} /\ zip[j] # None =>
         \A i \in DOMAIN asked : clip[asked[i]].segments # <<>> =>
           \/ \E k \in DOMAIN zip[j] : zip[j][k].of = asked[i]
           \/ \E k \in DOMAIN asked : /\ asked[k] # asked[i] /\ clip[asked[k]].segments # <<>>
                                    /\ clip[asked[k]].name = clip[asked[i]].name
    /\ j \notin lost =>
         /\ download[j].at = "done" => dir[j] = None
         /\ download[j].at = "done" /\ j \notin jobs => zip[j] = None

\* A download begins where the preview begins: the leading segments without a
\* keyframe are trimmed "so bulk downloads match the single-download + hls.js
\* preview".  (bulk-download.service.ts:122)
DownloadsTrimmed ==
  \A j \in Downloads : zip[j] # None =>
    \A k \in DOMAIN zip[j] : zip[j][k].first = ManifestFirst(zip[j][k].of)
=============================================================================
