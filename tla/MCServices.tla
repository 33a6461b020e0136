------------------------------ MODULE MCServices ------------------------------
(***************************************************************************)
(* The services that share no state, side by side for TLC: one of them     *)
(* takes its steps in a behaviour, the others stay where one of their      *)
(* initial states left them.  What a service does and promises is in its   *)
(* own module.                                                             *)
(***************************************************************************)
EXTENDS
  CameraInventory, StreamKeys, StreamProfiles, StreamProbe, TagCache, Playback,
  PlaybackPolicies, Members, ApiKeyUsage, RecordingSchedules, RecordingDownload,
  RecordingStarts, StreamHealth, QuotaAlerts, SrsLogTail, NotificationFeed, ImportDialog,
  CameraRows, ProjectsPanel

ASSUME ServicesAssumption == Callers # {}

VARIABLE part  \* the service whose behaviour this is

Parts == {"inventory", "keys", "profiles", "probe", "tags", "playback", "policies",
          "members", "usage", "schedules", "download", "archive", "starts", "health", "alerts",
          "tail", "bell", "import", "rows", "panel"}

serviceVars == <<part, inventoryVars, keyVars, profileVars, probeVars, tagVars, playbackVars,
                 policyVars, memberVars, usageVars, scheduleVars, downloadVars,
                 startsVars, gaugeVars, alertVars, tailVars, feedVars, dialogVars, rowsVars, panelVars>>

Only(p) ==
  /\ part = p /\ UNCHANGED part
  /\ p # "inventory" => UNCHANGED inventoryVars
  /\ p # "keys" => UNCHANGED keyVars
  /\ p # "profiles" => UNCHANGED profileVars
  /\ p # "probe" => UNCHANGED probeVars
  /\ p # "tags" => UNCHANGED tagVars
  /\ p # "playback" => UNCHANGED playbackVars
  /\ p # "policies" => UNCHANGED policyVars
  /\ p # "members" => UNCHANGED memberVars
  /\ p # "usage" => UNCHANGED usageVars
  /\ p # "schedules" => UNCHANGED scheduleVars
  /\ p # "download" => UNCHANGED downloadVars
  /\ p \notin {"archive", "starts"} => UNCHANGED startsVars
  /\ p # "health" => UNCHANGED gaugeVars
  /\ p # "alerts" => UNCHANGED alertVars
  /\ p # "tail" => UNCHANGED tailVars
  /\ p # "bell" => UNCHANGED feedVars
  /\ p # "import" => UNCHANGED dialogVars
  /\ p # "rows" => UNCHANGED rowsVars
  /\ p # "panel" => UNCHANGED panelVars

\* Of those that have several initial states, the others begin in one.  The stream keys
\* are all alike, so any of them may be the first.
Begun(p, begun) == part = p \/ begun

ServicesInit ==
  /\ part \in Parts /\ streamKey = CHOOSE k \in Keys : TRUE
  /\ Begun("inventory", pull = {})
  /\ Begun("playback", maxViewers = CHOOSE n \in Limits : TRUE)
  /\ Begun("members", role = [u \in People |-> "admin"])
  /\ Begun("schedules", plan = [s \in Schedules |->
       [enabled |-> TRUE, start |-> 0, end |-> 0, days |-> WeekDays]])
  /\ Begun("download", clip = [r \in Clips |->
       [segments |-> <<>>, name |-> CHOOSE n \in FileNames : TRUE]])
  /\ Begun("bell", notices = [i \in Notices |-> "none"])
  /\ Begun("rows", camera = NoRows)
  /\ InventoryInit /\ KeyInit /\ ProfileInit /\ ProbeInit /\ TagInit /\ PlaybackInit
  /\ PolicyInit /\ MemberInit /\ UsageInit /\ ScheduleInit /\ DownloadInit
  /\ StartsInit /\ HealthInit /\ AlertInit /\ TailInit /\ FeedInit /\ DialogInit /\ RowsInit /\ PanelInit

\* Requests, schedule and deletions.
CallsOf(callers, recs) ==
  \/ \E k \in callers, c \in Cameras : Request(k, c) \/ ScheduleCheck(k, c)
  \/ \E k \in callers, r \in recs : DeleteRead(k, r)
  \/ \E k \in callers : CallerStep(k) \/ CallerThrows(k)

\* The archive without time and retention, for room: they only take segments away,
\* and the question here is how many there may be; one caller and one recording.  The
\* starts have more of both and no segments, which the flag does not depend on.
ArchiveNext ==
  \/ LET r == CHOOSE q \in Recs : TRUE IN
     /\ CallsOf({CHOOSE k \in Callers : TRUE}, Recs)
     /\ \A q \in Recs \ {r} : rec'[q] = "unused"
  \/ \E h \in Hooks, c \in Cameras, s \in Segments : HookRead(h, c, s)
  \/ \E h \in Hooks : HookStep(h) \/ HookThrows(h)

ServicesNext ==
  \/ Only("inventory") /\ InventoryNext
  \/ Only("keys") /\ KeyNext
  \/ Only("profiles") /\ ProfileNext
  \/ Only("probe") /\ ProbeNext
  \/ Only("tags") /\ TagNext
  \/ Only("playback") /\ PlaybackNext
  \/ Only("policies") /\ PolicyNext
  \/ Only("members") /\ MemberNext
  \/ Only("usage") /\ UsageNext
  \/ Only("schedules") /\ ScheduleNext
  \/ Only("download") /\ DownloadNext
  \/ Only("archive") /\ ArchiveNext /\ StartsStep
  \/ Only("starts") /\ CallsOf(Callers, Recs) /\ StartsStep
  \/ Only("health") /\ HealthNext
  \/ Only("alerts") /\ AlertNext
  \/ Only("tail") /\ TailNext
  \/ Only("bell") /\ ~excused /\ FeedNext
  \/ Only("import") /\ ~doubt /\ DialogNext
  \/ Only("rows") /\ RowsNext
  \/ Only("panel") /\ PanelNext

ServicesSpec == ServicesInit /\ [][ServicesNext]_serviceVars

\* The types of the service that moves; the others are as an initial state left them, and
\* that state is one of theirs to begin with.
ServicesTypeOK ==
  /\ part \in Parts
  /\ part = "inventory" => InventoryTypeOK
  /\ part = "keys" => KeyTypeOK
  /\ part = "profiles" => ProfileTypeOK
  /\ part = "probe" => ProbeTypeOK
  /\ part = "tags" => TagTypeOK
  /\ part = "playback" => PlaybackTypeOK
  /\ part = "policies" => PolicyTypeOK
  /\ part = "members" => MemberTypeOK
  /\ part = "usage" => UsageTypeOK
  /\ part = "schedules" => ScheduleTypeOK
  /\ part = "download" => DownloadTypeOK
  /\ part = "health" => HealthTypeOK
  /\ part = "alerts" => AlertTypeOK
  /\ part = "tail" => TailTypeOK
  /\ part = "bell" => FeedTypeOK
  /\ part = "import" => DialogTypeOK
  /\ part = "rows" => RowsTypeOK
  /\ part = "panel" => PanelTypeOK
=============================================================================
