------------------------------ MODULE StreamProfiles ------------------------------
(***************************************************************************)
(* StreamProfile rows of one organisation and the cameras that use them:   *)
(* StreamProfileService.create, update and delete, await by await, and the *)
(* assignment of a profile to a camera.  The restart that an update sets   *)
(* off belongs to StreamRequests.                                          *)
(***************************************************************************)
EXTENDS Naturals, FiniteSets, Optional

CONSTANTS
  ProfileIds,    \* profiles
  Users,         \* cameras, which use profiles
  ProfileCalls   \* calls of create, update and delete at the same time

ASSUME ProfileAssumption == None \notin ProfileIds

VARIABLES
  mark,     \* StreamProfile rows: none, plain, default
  uses,     \* Camera rows: streamProfileId
  pcall,    \* calls: kind, place, profile, the isDefault it is to write
  blurred,  \* history: two calls overlapped, one failed between its writes, or a
            \* default was unmarked by hand, and no promotion has been made alone since
  met,      \* history: calls under way that have met another
  late      \* history: deletions whose profile was assigned after they had looked

profileVars == <<mark, uses, pcall, blurred, met, late>>

ProfileRows == {p \in ProfileIds : mark[p] # "none"}
Defaults == {p \in ProfileIds : mark[p] = "default"}
NoProfileCall == [kind |-> "create", at |-> "idle", p |-> None, flag |-> "absent"]

ProfileInit ==
  /\ mark = [p \in ProfileIds |-> "none"] /\ uses = [u \in Users |-> None]
  /\ pcall = [c \in ProfileCalls |-> NoProfileCall]
  /\ blurred = FALSE /\ met = {} /\ late = {}

Lone(c) == \A d \in ProfileCalls \ {c} : pcall[d].at = "idle"
ProfileCallsIdle == \A c \in ProfileCalls : pcall[c].at = "idle"
Step(c, place) == pcall' = [pcall EXCEPT ![c].at = place] /\ UNCHANGED met
Finish(c) == pcall' = [pcall EXCEPT ![c] = NoProfileCall] /\ met' = met \ {c} /\ late' = late \ {c}

\* Any call that begins while another is under way blurs the mark.
Begin(c, kind, place, p, flag) ==
  /\ pcall' = [pcall EXCEPT ![c] = [kind |-> kind, at |-> place, p |-> p, flag |-> flag]]
  /\ blurred' = (blurred \/ ~Lone(c))
  /\ met' = IF Lone(c) THEN met ELSE {d \in ProfileCalls : d = c \/ pcall[d].at # "idle"}

\* create: the first profile of an organisation is its default, asked or not.
FirstIsDefault(asked) == IF ProfileRows = {} THEN "yes" ELSE asked

CreateCount(c) ==
  /\ pcall[c].at = "idle"
  /\ \E p \in ProfileIds \ ProfileRows, asked \in {"yes", "no"} :
       LET flag == FirstIsDefault(asked) IN
       Begin(c, "create", IF flag = "yes" THEN "unset" ELSE "write", p, flag)
  /\ UNCHANGED <<mark, uses, late>>

\* update: the profile is read; isDefault may be true, false or absent.
UpdateRead(c) ==
  /\ pcall[c].at = "idle"
  /\ \E p \in ProfileRows, flag \in {"yes", "no", "absent"} :
       Begin(c, "update", IF flag = "yes" THEN "unset" ELSE "write", p, flag)
  /\ UNCHANGED <<mark, uses, late>>

Cleared == [p \in ProfileIds |-> IF mark[p] = "default" THEN "plain" ELSE mark[p]]

UnsetDefaults(c) ==
  /\ pcall[c].at = "unset"
  /\ mark' = Cleared
  /\ Step(c, "write")
  /\ UNCHANGED <<uses, blurred, late>>

\* The row is created or updated; an update of a row that is gone throws.
Marked(p, flag) ==
  [mark EXCEPT ![p] = CASE flag = "yes" -> "default" [] flag = "no" -> "plain" [] OTHER -> @]

Write(c) ==
  LET k == pcall[c]
      gone == k.kind = "update" /\ k.p \notin ProfileRows IN
  /\ k.at = "write" /\ (k.kind = "create" => k.p \notin ProfileRows)
  /\ mark' = IF gone THEN mark ELSE Marked(k.p, k.flag)
  /\ blurred' = IF k.flag = "yes" /\ c \notin met /\ ~gone THEN FALSE
                ELSE blurred \/ gone \/ (k.flag = "no" /\ mark[k.p] = "default")
  /\ Finish(c)
  /\ UNCHANGED uses

(***************************************************************************)
(* delete: not a default beside others, not one a camera uses.             *)
(***************************************************************************)
DeleteFind(c) ==
  /\ pcall[c].at = "idle"
  /\ \E p \in ProfileRows : Begin(c, "delete", IF p \in Defaults THEN "others" ELSE "used", p, "absent")
  /\ UNCHANGED <<mark, uses, late>>

\* Mutant of OthersExist: the check is dropped.
NeverOthers(p) == FALSE
OthersExist(p) == ProfileRows \ {p} # {}

DeleteOthers(c) ==
  /\ pcall[c].at = "others"
  /\ IF OthersExist(pcall[c].p) THEN Finish(c) ELSE Step(c, "used") /\ UNCHANGED late
  /\ UNCHANGED <<mark, uses, blurred>>

\* Mutant of InUse: the check is dropped.
NeverInUse(p) == FALSE
InUse(p) == \E u \in Users : uses[u] = p

DeleteUsed(c) ==
  /\ pcall[c].at = "used"
  /\ IF InUse(pcall[c].p) THEN Finish(c) ELSE Step(c, "delete") /\ UNCHANGED late
  /\ UNCHANGED <<mark, uses, blurred>>

\* onDelete: SetNull.
DeleteProfile(c) ==
  LET p == pcall[c].p IN
  /\ pcall[c].at = "delete"
  /\ mark' = [mark EXCEPT ![p] = "none"]
  /\ uses' = [u \in Users |-> IF uses[u] = p THEN None ELSE uses[u]]
  /\ Finish(c)
  /\ UNCHANGED blurred

\* createCamera, bulkImport and updateCamera write streamProfileId in one
\* statement; the database refuses a profile that is not there.
Assign(u) ==
  /\ \E p \in ProfileRows \cup {None} :
       /\ uses' = [uses EXCEPT ![u] = p]
       /\ late' = late \cup {c \in ProfileCalls : pcall[c].at = "delete" /\ pcall[c].p = p}
  /\ UNCHANGED <<mark, pcall, blurred, met>>

ProfileThrows(c) ==
  /\ pcall[c].at # "idle"
  /\ blurred' = (blurred \/ pcall[c].flag = "yes")
  /\ Finish(c)
  /\ UNCHANGED <<mark, uses>>

ProfileNext ==
  \/ \E c \in ProfileCalls :
       \/ CreateCount(c) \/ UpdateRead(c) \/ UnsetDefaults(c) \/ Write(c)
       \/ DeleteFind(c) \/ DeleteOthers(c) \/ DeleteUsed(c) \/ DeleteProfile(c) \/ ProfileThrows(c)
  \/ \E u \in Users : Assign(u)

ProfileSpec == ProfileInit /\ [][ProfileNext]_profileVars

(***************************************************************************)
(* Properties.                                                             *)
(***************************************************************************)
ProfileTypeOK ==
  /\ mark \in [ProfileIds -> {"none", "plain", "default"}]
  /\ uses \in [Users -> ProfileIds \cup {None}]
  /\ pcall \in [ProfileCalls -> [kind : {"create", "update", "delete"},
                                 at : {"idle", "unset", "write", "others", "used", "delete"},
                                 p : ProfileIds \cup {None}, flag : {"yes", "no", "absent"}]]
  /\ blurred \in BOOLEAN /\ met \subseteq ProfileCalls /\ late \subseteq ProfileCalls

\* Profiles have exactly one default among them, unless calls overlapped, one
\* failed half way, or a default was unmarked, and nobody has promoted a
\* profile alone since.  (StreamProfileService, stream-profile.service.ts:52)
OneDefaultUnlessBlurred ==
  ProfileCallsIdle /\ ProfileRows # {} /\ ~blurred => Cardinality(Defaults) = 1

StaysUsed(u) == uses[u] \in ProfileRows'
LostLate(u) == uses'[u] = None /\ \E c \in late : pcall[c].p = uses[u]

\* A profile is deleted under a camera only if it was assigned after the
\* deletion had looked; and no camera ever names a profile that is gone.
\* (stream-profile.service.ts:160, its comment on onDelete: SetNull)
UsedDeletedOnlyWhenLate ==
  [][\A u \in Users : uses[u] # None => StaysUsed(u) \/ LostLate(u)]_profileVars
=============================================================================
