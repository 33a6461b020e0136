--------------------------- MODULE Access_proofs ---------------------------
(***************************************************************************)
(* Proofs about who gets at what: playback sessions and their viewers      *)
(* (Playback), the policy of a camera (PlaybackPolicies), the members of   *)
(* an organisation (Members), the usage of API keys (ApiKeyUsage) and the  *)
(* log of SRS (SrsLogTail), for any sessions, players, people, keys,       *)
(* sockets, limits and bounds.                                             *)
(***************************************************************************)
EXTENDS Playback, PlaybackPolicies, Members, ApiKeyUsage, SrsLogTail,
  FiniteSetTheorems, TLAPS

(***************************************************************************)
(* ViewersCounted is inductive with the types, and with what a connection  *)
(* or a snapshot that is being answered knows of its session.              *)
(***************************************************************************)
HasSession ==
  /\ \A p \in Players : player[p].at \in {"verify", "lost"} => player[p].session \in Sessions
  /\ grab.at = "sign" => grab.session \in Sessions

PlaybackInv == PlaybackTypeOK /\ HasSession /\ ViewersCounted

\* The players are finitely many, so counting those that are on is sound.
LEMMA OnFinite ==
  ASSUME NEW S \in SUBSET Players
  PROVE  IsFiniteSet(S) /\ Cardinality(S) \in Nat
  BY PlaybackAssumption, FS_Subset, FS_CardinalityType

LEMMA PlaybackInitInv ==
  ASSUME PlaybackInit
  PROVE  PlaybackInv
<1> USE DEF PlaybackInit, NoSession, NoPlayer, NoGrab
<1>1. PlaybackTypeOK /\ HasSession
  <2>1. 0 \in 0..MaxChanges /\ 0 \in 0..MaxRestarts
    BY PlaybackAssumption
  <2>2. player \in [Players -> [at : {"idle", "verify", "lost", "plays", "left"},
                               session : Sessions \cup {None}]]
    OBVIOUS
  <2>3. QED
    BY <2>1, <2>2 DEF PlaybackTypeOK, HasSession
<1>2. On = {}
  BY DEF On
<1>3. ViewersCounted
  BY <1>2, FS_EmptySet DEF ViewersCounted
<1>4. QED
  BY <1>1, <1>3 DEF PlaybackInv

(***************************************************************************)
(* Sessions and snapshots: who is on, and the count, stay.                 *)
(***************************************************************************)
LEMMA SessionStep ==
  ASSUME PlaybackInv, NEW s \in Sessions,
         CreateResolve(s) \/ CreateRow(s) \/ CreateSign(s) \/ TokenExpires(s)
  PROVE  PlaybackInv'
<1>1. /\ \/ \E place \in {"resolved", "row", "signed", "expired"}, max \in Limits \cup {0} :
              Put(s, place, max)
         \/ session' = [session EXCEPT ![s] = NoSession]
      /\ UNCHANGED <<maxViewers, player, viewers, grab, changes, restarts, short, ghosts>>
  BY DEF CreateResolve, CreateRow, CreateSign, TokenExpires, playBounds, playPast, PlaybackInv,
         PlaybackTypeOK
<1>2. PlaybackTypeOK'
  BY <1>1 DEF PlaybackInv, PlaybackTypeOK, Put, NoSession
<1>3. QED
  BY <1>1, <1>2 DEF PlaybackInv, HasSession, ViewersCounted, On

LEMMA GrabStep ==
  ASSUME PlaybackInv, GrabSession \/ GrabSpawn \/ GrabEnd
  PROVE  PlaybackInv'
<1> USE DEF PlaybackInv, PlaybackTypeOK, HasSession
<1>1. CASE GrabSession
  BY <1>1, PlaybackAssumption DEF GrabSession, playBounds, playPast, ViewersCounted, On
<1>2. CASE GrabSpawn
  <2>1. PlaybackTypeOK' /\ HasSession'
    BY <1>2 DEF GrabSpawn, Put, playBounds, playPast
  <2>2. On' = On
    BY <1>2 DEF GrabSpawn, On
  <2>3. ViewersCounted'
    BY <1>2, <2>2 DEF GrabSpawn, playPast, ViewersCounted
  <2>4. QED
    BY <2>1, <2>3
<1>3. CASE GrabEnd
  BY <1>3 DEF GrabEnd, NoGrab, playBounds, playPast, ViewersCounted, On
<1>4. QED
  BY <1>1, <1>2, <1>3

LEMMA PolicyStep ==
  ASSUME PlaybackInv, PolicyChange
  PROVE  PlaybackInv'
  BY PlaybackAssumption
     DEF PlaybackInv, PlaybackTypeOK, HasSession, ViewersCounted, On, PolicyChange, playPast

(***************************************************************************)
(* Players: the count moves with those that are on.                        *)
(***************************************************************************)
LEMMA OnPlayStep ==
  ASSUME PlaybackInv, NEW p \in Players, OnPlay(p) \/ Leave(p)
  PROVE  PlaybackInv'
<1> USE DEF PlaybackInv, PlaybackTypeOK, HasSession
<1>1. PlaybackTypeOK' /\ HasSession'
  BY DEF OnPlay, Leave, Move, playBounds, playPast
<1>2. On' = On
  <2>1. CASE OnPlay(p)
    <3>1. PICK s \in Sessions : player' = [player EXCEPT ![p] = [at |-> "verify", session |-> s]]
      BY <2>1 DEF OnPlay
    <3>2. player[p].at = "idle"
      BY <2>1 DEF OnPlay
    <3>3. QED
      BY <3>1, <3>2 DEF On
  <2>2. CASE Leave(p)
    BY <2>2 DEF Leave, Move, On
  <2>3. QED
    BY <2>1, <2>2
<1>3. ViewersCounted'
  BY <1>2 DEF OnPlay, Leave, playPast, ViewersCounted
<1>4. QED
  BY <1>1, <1>3

LEMMA AdmitStep ==
  ASSUME PlaybackInv, NEW p \in Players, Admit(p)
  PROVE  PlaybackInv'
<1> USE DEF PlaybackInv, PlaybackTypeOK, HasSession
<1> DEFINE s == player[p].session
<1>1. /\ player[p].at \in {"verify", "lost"} /\ s \in Sessions /\ Admitted(s) \in BOOLEAN
      /\ player' = IF Admitted(s) /\ player[p].at = "verify"
                   THEN [player EXCEPT ![p].at = "plays"]
                   ELSE [player EXCEPT ![p] = NoPlayer]
      /\ viewers' = IF Admitted(s) THEN viewers + 1 ELSE viewers
      /\ ghosts' = (ghosts \/ (Admitted(s) /\ player[p].at = "lost"))
      /\ UNCHANGED <<maxViewers, session, grab, short, changes, restarts>>
  BY DEF Admit, Move, Admitted, Valid, playBounds
<1>2. PlaybackTypeOK' /\ HasSession'
  BY <1>1 DEF NoPlayer
<1>3. On \in SUBSET Players /\ p \notin On
  BY <1>1 DEF On
<1>4. On' = IF Admitted(s) /\ player[p].at = "verify" THEN On \cup {p} ELSE On
  BY <1>1 DEF On, NoPlayer
<1>5. Cardinality(On) \in Nat /\ Cardinality(On \cup {p}) = Cardinality(On) + 1
  BY <1>3, OnFinite, FS_AddElement
<1>6. ViewersCounted'
  BY <1>1, <1>4, <1>5 DEF ViewersCounted
<1>7. QED
  BY <1>2, <1>6

LEMMA OnStopStep ==
  ASSUME PlaybackInv, NEW p \in Players, OnStop(p)
  PROVE  PlaybackInv'
<1> USE DEF PlaybackInv, PlaybackTypeOK, HasSession
<1>1. PlaybackTypeOK' /\ HasSession'
  BY DEF OnStop, Fewer, NoPlayer, playBounds
<1>2. On \in SUBSET Players /\ p \in On
  BY DEF OnStop, On
<1>3. On' = On \ {p}
  BY DEF OnStop, On, NoPlayer
<1>4. /\ Cardinality(On) \in Nat /\ Cardinality(On') \in Nat
      /\ Cardinality(On') = Cardinality(On) - 1
  BY <1>2, <1>3, OnFinite, FS_RemoveElement
<1>5. On = {p} => Cardinality(On') = 0
  BY <1>3, FS_EmptySet
<1>6. ViewersCounted'
  BY <1>4, <1>5 DEF OnStop, Fewer, ViewersCounted
<1>7. QED
  BY <1>1, <1>6

(***************************************************************************)
(* Deaths.                                                                 *)
(***************************************************************************)
LEMMA ApiRestartStep ==
  ASSUME PlaybackInv, ApiRestart
  PROVE  PlaybackInv'
<1> USE DEF PlaybackInv, PlaybackTypeOK, HasSession
<1>1. player' \in [Players -> [at : {"idle", "plays"}, session : Sessions \cup {None}]]
  BY DEF ApiRestart, NoPlayer
<1>2. session' \in [Sessions -> [at : {"none", "signed", "expired"},
                                by : {"viewer", "snapshot"}, max : Limits \cup {0}]]
  BY DEF ApiRestart, NoSession
<1>3. restarts' \in 0..MaxRestarts /\ short' \in BOOLEAN
  BY PlaybackAssumption DEF ApiRestart
<1>4. PlaybackTypeOK' /\ HasSession'
  BY <1>1, <1>2, <1>3 DEF ApiRestart, NoGrab
<1>5. On' \in SUBSET Players
  BY DEF On
<1>6. ~short' => On' = {}
  BY DEF ApiRestart, On, NoPlayer
<1>7. Cardinality(On') \in Nat /\ (~short' => Cardinality(On') = 0)
  BY <1>5, <1>6, OnFinite, FS_EmptySet
<1>8. ViewersCounted'
  BY <1>7 DEF ApiRestart, ViewersCounted
<1>9. QED
  BY <1>4, <1>8

LEMMA SrsRestartStep ==
  ASSUME PlaybackInv, SrsRestart
  PROVE  PlaybackInv'
<1> USE DEF PlaybackInv, PlaybackTypeOK, HasSession
<1>1. player' = [q \in Players |->
        IF player[q].at = "plays" THEN NoPlayer
        ELSE IF player[q].at = "verify" THEN [player[q] EXCEPT !.at = "lost"] ELSE player[q]]
  BY DEF SrsRestart
<1>2. PlaybackTypeOK' /\ HasSession'
  BY <1>1, PlaybackAssumption DEF SrsRestart, NoPlayer
<1>3. On \in SUBSET Players /\ On' \subseteq On
  BY <1>1 DEF On, NoPlayer
<1>4. ASSUME ~ghosts' PROVE ~ghosts /\ On' = On
  <2>1. ~ghosts /\ \A q \in Players : player[q].at # "plays"
    BY <1>4 DEF SrsRestart
  <2>2. ASSUME NEW q \in Players PROVE player'[q].at = "left" <=> player[q].at = "left"
    BY <1>1, <2>1 DEF NoPlayer
  <2>3. ASSUME NEW q \in Players PROVE player'[q].at # "plays"
    BY <1>1, <2>1 DEF NoPlayer
  <2>4. QED
    BY <2>1, <2>2, <2>3 DEF On
<1>5. /\ Cardinality(On) \in Nat /\ Cardinality(On') \in Nat
      /\ Cardinality(On') <= Cardinality(On)
  BY <1>3, OnFinite, FS_Subset
<1>6. ViewersCounted'
  BY <1>4, <1>5 DEF SrsRestart, ViewersCounted
<1>7. QED
  BY <1>2, <1>6

LEMMA PlaybackStepInv == PlaybackInv /\ [PlaybackNext]_playbackVars => PlaybackInv'
<1> SUFFICES ASSUME PlaybackInv, [PlaybackNext]_playbackVars PROVE PlaybackInv'
  OBVIOUS
<1>1. CASE UNCHANGED playbackVars
  BY <1>1 DEF playbackVars, playPast, playBounds, PlaybackInv, PlaybackTypeOK, HasSession,
              ViewersCounted, On
<1>2. QED
  BY <1>1, SessionStep, GrabStep, PolicyStep, OnPlayStep, AdmitStep, OnStopStep, ApiRestartStep,
     SrsRestartStep DEF PlaybackNext

\* The invariant holds of every behaviour: on_play, on_stop, snapshots and deaths
\* keep count and players together.  (StatusService, srs-callback.controller.ts:280)
THEOREM Counted == PlaybackSpec => []PlaybackInv
  BY PlaybackInitInv, PlaybackStepInv, PTL DEF PlaybackSpec

\* The viewers counted are those that are on, but for what a death of SRS or of the
\* API leaves behind, for any players and sessions.  (StatusService.viewerCounts)
THEOREM ViewersAlwaysCounted == PlaybackSpec => []ViewersCounted
<1>1. PlaybackInv => ViewersCounted
  BY DEF PlaybackInv
<1>2. QED
  BY <1>1, Counted, PTL

\* on_play lets nobody in beyond the limit of the session, however many sessions
\* there are, unless the API died under players.  (srs-callback.controller.ts:304)
THEOREM AdmittedAlwaysWithinLimit == PlaybackSpec => AdmittedWithinLimit
<1>1. ASSUME PlaybackInv, PlaybackNext, NEW p \in Players,
             player[p].at = "verify", player'[p].at = "plays"
      PROVE  LET max == session[player[p].session].max IN
               max = 0 \/ Cardinality(On) < max \/ short
  <2> USE DEF PlaybackInv, PlaybackTypeOK, HasSession
  <2>1. Admit(p)
    <3>1. ASSUME NEW q \in Players \ {p}, player'[p] # player[p], OnPlay(q) \/ Admit(q) \/ Leave(q)
                   \/ OnStop(q)
          PROVE  FALSE
      BY <1>1, <3>1 DEF OnPlay, Admit, Leave, OnStop, Move, NoPlayer
    <3>2. ~OnPlay(p) /\ ~Leave(p) /\ ~OnStop(p)
      BY <1>1 DEF OnPlay, Leave, OnStop
    <3>3. ~ApiRestart /\ ~SrsRestart
      <4>1. CASE ApiRestart
        BY <1>1, <4>1 DEF ApiRestart, NoPlayer
      <4>2. CASE SrsRestart
        <5>1. player'[p] = IF player[p].at = "plays" THEN NoPlayer
                           ELSE IF player[p].at = "verify" THEN [player[p] EXCEPT !.at = "lost"]
                           ELSE player[p]
          BY <4>2 DEF SrsRestart
        <5>2. QED
          BY <1>1, <5>1
      <4>3. QED
        BY <4>1, <4>2
    <3>4. ~GrabSpawn
      BY <1>1 DEF GrabSpawn
    <3>5. player' # player
      BY <1>1
    <3>6. QED
      BY <1>1, <3>1, <3>2, <3>3, <3>4, <3>5
         DEF PlaybackNext, CreateResolve, CreateRow, CreateSign, TokenExpires, GrabSession, GrabEnd,
             PolicyChange
  <2>2. Admitted(player[p].session)
    BY <1>1, <2>1 DEF Admit, NoPlayer
  <2>3. session[player[p].session].max \in Nat
    <3>1. player[p].session \in Sessions
      BY <1>1
    <3>2. session[player[p].session].max \in Limits \cup {0}
      BY <1>1, <3>1
    <3>3. Limits \cup {0} \subseteq Nat
      BY PlaybackAssumption
    <3>4. QED
      BY <3>2, <3>3
  <2>4. Cardinality(On) \in Nat
    BY OnFinite DEF On
  <2>5. QED
    BY <1>1, <2>2, <2>3, <2>4 DEF Admitted, Full, ViewersCounted
<1>2. PlaybackInv /\ [PlaybackNext]_playbackVars =>
        [\A p \in Players : LET max == session[player[p].session].max IN
           player[p].at = "verify" /\ player'[p].at = "plays" =>
             max = 0 \/ Cardinality(On) < max \/ short]_playbackVars
  BY <1>1
<1>3. QED
  BY <1>2, Counted, PTL DEF PlaybackSpec, AdmittedWithinLimit

(***************************************************************************)
(* PlaybackPolicies.  The first level in order of priority that gives a    *)
(* scalar is the first one found going up from the camera.                 *)
(***************************************************************************)
LEMMA FirstOfLevels ==
  ASSUME NEW levels \in SUBSET PolicyLevel
  PROVE  /\ "CAMERA" \in levels => FirstOf(levels) = "CAMERA"
         /\ "CAMERA" \notin levels /\ "SITE" \in levels => FirstOf(levels) = "SITE"
         /\ levels \subseteq {"PROJECT", "SYSTEM"} /\ "PROJECT" \in levels => FirstOf(levels) = "PROJECT"
         /\ levels = {"SYSTEM"} => FirstOf(levels) = "SYSTEM"
<1> USE DEF PolicyLevel
<1>1. /\ LEVEL_PRIORITY("CAMERA") = 0 /\ LEVEL_PRIORITY("SITE") = 1
      /\ LEVEL_PRIORITY("PROJECT") = 2 /\ LEVEL_PRIORITY("SYSTEM") = 3
  BY DEF LEVEL_PRIORITY
<1>2. ASSUME NEW l \in levels, \A m \in levels : m # l => LEVEL_PRIORITY(l) < LEVEL_PRIORITY(m)
      PROVE  FirstOf(levels) = l
  <2>1. \A m \in levels : LEVEL_PRIORITY(m) \in Nat
    BY <1>1
  <2>2. \A m \in levels : LEVEL_PRIORITY(l) <= LEVEL_PRIORITY(m)
    BY <1>2, <2>1
  <2>3. \A k \in levels : (\A m \in levels : LEVEL_PRIORITY(k) <= LEVEL_PRIORITY(m)) => k = l
    BY <1>2, <2>1
  <2>4. QED
    BY <2>2, <2>3 DEF FirstOf
<1>3. "CAMERA" \in levels => FirstOf(levels) = "CAMERA"
  BY <1>1, <1>2
<1>4. "CAMERA" \notin levels /\ "SITE" \in levels => FirstOf(levels) = "SITE"
  BY <1>1, <1>2
<1>5. levels \subseteq {"PROJECT", "SYSTEM"} /\ "PROJECT" \in levels => FirstOf(levels) = "PROJECT"
  BY <1>1, <1>2
<1>6. levels = {"SYSTEM"} => FirstOf(levels) = "SYSTEM"
  BY <1>1, <1>2
<1>7. QED
  BY <1>3, <1>4, <1>5, <1>6

LEMMA ResolvedIsInherited == ScalarsInherited
<1> DEFINE given == {l \in Applying : policy[l].scalar # None}
<1>1. given \in SUBSET PolicyLevel
  BY DEF Applying
<1>2. \A l \in PolicyLevel : l \in given <=> Set(l) /\ policy[l].scalar # None
  BY DEF Applying
<1>3. ResolvedScalar = IF given = {} THEN SystemScalar ELSE policy[FirstOf(given)].scalar
  BY DEF ResolvedScalar
<1> HIDE DEF given
<1>4. \A s : \A l \in PolicyLevel : Own(l, s) = IF l \in given THEN policy[l].scalar ELSE s
  BY <1>2 DEF Own
<1> USE DEF PolicyLevel
<1>5. CASE "CAMERA" \in given
  BY <1>1, <1>3, <1>4, <1>5, FirstOfLevels DEF ScalarsInherited, Inherited
<1>6. CASE "CAMERA" \notin given /\ "SITE" \in given
  BY <1>1, <1>3, <1>4, <1>6, FirstOfLevels DEF ScalarsInherited, Inherited
<1>7. CASE given \subseteq {"PROJECT", "SYSTEM"} /\ "PROJECT" \in given
  BY <1>1, <1>3, <1>4, <1>7, FirstOfLevels DEF ScalarsInherited, Inherited
<1>8. CASE given = {"SYSTEM"}
  BY <1>1, <1>3, <1>4, <1>8, FirstOfLevels DEF ScalarsInherited, Inherited
<1>9. CASE given = {}
  BY <1>3, <1>4, <1>9 DEF ScalarsInherited, Inherited
<1>10. QED
  BY <1>1, <1>5, <1>6, <1>7, <1>8, <1>9

\* A scalar is what the nearest level gives, whatever was created, edited and
\* removed at which level.  (PoliciesService.resolve, policies.service.ts:184)
THEOREM ScalarsInheritedHolds == PolicySpec => []ScalarsInherited
<1>1. QED
  BY ResolvedIsInherited, PTL

\* Types, in every reachable state.  (PoliciesService, policies.service.ts:28)
LEMMA PolicyTypesHold == PolicySpec => []PolicyTypeOK
<1>1. PolicyInit => PolicyTypeOK
  BY DEF PolicyInit, PolicyTypeOK
<1>2. PolicyTypeOK /\ [PolicyNext]_policyVars => PolicyTypeOK'
  <2> SUFFICES ASSUME PolicyTypeOK, [PolicyNext]_policyVars PROVE PolicyTypeOK'
    OBVIOUS
  <2> USE DEF PolicyTypeOK
  <2>1. CASE SeedFind \/ PolicyReboot
    BY <2>1 DEF SeedFind, PolicyReboot
  <2>2. CASE SeedCreate
    <3>1. SystemDefault \in Policies
      BY PolicyAssumption DEF SystemDefault, Policies
    <3> QED
      BY <2>2, <3>1 DEF SeedCreate
  <2>3. ASSUME NEW l \in PolicyLevel, NEW p \in Policies \cup {NoPolicy}, PutPolicy(l, p) PROVE PolicyTypeOK'
    BY <2>3 DEF PutPolicy
  <2>4. CASE UNCHANGED policyVars
    BY <2>4 DEF policyVars
  <2> QED
    BY <2>1, <2>2, <2>3, <2>4 DEF PolicyNext, CreatePolicy, UpdatePolicy, RemovePolicy
<1> QED
  BY <1>1, <1>2, PTL DEF PolicySpec

(***************************************************************************)
(* LastAdminRemovedOnlyWhenStale needs to know what a removal that has     *)
(* looked, and is not stale, may rely on: its member is no admin, or there *)
(* is another one.                                                         *)
(***************************************************************************)
Sure(c) ==
  /\ removal[c].at = "idle" => c \notin stale
  /\ removal[c].at # "idle" => \E u \in People : removal[c].who = {u}
  /\ removal[c].at = "delete" /\ c \notin stale =>
       removal[c].who \cap Admins = {} \/ Admins \ removal[c].who # {}

MemberInv == MemberTypeOK /\ \A c \in Removals : Sure(c)

LEMMA InitSure == MemberInit => MemberInv
  BY DEF MemberInit, MemberInv, MemberTypeOK, Sure, NoRemoval

\* Of two or more admins one is left when another goes: what the count is for.
LEMMA EnoughLeavesOne ==
  ASSUME NEW u \in People, Enough
  PROVE  Admins \ {u} # {}
<1>1. SUFFICES ASSUME Admins \subseteq {u} PROVE FALSE
  OBVIOUS
<1>2. IsFiniteSet({u}) /\ Cardinality({u}) = 1
  BY FS_Singleton
<1>3. Cardinality(Admins) <= 1
  BY <1>1, <1>2, FS_Subset
<1>4. Cardinality(Admins) \in Nat
  BY <1>1, <1>2, FS_Subset, FS_CardinalityType
<1>5. QED
  BY <1>3, <1>4 DEF Enough

\* When admins change, every removal that has looked becomes stale; as long as
\* they do not, what it may rely on stays.
LEMMA SureWhileAdminsStay ==
  ASSUME NEW d \in Removals, Sure(d), removal'[d] = removal[d],
         d \in stale' <=> d \in stale, Admins' = Admins
  PROVE  Sure(d)'
  BY DEF Sure

LEMMA SureOnceStale ==
  ASSUME NEW d \in Removals, Sure(d), removal'[d] = removal[d],
         d \in stale' <=> d \in stale \cup Looked
  PROVE  Sure(d)'
  BY DEF Sure, Looked

LEMMA SetRoleStep ==
  ASSUME MemberInv, NEW u \in People, SetRole(u)
  PROVE  MemberInv'
<1>1. PICK r \in {"admin", "other"} :
        /\ role' = [role EXCEPT ![u] = r]
        /\ stale' = IF (role[u] = "admin") # (r = "admin") THEN stale \cup Looked ELSE stale
  BY DEF SetRole
<1>2. removal' = removal
  BY DEF SetRole
<1>3. MemberTypeOK'
  BY <1>1, <1>2 DEF MemberInv, MemberTypeOK, Looked
<1>4. ASSUME NEW d \in Removals PROVE Sure(d)'
  <2>1. Sure(d)
    BY DEF MemberInv
  <2>2. CASE (role[u] = "admin") # (r = "admin")
    BY <1>1, <1>2, <2>1, <2>2, SureOnceStale
  <2>3. CASE ~((role[u] = "admin") # (r = "admin"))
    <3>1. Admins' = Admins
      BY <1>1, <2>3 DEF Admins, MemberInv, MemberTypeOK
    <3>2. QED
      BY <1>1, <1>2, <2>1, <2>3, <3>1, SureWhileAdminsStay
  <2>4. QED
    BY <2>2, <2>3
<1>5. QED
  BY <1>3, <1>4 DEF MemberInv

LEMMA RemoveReadStep ==
  ASSUME MemberInv, NEW c \in Removals, RemoveRead(c)
  PROVE  MemberInv'
<1>1. PICK u \in People :
        /\ role[u] # "none"
        /\ removal' = [removal EXCEPT ![c] =
             [at |-> IF role[u] = "admin" THEN "count" ELSE "delete", who |-> {u}]]
  BY DEF RemoveRead
<1>2. role' = role /\ stale' = stale /\ Admins' = Admins
  BY DEF RemoveRead, Admins
<1>3. MemberTypeOK'
  BY <1>1, <1>2 DEF MemberInv, MemberTypeOK
<1>4. ASSUME NEW d \in Removals PROVE Sure(d)'
  <2>1. CASE d # c
    BY <1>1, <1>2, <2>1, SureWhileAdminsStay DEF MemberInv, MemberTypeOK
  <2>2. CASE d = c
    <3>1. removal'[c] = [at |-> IF role[u] = "admin" THEN "count" ELSE "delete", who |-> {u}]
      BY <1>1 DEF MemberInv, MemberTypeOK
    <3>2. role[u] # "admin" => {u} \cap Admins = {}
      BY DEF Admins
    <3>3. QED
      BY <1>2, <2>2, <3>1, <3>2 DEF Sure
  <2>3. QED
    BY <2>1, <2>2
<1>5. QED
  BY <1>3, <1>4 DEF MemberInv

LEMMA RemoveCountStep ==
  ASSUME MemberInv, NEW c \in Removals, RemoveCount(c)
  PROVE  MemberInv'
<1>1. /\ removal[c].at = "count"
      /\ removal' = [removal EXCEPT ![c] = IF Enough THEN [@ EXCEPT !.at = "delete"] ELSE NoRemoval]
      /\ stale' = stale \ {c} /\ role' = role /\ Admins' = Admins
  BY DEF RemoveCount, Admins
<1>2. MemberTypeOK'
  BY <1>1 DEF MemberInv, MemberTypeOK, NoRemoval
<1>3. ASSUME NEW d \in Removals PROVE Sure(d)'
  <2>1. CASE d # c
    BY <1>1, <2>1, SureWhileAdminsStay DEF MemberInv, MemberTypeOK
  <2>2. CASE d = c /\ ~Enough
    <3>1. removal'[c] = NoRemoval
      BY <1>1, <2>2 DEF MemberInv, MemberTypeOK
    <3>2. QED
      BY <1>1, <2>2, <3>1 DEF Sure, NoRemoval
  <2>3. CASE d = c /\ Enough
    <3>1. removal'[c].at = "delete" /\ removal'[c].who = removal[c].who
      BY <1>1, <2>3 DEF MemberInv, MemberTypeOK
    <3>2. PICK u \in People : removal[c].who = {u}
      BY <1>1 DEF MemberInv, Sure
    <3>3. Admins \ {u} # {}
      BY <2>3, EnoughLeavesOne
    <3>4. QED
      BY <1>1, <2>3, <3>1, <3>2, <3>3 DEF Sure
  <2>4. QED
    BY <2>1, <2>2, <2>3
<1>4. QED
  BY <1>2, <1>3 DEF MemberInv

LEMMA RemoveDeleteStep ==
  ASSUME MemberInv, NEW c \in Removals, RemoveDelete(c)
  PROVE  MemberInv'
<1> DEFINE who == removal[c].who
<1>1. /\ role' = [u \in People |-> IF u \in who THEN "none" ELSE role[u]]
      /\ removal' = [removal EXCEPT ![c] = NoRemoval]
      /\ stale' = (IF who \cap Admins # {} THEN stale \cup Looked ELSE stale) \ {c}
  BY DEF RemoveDelete
<1>2. MemberTypeOK'
  BY <1>1 DEF MemberInv, MemberTypeOK, NoRemoval, Looked
<1>3. ASSUME NEW d \in Removals PROVE Sure(d)'
  <2>1. CASE d = c
    <3>1. removal'[c] = NoRemoval
      BY <1>1 DEF MemberInv, MemberTypeOK
    <3>2. QED
      BY <1>1, <2>1, <3>1 DEF Sure, NoRemoval
  <2>2. CASE d # c /\ who \cap Admins # {}
    BY <1>1, <2>2, SureOnceStale DEF MemberInv, MemberTypeOK
  <2>3. CASE d # c /\ who \cap Admins = {}
    <3>1. Admins' = Admins
      BY <1>1, <2>3 DEF Admins
    <3>2. QED
      BY <1>1, <2>3, <3>1, SureWhileAdminsStay DEF MemberInv, MemberTypeOK
  <2>4. QED
    BY <2>1, <2>2, <2>3
<1>4. QED
  BY <1>2, <1>3 DEF MemberInv

LEMMA StepSure == MemberInv /\ [MemberNext]_memberVars => MemberInv'
<1> SUFFICES ASSUME MemberInv, [MemberNext]_memberVars PROVE MemberInv'
  OBVIOUS
<1>1. CASE \E u \in People : SetRole(u)
  BY <1>1, SetRoleStep
<1>2. CASE \E c \in Removals : RemoveRead(c)
  BY <1>2, RemoveReadStep
<1>3. CASE \E c \in Removals : RemoveCount(c)
  BY <1>3, RemoveCountStep
<1>4. CASE \E c \in Removals : RemoveDelete(c)
  BY <1>4, RemoveDeleteStep
<1>5. CASE UNCHANGED memberVars
  BY <1>5 DEF memberVars, MemberInv, MemberTypeOK, Sure, Admins
<1>6. QED
  BY <1>1, <1>2, <1>3, <1>4, <1>5 DEF MemberNext

\* The invariant holds of every behaviour: roles and calls have their types, and
\* a removal may rely on what it has looked up until it is stale.
\* (UsersService.removeMember, users.service.ts:125)
THEOREM RemovalsSure == MemberSpec => []MemberInv
  BY InitSure, StepSure, PTL DEF MemberSpec

\* A step that leaves an organisation without admins is a demotion, or a removal
\* that was stale.
LEMMA LastAdminStep ==
  ASSUME MemberInv, MemberNext, Admins # {}, Admins' = {}
  PROVE  \/ \E u \in People : role[u] = "admin" /\ role'[u] = "other"
         \/ \E c \in stale : removal[c].at = "delete" /\ removal'[c].at = "idle"
<1>1. CASE \E u \in People : SetRole(u)
  <2>1. PICK u \in People, r \in {"admin", "other"} : role' = [role EXCEPT ![u] = r]
    BY <1>1 DEF SetRole
  <2>2. PICK v \in People : role[v] = "admin"
    BY DEF Admins
  <2>3. role'[v] # "admin"
    BY DEF Admins
  <2>4. v = u /\ role'[u] = "other"
    BY <2>1, <2>2, <2>3 DEF MemberInv, MemberTypeOK
  <2>5. QED
    BY <2>2, <2>4
<1>2. CASE \E c \in Removals : RemoveRead(c) \/ RemoveCount(c)
  BY <1>2 DEF RemoveRead, RemoveCount, Admins
<1>3. CASE \E c \in Removals : RemoveDelete(c)
  <2>1. PICK c \in Removals : RemoveDelete(c)
    BY <1>3
  <2>2. Admins \subseteq removal[c].who
    BY <2>1 DEF RemoveDelete, Admins
  <2>3. c \in stale
    BY <2>1, <2>2 DEF MemberInv, Sure, RemoveDelete
  <2>4. removal'[c] = NoRemoval
    BY <2>1 DEF RemoveDelete, MemberInv, MemberTypeOK
  <2>5. QED
    BY <2>1, <2>3, <2>4 DEF RemoveDelete, NoRemoval
<1>4. QED
  BY <1>1, <1>2, <1>3 DEF MemberNext

\* "Cannot remove the last admin" holds but for demotions and stale removals, for
\* any people and calls.  (users.service.ts:133)
THEOREM LastAdminStays == MemberSpec => LastAdminRemovedOnlyWhenStale
<1>1. MemberInv /\ [MemberNext]_memberVars =>
        [Admins # {} /\ Admins' = {} =>
           \/ \E u \in People : role[u] = "admin" /\ role'[u] = "other"
           \/ \E c \in stale : removal[c].at = "delete" /\ removal'[c].at = "idle"]_memberVars
  BY LastAdminStep
<1>2. QED
  BY <1>1, RemovalsSure, PTL DEF MemberSpec, LastAdminRemovedOnlyWhenStale

(***************************************************************************)
(* ApiKeyUsage.  What the run has in hand is accounted for: between its    *)
(* read and the deletion the counter has what was read, unless it was      *)
(* counted up or expired, and after the upsert the database has that, too. *)
(* And a run that comes to its end leaves no counter of an earlier day.    *)
(***************************************************************************)
InHand(e) == run.at \in {"upsert", "del"} /\ run.e = e

NotOver(e) ==
  IF run.at = "del" /\ run.e = e
  THEN usage[e] <= made[e] /\ usage[e] + counter[e] <= made[e] + run.n
  ELSE usage[e] + counter[e] <= made[e] /\ (InHand(e) => usage[e] + run.n <= made[e])

NotUnder(e) ==
  /\ InHand(e) => counter[e] = run.n
  /\ usage[e] + counter[e] >= made[e] + (IF run.at = "del" /\ run.e = e THEN run.n ELSE 0)

Accounted ==
  \A e \in Entries : e[1] \in keys =>
    /\ e \notin again => NotOver(e)
    /\ e \notin raced \cup lapsed => NotUnder(e)

Passed(day) == day < today \/ (day = today /\ ranToday /\ run.at = "idle")

Emptying ==
  /\ run.at # "idle" => ranToday
  /\ run.at \in {"upsert", "del"} => run.e \in Entries
  /\ \A e \in Entries :
       run.at # "idle" /\ e[2] < today /\ counter[e] > 0 => e \in run.left \/ InHand(e)
  /\ \A e \in Entries : \A day \in Days \ failedDays :
       Passed(day) /\ e[2] < day => counter[e] = 0
  /\ \A e \in lapsed : e[2] + 1 \in failedDays /\ e[2] + 2 \in failedDays

UsageInv == UsageTypeOK /\ Accounted /\ Emptying

LEMMA InitUsage == UsageInit => UsageInv
<1> SUFFICES ASSUME UsageInit PROVE UsageInv
  OBVIOUS
<1> USE UsageAssumption DEF UsageInit, NoRun, NoCounts, Days, Entries
<1>1. UsageTypeOK
  <2>1. 0 \in Days /\ 0 \in 0..MaxAborts
    OBVIOUS
  <2>2. QED
    BY <2>1 DEF UsageTypeOK
<1>2. Accounted /\ Emptying
  BY DEF Accounted, NotOver, NotUnder, Emptying, InHand, Passed
<1>3. QED
  BY <1>1, <1>2 DEF UsageInv

\* An entry: the key, a day, and the numbers kept of it.
LEMMA EntryNumbers ==
  ASSUME UsageInv, NEW e \in Entries
  PROVE  /\ e[1] \in ApiKeys /\ e[2] \in Days /\ e[2] \in Nat /\ e = <<e[1], e[2]>>
         /\ counter[e] \in Nat /\ usage[e] \in Nat /\ made[e] \in Nat /\ run.n \in Nat
         /\ today \in Nat
  BY UsageAssumption DEF UsageInv, UsageTypeOK, Entries, Days

\* Whether an entry is accounted for depends on its own numbers, and on the run when it is in hand.
LEMMA EntryKept ==
  ASSUME NEW e \in Entries, counter'[e] = counter[e], usage'[e] = usage[e], made'[e] = made[e],
         run' = run \/ (~InHand(e) /\ ~InHand(e)')
  PROVE  (NotOver(e) => NotOver(e)') /\ (NotUnder(e) => NotUnder(e)')
  BY DEF NotOver, NotUnder, InHand

\* A request is counted up in Redis.
LEMMA RecordStep ==
  ASSUME UsageInv, NEW k \in ApiKeys, Record(k)
  PROVE  UsageInv'
<1>0. PICK e \in Entries : e = <<k, today>>
  BY DEF UsageInv, UsageTypeOK, Entries
<1>1. /\ counter' = [counter EXCEPT ![e] = counter[e] + 1] /\ made' = [made EXCEPT ![e] = made[e] + 1]
      /\ raced' = IF run.at \in {"upsert", "del"} /\ run.e = e THEN raced \cup {e} ELSE raced
      /\ UNCHANGED <<keys, usage, today, ranToday, run, aborts, again, lapsed, failedDays>>
  BY <1>0 DEF Record
<1>2. e \in Entries /\ e[2] = today
  BY <1>0
<1>3. counter[e] \in Nat /\ made[e] \in Nat /\ usage[e] \in Nat /\ run.n \in Nat /\ today \in Nat
  BY <1>2, EntryNumbers
<1>4. /\ counter'[e] = counter[e] + 1 /\ made'[e] = made[e] + 1
      /\ \A f \in Entries \ {e} : counter'[f] = counter[f] /\ made'[f] = made[f]
  BY <1>1, <1>2 DEF UsageInv, UsageTypeOK
<1>5. UsageTypeOK'
  <2>1. counter' \in [Entries -> Nat] /\ made' \in [Entries -> Nat] /\ raced' \subseteq Entries
    BY <1>1, <1>2, <1>3 DEF UsageInv, UsageTypeOK
  <2>2. QED
    BY <1>1, <2>1 DEF UsageInv, UsageTypeOK
<1>6. Accounted'
  <2>1. ASSUME NEW f \in Entries, f[1] \in keys
        PROVE  /\ f \notin again => NotOver(f)'
               /\ f \notin raced' \cup lapsed => NotUnder(f)'
    <3>1. /\ f \notin again => NotOver(f)
          /\ f \notin raced \cup lapsed => NotUnder(f)
      BY <2>1 DEF UsageInv, Accounted
    <3>2. CASE f # e
      BY <1>1, <1>4, <3>1, <3>2, EntryKept
    <3>3. CASE f = e
      <4>1. NotOver(e) => NotOver(e)'
        BY <1>1, <1>3, <1>4 DEF NotOver, InHand
      <4>2. ~InHand(e) /\ NotUnder(e) => NotUnder(e)'
        BY <1>1, <1>3, <1>4 DEF NotUnder, InHand
      <4>3. e \notin raced' => ~InHand(e) /\ e \notin raced
        BY <1>1 DEF InHand
      <4>4. QED
        BY <3>1, <3>3, <4>1, <4>2, <4>3
    <3>4. QED
      BY <3>2, <3>3
  <2>2. QED
    BY <1>1, <2>1 DEF Accounted
<1>7. Emptying'
  <2>1. \A f \in Entries : f[2] < today => counter'[f] = counter[f]
    BY <1>2, <1>3, <1>4
  <2>2. \A day \in Days : Passed(day) => day <= today
    BY <1>3 DEF Passed, Days
  <2>3. \A f \in Entries, day \in Days : Passed(day) /\ f[2] < day => f[2] < today
    BY <1>3, <2>2, EntryNumbers DEF Days
  <2>4. QED
    BY <1>1, <2>1, <2>3 DEF UsageInv, Emptying, Passed, InHand
<1>8. QED
  BY <1>5, <1>6, <1>7 DEF UsageInv

LEMMA DeleteKeyStep ==
  ASSUME UsageInv, NEW k \in ApiKeys, DeleteKey(k)
  PROVE  UsageInv'
<1>1. /\ keys' = keys \ {k} /\ usage' = [e \in Entries |-> IF e[1] = k THEN 0 ELSE usage[e]]
      /\ UNCHANGED <<counter, today, ranToday, run, aborts, made, raced, again, lapsed, failedDays>>
  BY DEF DeleteKey, usagePast
<1>2. UsageTypeOK'
  BY <1>1 DEF UsageInv, UsageTypeOK
<1>3. Accounted'
  <2>1. ASSUME NEW e \in Entries, e[1] \in keys'
        PROVE  (e \notin again => NotOver(e)') /\ (e \notin raced \cup lapsed => NotUnder(e)')
    <3>1. usage'[e] = usage[e] /\ e[1] \in keys
      BY <1>1, <2>1
    <3>2. QED
      BY <1>1, <3>1, EntryKept DEF UsageInv, Accounted
  <2>2. QED
    BY <1>1, <2>1 DEF Accounted
<1>4. Emptying'
  BY <1>1 DEF UsageInv, Emptying, InHand, Passed
<1>5. QED
  BY <1>2, <1>3, <1>4 DEF UsageInv

LEMMA NextDayStep ==
  ASSUME UsageInv, NextDay
  PROVE  UsageInv'
<1>1. /\ today < LastDay /\ ranToday /\ run.at = "idle" /\ today' = today + 1 /\ ranToday' = FALSE
      /\ UNCHANGED <<keys, counter, usage, run, aborts, made, raced, again, lapsed, failedDays>>
  BY DEF NextDay, usagePast
<1>2. UsageTypeOK'
  <2>1. today' \in Days
    BY <1>1, UsageAssumption DEF UsageInv, UsageTypeOK, Days
  <2>2. QED
    BY <1>1, <2>1 DEF UsageInv, UsageTypeOK
<1>3. Accounted'
  BY <1>1 DEF UsageInv, Accounted, NotOver, NotUnder, InHand
<1>4. Emptying'
  <2>1. \A day \in Days : Passed(day)' => Passed(day)
    BY <1>1, UsageAssumption DEF Passed, UsageInv, UsageTypeOK, Days
  <2>2. QED
    BY <1>1, <2>1 DEF UsageInv, Emptying, InHand
<1>5. QED
  BY <1>2, <1>3, <1>4 DEF UsageInv

\* Redis forgets a counter only after two days on which no run came to its end.
LEMMA CounterExpiresStep ==
  ASSUME UsageInv, NEW e \in Entries, CounterExpires(e)
  PROVE  UsageInv'
<1>1. /\ today >= e[2] + 3 /\ counter[e] > 0
      /\ counter' = [counter EXCEPT ![e] = 0] /\ lapsed' = lapsed \cup {e}
      /\ UNCHANGED <<keys, usage, today, ranToday, run, aborts, made, raced, again, failedDays>>
  BY DEF CounterExpires, EXPIRE_DAYS
<1>2. /\ counter'[e] = 0 /\ \A f \in Entries \ {e} : counter'[f] = counter[f]
      /\ counter[e] \in Nat /\ usage[e] \in Nat /\ made[e] \in Nat /\ run.n \in Nat
      /\ today \in 0..LastDay /\ e[2] \in Nat
  BY <1>1, EntryNumbers DEF UsageInv, UsageTypeOK, Days
<1>3. UsageTypeOK'
  <2>1. counter' \in [Entries -> Nat]
    BY <1>1 DEF UsageInv, UsageTypeOK
  <2>2. QED
    BY <1>1, <2>1 DEF UsageInv, UsageTypeOK
<1>4. Accounted'
  <2>1. ASSUME NEW f \in Entries, f[1] \in keys
        PROVE  /\ f \notin again => NotOver(f)'
               /\ f \notin raced \cup lapsed' => NotUnder(f)'
    <3>1. /\ f \notin again => NotOver(f)
          /\ f \notin raced \cup lapsed => NotUnder(f)
      BY <2>1 DEF UsageInv, Accounted
    <3>2. CASE f # e
      BY <1>1, <1>2, <3>1, <3>2, EntryKept
    <3>3. CASE f = e
      <4>1. NotOver(e) => NotOver(e)'
        BY <1>1, <1>2 DEF NotOver, InHand
      <4>2. QED
        BY <1>1, <3>1, <3>3, <4>1
    <3>4. QED
      BY <3>2, <3>3
  <2>2. QED
    BY <1>1, <2>1 DEF Accounted
<1>5. Emptying'
  <2>1. e[2] + 1 \in Days /\ e[2] + 2 \in Days
    BY <1>1, <1>2, UsageAssumption DEF Days
  <2>2. Passed(e[2] + 1) /\ Passed(e[2] + 2)
    BY <1>1, <1>2 DEF Passed
  <2>3. e[2] + 1 \in failedDays /\ e[2] + 2 \in failedDays
    <3>1. counter[e] # 0 /\ e[2] < e[2] + 1 /\ e[2] < e[2] + 2
      BY <1>1, <1>2
    <3>2. QED
      BY <2>1, <2>2, <3>1 DEF UsageInv, Emptying
  <2>4. \A f \in Entries : counter'[f] = counter[f] \/ counter'[f] = 0
    BY <1>2
  <2>5. \A f \in Entries : counter'[f] > 0 => counter[f] > 0
    BY <2>4
  <2>6. \A f \in lapsed' : f[2] + 1 \in failedDays /\ f[2] + 2 \in failedDays
    BY <1>1, <2>3 DEF UsageInv, Emptying
  <2>7. QED
    BY <1>1, <2>4, <2>5, <2>6 DEF UsageInv, Emptying, InHand, Passed
<1>6. QED
  BY <1>3, <1>4, <1>5 DEF UsageInv

(***************************************************************************)
(* aggregateDaily.                                                         *)
(***************************************************************************)
\* The day's run begins with every counter that has something in it.
LEMMA RunKeysStep ==
  ASSUME UsageInv, RunKeys
  PROVE  UsageInv'
<1>1. /\ ~ranToday /\ ranToday' = TRUE
      /\ run' = [at |-> "next", left |-> {e \in Entries : counter[e] > 0}, e |-> None, n |-> 0]
      /\ UNCHANGED <<keys, counter, usage, today, aborts, made, raced, again, lapsed, failedDays>>
  BY DEF RunKeys, usagePast, NoRun
<1>2. run.at = "idle"
  BY <1>1 DEF UsageInv, Emptying
<1>3. UsageTypeOK'
  BY <1>1 DEF UsageInv, UsageTypeOK
<1>4. Accounted'
  <2>1. ASSUME NEW e \in Entries PROVE (NotOver(e) => NotOver(e)') /\ (NotUnder(e) => NotUnder(e)')
    BY <1>1, <1>2, EntryKept DEF InHand
  <2>2. QED
    BY <1>1, <2>1 DEF UsageInv, Accounted
<1>5. Emptying'
  <2>1. \A day \in Days : Passed(day)' => Passed(day)
    BY <1>1 DEF Passed
  <2>2. QED
    BY <1>1, <2>1 DEF UsageInv, Emptying, InHand
<1>6. QED
  BY <1>3, <1>4, <1>5 DEF UsageInv

LEMMA RunGetStep ==
  ASSUME UsageInv, RunGet
  PROVE  UsageInv'
<1>1. PICK e \in run.left : run' = [at |-> "upsert", left |-> run.left \ {e}, e |-> e, n |-> counter[e]]
  BY DEF RunGet
<1>2. /\ run.at = "next" /\ e \in Entries
      /\ UNCHANGED <<keys, counter, usage, today, ranToday, aborts, made, raced, again, lapsed, failedDays>>
  BY DEF RunGet, usagePast, UsageInv, UsageTypeOK
<1>3. counter[e] \in Nat /\ usage[e] \in Nat /\ made[e] \in Nat
  BY <1>2, EntryNumbers
<1>4. UsageTypeOK'
  BY <1>1, <1>2, <1>3 DEF UsageInv, UsageTypeOK
<1>5. Accounted'
  <2>1. ASSUME NEW f \in Entries PROVE (NotOver(f) => NotOver(f)') /\ (NotUnder(f) => NotUnder(f)')
    <3>1. CASE f # e
      BY <1>1, <1>2, <3>1, EntryKept DEF InHand
    <3>2. CASE f = e
      BY <1>1, <1>2, <1>3, <3>2 DEF NotOver, NotUnder, InHand
    <3>3. QED
      BY <3>1, <3>2
  <2>2. QED
    BY <1>2, <2>1 DEF UsageInv, Accounted
<1>6. Emptying'
  BY <1>1, <1>2 DEF UsageInv, Emptying, InHand, Passed
<1>7. QED
  BY <1>4, <1>5, <1>6 DEF UsageInv

\* The row gets what was read, and the entry stays in hand; that of a deleted key ends the run.
LEMMA RunUpsertStep ==
  ASSUME UsageInv, RunUpsert
  PROVE  UsageInv'
<1>1. PICK e \in Entries : e = run.e /\ InHand(e)
  BY DEF RunUpsert, UsageInv, Emptying, InHand
<1>2. /\ run.at = "upsert"
      /\ UNCHANGED <<keys, counter, today, ranToday, made, raced, again, lapsed>>
  BY DEF RunUpsert
<1>3. counter[e] \in Nat /\ usage[e] \in Nat /\ made[e] \in Nat /\ run.n \in Nat
  BY EntryNumbers
<1>4. CASE e[1] \in keys
  <2>1. /\ usage' = [usage EXCEPT ![e] = usage[e] + run.n] /\ run' = [run EXCEPT !.at = "del"]
        /\ UNCHANGED <<failedDays, aborts>>
    BY <1>1, <1>4 DEF RunUpsert
  <2>2. run'.at = "del" /\ run'.e = e /\ run'.n = run.n /\ run'.left = run.left
    BY <1>1, <2>1 DEF UsageInv, UsageTypeOK
  <2>3. usage'[e] = usage[e] + run.n /\ \A f \in Entries \ {e} : usage'[f] = usage[f]
    BY <2>1 DEF UsageInv, UsageTypeOK
  <2>4. UsageTypeOK'
    <3>1. usage' \in [Entries -> Nat]
      BY <1>3, <2>1 DEF UsageInv, UsageTypeOK
    <3>2. QED
      BY <1>2, <2>1, <3>1 DEF UsageInv, UsageTypeOK
  <2>5. Accounted'
    <3>1. ASSUME NEW f \in Entries PROVE (NotOver(f) => NotOver(f)') /\ (NotUnder(f) => NotUnder(f)')
      <4>1. CASE f # e
        BY <1>1, <1>2, <2>2, <2>3, <4>1, EntryKept DEF InHand
      <4>2. CASE f = e
        BY <1>1, <1>2, <1>3, <2>2, <2>3, <4>2 DEF NotOver, NotUnder, InHand
      <4>3. QED
        BY <4>1, <4>2
    <3>2. QED
      BY <1>2, <2>1, <3>1 DEF UsageInv, Accounted
  <2>6. Emptying'
    BY <1>1, <1>2, <2>1, <2>2 DEF UsageInv, Emptying, InHand, Passed
  <2>7. QED
    BY <2>4, <2>5, <2>6 DEF UsageInv
<1>5. CASE e[1] \notin keys
  <2>1. run' = NoRun /\ failedDays' = failedDays \cup {today} /\ UNCHANGED <<usage, aborts>>
    BY <1>1, <1>5 DEF RunUpsert, Stop
  <2>2. UsageTypeOK'
    BY <1>2, <2>1 DEF UsageInv, UsageTypeOK, NoRun
  <2>3. Accounted'
    <3>1. ASSUME NEW f \in Entries, f # e PROVE (NotOver(f) => NotOver(f)') /\ (NotUnder(f) => NotUnder(f)')
      BY <1>1, <1>2, <2>1, <3>1, EntryKept DEF InHand, NoRun
    <3>2. QED
      BY <1>2, <1>5, <2>1, <3>1 DEF UsageInv, Accounted
  <2>4. Emptying'
    <3>1. \A day \in Days \ failedDays' : Passed(day)' => Passed(day)
      BY <1>2, <2>1 DEF Passed
    <3>2. QED
      BY <1>2, <2>1, <3>1 DEF UsageInv, Emptying, InHand, NoRun
  <2>5. QED
    BY <2>2, <2>3, <2>4 DEF UsageInv
<1>6. QED
  BY <1>4, <1>5

LEMMA RunDelStep ==
  ASSUME UsageInv, RunDel
  PROVE  UsageInv'
<1>1. PICK e \in Entries : e = run.e /\ InHand(e)
  BY DEF RunDel, UsageInv, Emptying, InHand
<1>2. /\ run.at = "del" /\ counter' = [counter EXCEPT ![e] = 0]
      /\ run' = [run EXCEPT !.at = "next", !.e = None, !.n = 0]
      /\ UNCHANGED <<keys, usage, today, ranToday, aborts, made, raced, again, lapsed, failedDays>>
  BY <1>1 DEF RunDel, Emptied, usagePast
<1>3. counter[e] \in Nat /\ usage[e] \in Nat /\ made[e] \in Nat /\ run.n \in Nat
  BY EntryNumbers
<1>4. /\ run'.at = "next" /\ run'.left = run.left /\ counter'[e] = 0
      /\ \A f \in Entries \ {e} : counter'[f] = counter[f]
  BY <1>2 DEF UsageInv, UsageTypeOK
<1>5. UsageTypeOK'
  <2>1. counter' \in [Entries -> Nat]
    BY <1>2 DEF UsageInv, UsageTypeOK
  <2>2. run' \in [at : {"idle", "next", "upsert", "del"}, left : SUBSET Entries,
                  e : Entries \cup {None}, n : Nat]
    BY <1>2 DEF UsageInv, UsageTypeOK
  <2>3. QED
    BY <1>2, <2>1, <2>2 DEF UsageInv, UsageTypeOK
<1>6. Accounted'
  <2>1. ASSUME NEW f \in Entries PROVE (NotOver(f) => NotOver(f)') /\ (NotUnder(f) => NotUnder(f)')
    <3>1. CASE f # e
      BY <1>1, <1>2, <1>4, <3>1, EntryKept DEF InHand
    <3>2. CASE f = e
      BY <1>1, <1>2, <1>3, <1>4, <3>2 DEF NotOver, NotUnder, InHand
    <3>3. QED
      BY <3>1, <3>2
  <2>2. QED
    BY <1>2, <2>1 DEF UsageInv, Accounted
<1>7. Emptying'
  <2>1. \A f \in Entries : counter'[f] = counter[f] \/ counter'[f] = 0
    BY <1>4
  <2>2. \A f \in Entries : counter'[f] > 0 => counter[f] > 0 /\ f # e
    BY <1>4
  <2>3. QED
    BY <1>1, <1>2, <1>4, <2>1, <2>2 DEF UsageInv, Emptying, InHand, Passed
<1>8. QED
  BY <1>5, <1>6, <1>7 DEF UsageInv

\* A run that comes to its end has emptied the counters of all earlier days.
LEMMA RunEndStep ==
  ASSUME UsageInv, RunEnd
  PROVE  UsageInv'
<1>1. /\ run.at = "next" /\ run.left = {} /\ run' = NoRun
      /\ UNCHANGED <<keys, counter, usage, today, ranToday, aborts, made, raced, again, lapsed, failedDays>>
  BY DEF RunEnd, usagePast
<1>2. UsageTypeOK'
  BY <1>1 DEF UsageInv, UsageTypeOK, NoRun
<1>3. Accounted'
  <2>1. ASSUME NEW e \in Entries PROVE (NotOver(e) => NotOver(e)') /\ (NotUnder(e) => NotUnder(e)')
    BY <1>1, EntryKept DEF InHand, NoRun
  <2>2. QED
    BY <1>1, <2>1 DEF UsageInv, Accounted
<1>4. Emptying'
  <2>1. ASSUME NEW e \in Entries, NEW day \in Days \ failedDays, Passed(day)', e[2] < day
        PROVE  counter[e] = 0
    <3>1. CASE Passed(day)
      BY <2>1, <3>1 DEF UsageInv, Emptying
    <3>2. CASE ~Passed(day)
      <4>1. day = today
        BY <1>1, <2>1, <3>2 DEF Passed
      <4>2. ~(counter[e] > 0)
        BY <1>1, <2>1, <4>1 DEF UsageInv, Emptying, InHand
      <4>3. QED
        BY <4>2, EntryNumbers
    <3>3. QED
      BY <3>1, <3>2
  <2>2. QED
    BY <1>1, <2>1 DEF UsageInv, Emptying, InHand, NoRun
<1>5. QED
  BY <1>2, <1>3, <1>4 DEF UsageInv

LEMMA RunAbortStep ==
  ASSUME UsageInv, RunAbort
  PROVE  UsageInv'
<1>1. /\ run.at # "idle" /\ run' = NoRun /\ failedDays' = failedDays \cup {today}
      /\ aborts' \in 0..MaxAborts
      /\ again' = IF run.at = "del" THEN again \cup {run.e} ELSE again
      /\ UNCHANGED <<keys, counter, usage, today, ranToday, made, raced, lapsed>>
  BY UsageAssumption DEF RunAbort, Stop, UsageInv, UsageTypeOK
<1>2. UsageTypeOK'
  <2>1. again' \subseteq Entries
    BY <1>1 DEF UsageInv, UsageTypeOK, Emptying
  <2>2. failedDays' \subseteq Days
    BY <1>1 DEF UsageInv, UsageTypeOK
  <2>3. QED
    BY <1>1, <2>1, <2>2 DEF UsageInv, UsageTypeOK, NoRun
<1>3. Accounted'
  <2>1. ASSUME NEW e \in Entries
        PROVE  (NotUnder(e) => NotUnder(e)') /\ (e \notin again' /\ NotOver(e) => NotOver(e)')
    <3>1. counter[e] \in Nat /\ usage[e] \in Nat /\ made[e] \in Nat /\ run.n \in Nat
      BY EntryNumbers
    <3>2. ~InHand(e)' /\ run'.at = "idle"
      BY <1>1 DEF InHand, NoRun
    <3>3. NotUnder(e) => NotUnder(e)'
      BY <1>1, <3>1, <3>2 DEF NotUnder
    <3>4. e \notin again' => ~(run.at = "del" /\ run.e = e)
      BY <1>1
    <3>5. e \notin again' /\ NotOver(e) => NotOver(e)'
      BY <1>1, <3>2, <3>4 DEF NotOver
    <3>6. QED
      BY <3>3, <3>5
  <2>2. QED
    BY <1>1, <2>1 DEF UsageInv, Accounted
<1>4. Emptying'
  <2>1. \A day \in Days \ failedDays' : Passed(day)' => Passed(day)
    BY <1>1 DEF Passed
  <2>2. QED
    BY <1>1, <2>1 DEF UsageInv, Emptying, InHand, NoRun
<1>5. QED
  BY <1>2, <1>3, <1>4 DEF UsageInv

LEMMA UsageStep == UsageInv /\ [UsageNext]_usageVars => UsageInv'
<1>1. ASSUME UsageInv, UNCHANGED usageVars PROVE UsageInv'
  BY <1>1 DEF UsageInv, UsageTypeOK, Accounted, NotOver, NotUnder, Emptying, InHand, Passed, usageVars
<1>2. QED
  BY <1>1, RecordStep, DeleteKeyStep, NextDayStep, CounterExpiresStep, RunKeysStep, RunGetStep,
     RunUpsertStep, RunDelStep, RunEndStep, RunAbortStep DEF UsageNext

\* What the run has in hand is accounted for, whatever requests, deletions and days come
\* in between.  (ApiKeysService.aggregateDaily, api-keys.service.ts:180)
THEOREM UsageInvHolds == UsageSpec => []UsageInv
  BY InitUsage, UsageStep, PTL DEF UsageSpec

\* Every request of a key is counted once, but for a run that died between its two
\* writes, a request between read and deletion, and an expired counter.
\* (ApiKeysService.aggregateDaily, api-keys.service.ts:180)
THEOREM UsageAlwaysExplained == UsageSpec => []UsageExplained
<1>1. ASSUME UsageInv PROVE UsageExplained
  <2>1. ASSUME NEW e \in Entries, e[1] \in keys
        PROVE  /\ (run.at # "del" \/ run.e # e) =>
                    /\ usage[e] + counter[e] > made[e] => e \in again
                    /\ usage[e] + counter[e] < made[e] => e \in raced \cup lapsed
               /\ e \in lapsed => e[2] + 1 \in failedDays /\ e[2] + 2 \in failedDays
    <3>1. counter[e] \in Nat /\ usage[e] \in Nat /\ made[e] \in Nat
      BY <1>1, EntryNumbers
    <3>2. (e \notin again => NotOver(e)) /\ (e \notin raced \cup lapsed => NotUnder(e))
      BY <1>1, <2>1 DEF UsageInv, Accounted
    <3>3. e \in lapsed => e[2] + 1 \in failedDays /\ e[2] + 2 \in failedDays
      BY <1>1 DEF UsageInv, Emptying
    <3>4. QED
      BY <3>1, <3>2, <3>3 DEF NotOver, NotUnder
  <2>2. QED
    BY <2>1 DEF UsageExplained
<1>2. QED
  BY <1>1, UsageInvHolds, PTL

(***************************************************************************)
(* SrsLogTail.  Each socket is counted at most once, which bounds the      *)
(* count; and while nothing was miscounted, count and child are right even *)
(* while sessions are looked up, and a child about to close is then the    *)
(* only one.                                                               *)
(***************************************************************************)
Dialled == {w \in Watchers : visit[w] \in {"checking", "left"}}

TailRight ==
  /\ TailServes
  /\ (\E t \in Tails : tail[t] = "ending") => Watching = {}

TailInv ==
  /\ TailTypeOK
  /\ connectedClients + Cardinality(Dialled) <= dials
  /\ ~miscounted => TailRight

\* Any set of watchers is finite, and has one more with a new one and one less without one.
LEMMA WatchersCounted ==
  ASSUME NEW S \in SUBSET Watchers
  PROVE  /\ Cardinality(S) \in Nat /\ (Cardinality(S) = 0 <=> S = {})
         /\ \A w \in Watchers \ S : Cardinality(S \cup {w}) = Cardinality(S) + 1
         /\ \A w \in S : Cardinality(S \ {w}) = Cardinality(S) - 1
<1>1. IsFiniteSet(S)
  BY TailAssumption, FS_Subset
<1>2. QED
  BY <1>1, FS_CardinalityType, FS_EmptySet, FS_AddElement, FS_RemoveElement

LEMMA SettledRight == (TailSettled /\ TailServes)' => TailRight'
  BY DEF TailSettled, TailRight

LEMMA InitTail == TailInit => TailInv
<1> SUFFICES ASSUME TailInit PROVE TailInv
  OBVIOUS
<1> USE TailAssumption DEF TailInit
<1>1. TailTypeOK
  <2>1. 0 \in 0..MaxDials
    OBVIOUS
  <2>2. QED
    BY <2>1 DEF TailTypeOK
<1>2. Dialled = {} /\ Watching = {} /\ RunningTails = {}
  BY DEF Dialled, Watching, RunningTails
<1>3. QED
  BY <1>1, <1>2, FS_EmptySet DEF TailInv, TailRight, TailServes

(***************************************************************************)
(* The gateway: a socket that is looked up is in dials and not yet in the  *)
(* count.                                                                  *)
(***************************************************************************)
LEMMA HandleConnectionStep ==
  ASSUME TailInv, NEW w \in Watchers, HandleConnection(w)
  PROVE  TailInv'
<1> USE TailAssumption DEF TailInv
<1>1. /\ visit[w] = "away" /\ dials < MaxDials /\ dials' = dials + 1
      /\ visit' = [visit EXCEPT ![w] = "checking"]
      /\ UNCHANGED <<connectedClients, tailProcess, tail, miscounted>>
  BY DEF HandleConnection
<1>2. TailTypeOK'
  BY <1>1 DEF TailTypeOK
<1>3. Dialled' = Dialled \cup {w} /\ w \notin Dialled /\ Watching' = Watching
  BY <1>1 DEF Dialled, Watching, TailTypeOK
<1>4. Cardinality(Dialled') = Cardinality(Dialled) + 1 /\ Cardinality(Dialled) \in Nat
  BY <1>3, WatchersCounted DEF Dialled
<1>5. connectedClients' + Cardinality(Dialled') <= dials'
  BY <1>1, <1>4 DEF TailTypeOK
<1>6. ~miscounted' => TailRight'
  BY <1>1, <1>3 DEF TailRight, TailServes, RunningTails
<1>7. QED
  BY <1>2, <1>5, <1>6

LEMMA JoinLogsStep ==
  ASSUME TailInv, NEW w \in Watchers, JoinLogs(w)
  PROVE  TailInv'
<1> USE TailAssumption DEF TailInv
<1> DEFINE harm == visit[w] = "left" \/ (connectedClients' = 1 /\ \E t \in Tails : tail[t] = "ending")
<1>1. /\ visit[w] \in {"checking", "left"}
      /\ visit' = [visit EXCEPT ![w] = IF visit[w] = "left" THEN "away" ELSE "watching"]
      /\ connectedClients' = connectedClients + 1
      /\ IF connectedClients' = 1 THEN StartTailing ELSE UNCHANGED <<tailProcess, tail>>
      /\ UNCHANGED dials /\ Miscount(harm)
  BY DEF JoinLogs
<1>2. Dialled' = Dialled \ {w} /\ w \in Dialled
  BY <1>1 DEF Dialled, TailTypeOK
<1>3. Cardinality(Dialled') = Cardinality(Dialled) - 1 /\ Cardinality(Dialled') \in Nat
        /\ Cardinality(Dialled) \in Nat
  BY <1>2, WatchersCounted DEF Dialled
<1>4. connectedClients' + Cardinality(Dialled') <= dials'
  BY <1>1, <1>3 DEF TailTypeOK
<1>5. TailTypeOK'
  <2>1. connectedClients' \in 0..MaxDials
    BY <1>1, <1>3, <1>4 DEF TailTypeOK
  <2>2. visit' \in [Watchers -> {"away", "checking", "left", "watching"}]
    BY <1>1 DEF TailTypeOK
  <2>3. tailProcess' \in Tails \cup {None} /\ tail' \in [Tails -> {"none", "running", "ending"}]
    BY <1>1 DEF TailTypeOK, StartTailing
  <2>4. QED
    BY <1>1, <2>1, <2>2, <2>3 DEF TailTypeOK, Miscount
<1>6. ~miscounted' => TailRight'
  <2>1. CASE (TailSettled /\ TailServes)'
    BY <2>1, SettledRight
  <2>2. CASE ~(TailSettled /\ TailServes)'
    <3>1. SUFFICES ASSUME ~miscounted' PROVE TailRight'
      OBVIOUS
    <3>2. ~miscounted /\ ~harm /\ TailRight
      BY <1>1, <2>2, <3>1 DEF Miscount
    <3>3. Watching' = Watching \cup {w} /\ w \notin Watching
      BY <1>1, <3>2 DEF Watching, TailTypeOK
    <3>4. connectedClients' = Cardinality(Watching') /\ (connectedClients = 0 <=> Watching = {})
      BY <1>1, <3>2, <3>3, WatchersCounted DEF TailRight, TailServes, Watching
    <3>5. CASE connectedClients = 0
      <4>1. \A t \in Tails : tail[t] # "ending" /\ tail[t] # "running"
        BY <1>1, <3>2, <3>4, <3>5 DEF TailRight, TailServes, RunningTails
      <4>2. PICK t \in Tails : tail' = [tail EXCEPT ![t] = "running"] /\ tailProcess' = t
        BY <1>1, <3>5 DEF StartTailing
      <4>3. RunningTails' = {tailProcess'} /\ \A u \in Tails : tail'[u] # "ending"
        BY <4>1, <4>2 DEF RunningTails, TailTypeOK
      <4>4. QED
        BY <3>3, <3>4, <4>3 DEF TailRight, TailServes
    <3>6. CASE connectedClients # 0
      <4>1. UNCHANGED <<tailProcess, tail>> /\ Watching # {}
        BY <1>1, <3>4, <3>6 DEF TailTypeOK
      <4>2. RunningTails' = RunningTails
        BY <4>1 DEF RunningTails
      <4>3. QED
        BY <3>2, <3>3, <3>4, <4>1, <4>2 DEF TailRight, TailServes
    <3>7. QED
      BY <3>5, <3>6
  <2>3. QED
    BY <2>1, <2>2
<1>7. QED
  BY <1>4, <1>5, <1>6

\* Counting out: harmless when it was the count of a socket in the room, or there was none.
LEMMA CountOutStep ==
  ASSUME TailInv, NEW w \in Watchers, NEW v \in {"away", "left"}, CountOut, UNCHANGED dials,
         visit' = [visit EXCEPT ![w] = v], visit[w] \in {"checking", "watching"},
         v = "left" => visit[w] = "checking",
         Miscount(visit[w] = "checking" /\ connectedClients > 0)
  PROVE  TailInv'
<1> USE TailAssumption DEF TailInv
<1>1. /\ connectedClients' = IF connectedClients = 0 THEN 0 ELSE connectedClients - 1
      /\ IF connectedClients' = 0 THEN StopTailing ELSE UNCHANGED <<tailProcess, tail>>
  BY DEF CountOut
<1>2. connectedClients' \in Nat /\ connectedClients' <= connectedClients
  BY <1>1 DEF TailTypeOK
<1>3. Dialled' = Dialled \/ (Dialled' = Dialled \ {w} /\ w \in Dialled)
  BY DEF Dialled, TailTypeOK
<1>4. Cardinality(Dialled') \in Nat /\ Cardinality(Dialled) \in Nat
        /\ Cardinality(Dialled') <= Cardinality(Dialled)
  BY <1>3, WatchersCounted DEF Dialled
<1>5. connectedClients' + Cardinality(Dialled') <= dials'
  BY <1>2, <1>4 DEF TailTypeOK
<1>6. TailTypeOK'
  <2>1. connectedClients' \in 0..MaxDials
    BY <1>2 DEF TailTypeOK
  <2>2. tailProcess' \in Tails \cup {None} /\ tail' \in [Tails -> {"none", "running", "ending"}]
    BY <1>1 DEF TailTypeOK, StopTailing
  <2>3. QED
    BY <2>1, <2>2 DEF TailTypeOK, Miscount
<1>7. ~miscounted' => TailRight'
  <2>1. CASE (TailSettled /\ TailServes)'
    BY <2>1, SettledRight
  <2>2. CASE ~(TailSettled /\ TailServes)'
    <3>1. SUFFICES ASSUME ~miscounted' PROVE TailRight'
      OBVIOUS
    <3>2. ~miscounted /\ ~(visit[w] = "checking" /\ connectedClients > 0) /\ TailRight
      BY <2>2, <3>1 DEF Miscount
    <3>3. Watching' = Watching \ {w} /\ (visit[w] = "watching" <=> w \in Watching)
      BY DEF Watching, TailTypeOK
    <3>4. connectedClients = Cardinality(Watching) /\ (w \notin Watching => Watching = {})
      BY <3>2, <3>3, WatchersCounted DEF TailRight, TailServes, TailTypeOK, Watching
    <3>5. connectedClients' = Cardinality(Watching')
      BY <1>1, <3>3, <3>4, WatchersCounted DEF Watching
    <3>6. CASE connectedClients' = 0
      <4>1. Watching' = {}
        BY <3>3, <3>5, <3>6, WatchersCounted DEF Watching
      <4>2. RunningTails \subseteq {tailProcess}
        BY <3>2 DEF TailRight, TailServes
      <4>3. RunningTails' = {}
        BY <1>1, <3>6, <4>2 DEF RunningTails, StopTailing, TailTypeOK
      <4>4. QED
        BY <3>5, <4>1, <4>3 DEF TailRight, TailServes
    <3>7. CASE connectedClients' # 0
      <4>1. UNCHANGED <<tailProcess, tail>> /\ Watching' # {} /\ Watching # {}
        BY <1>1, <3>3, <3>5, <3>7, WatchersCounted DEF Watching
      <4>2. RunningTails' = RunningTails
        BY <4>1 DEF RunningTails
      <4>3. QED
        BY <3>2, <3>5, <4>1, <4>2 DEF TailRight, TailServes
    <3>8. QED
      BY <3>6, <3>7
  <2>3. QED
    BY <2>1, <2>2
<1>8. QED
  BY <1>5, <1>6, <1>7

LEMMA RefuseStep ==
  ASSUME TailInv, NEW w \in Watchers, Refuse(w)
  PROVE  TailInv'
<1>1. CASE visit[w] = "checking"
  BY <1>1, CountOutStep DEF Refuse
<1>2. CASE visit[w] = "left"
  <2>1. /\ visit' = [visit EXCEPT ![w] = "away"]
        /\ UNCHANGED <<connectedClients, tailProcess, tail, dials>> /\ Miscount(FALSE)
    BY <1>2 DEF Refuse
  <2>2. TailTypeOK'
    BY <2>1 DEF TailInv, TailTypeOK, Miscount
  <2>3. Dialled' = Dialled \ {w} /\ w \in Dialled /\ Watching' = Watching /\ RunningTails' = RunningTails
    BY <1>2, <2>1 DEF Dialled, Watching, RunningTails, TailInv, TailTypeOK
  <2>4. Cardinality(Dialled') = Cardinality(Dialled) - 1 /\ Cardinality(Dialled) \in Nat
    BY <2>3, WatchersCounted DEF Dialled
  <2>5. connectedClients' + Cardinality(Dialled') <= dials'
    BY <2>1, <2>4 DEF TailInv, TailTypeOK
  <2>6. ~miscounted' => TailRight'
    <3>1. TailRight => TailRight'
      BY <2>1, <2>3 DEF TailRight, TailServes
    <3>2. QED
      BY <2>1, <3>1, SettledRight DEF TailInv, Miscount
  <2>7. QED
    BY <2>2, <2>5, <2>6 DEF TailInv
<1>3. QED
  BY <1>1, <1>2 DEF Refuse

LEMMA HandleDisconnectStep ==
  ASSUME TailInv, NEW w \in Watchers, HandleDisconnect(w)
  PROVE  TailInv'
<1> DEFINE v == IF visit[w] = "checking" THEN "left" ELSE "away"
<1>1. visit' = [visit EXCEPT ![w] = v] /\ v \in {"away", "left"} /\ (v = "left" => visit[w] = "checking")
  BY DEF HandleDisconnect
<1>2. QED
  BY <1>1, CountOutStep DEF HandleDisconnect

(***************************************************************************)
(* The children.                                                           *)
(***************************************************************************)
LEMMA TailDiesStep ==
  ASSUME TailInv, NEW t \in Tails, TailDies(t) \/ TailCloses(t)
  PROVE  TailInv'
<1> USE TailAssumption DEF TailInv
<1>1. /\ UNCHANGED <<visit, connectedClients, dials>>
      /\ \/ TailDies(t) /\ tail' = [tail EXCEPT ![t] = "ending"] /\ Miscount(TRUE)
         \/ /\ tail[t] = "ending" /\ tail' = [tail EXCEPT ![t] = "none"] /\ tailProcess' = None
            /\ Miscount(FALSE)
  BY DEF TailDies, TailCloses
<1>2. TailTypeOK'
  BY DEF TailDies, TailCloses, TailTypeOK, Miscount
<1>3. Dialled' = Dialled /\ Watching' = Watching
  BY <1>1 DEF Dialled, Watching
<1>4. ~miscounted' => TailRight'
  <2>1. CASE (TailSettled /\ TailServes)'
    BY <2>1, SettledRight
  <2>2. CASE ~(TailSettled /\ TailServes)'
    <3>1. SUFFICES ASSUME ~miscounted' PROVE TailRight'
      OBVIOUS
    <3>2. ~miscounted /\ TailRight /\ tail[t] = "ending" /\ tail' = [tail EXCEPT ![t] = "none"]
      BY <1>1, <2>2, <3>1 DEF Miscount
    <3>3. Watching = {} /\ RunningTails = {}
      BY <3>2 DEF TailRight, TailServes
    <3>4. RunningTails' = {}
      BY <3>2, <3>3 DEF RunningTails, TailTypeOK
    <3>5. QED
      BY <1>1, <1>3, <3>2, <3>3, <3>4 DEF TailRight, TailServes
  <2>3. QED
    BY <2>1, <2>2
<1>5. QED
  BY <1>1, <1>2, <1>3, <1>4

LEMMA TailStep == TailInv /\ [TailNext]_tailVars => TailInv'
<1>1. ASSUME TailInv, UNCHANGED tailVars PROVE TailInv'
  BY <1>1 DEF TailInv, TailTypeOK, Dialled, TailRight, TailServes, Watching, RunningTails, tailVars
<1>2. QED
  BY <1>1, HandleConnectionStep, JoinLogsStep, RefuseStep, HandleDisconnectStep, TailDiesStep DEF TailNext

\* While nothing was miscounted, count and child are right even while sessions are looked up.
\* (SrsLogGateway.handleConnection and handleDisconnect, srs-log.gateway.ts:33, :64)
THEOREM TailInvHolds == TailSpec => []TailInv
  BY InitTail, TailStep, PTL DEF TailSpec

\* One child runs exactly while somebody watches, but for the miscounts the property names.
\* (SrsLogGateway.handleDisconnect, srs-log.gateway.ts:65)
THEOREM LogTailServesHolds == TailSpec => []LogTailServes
<1>1. TailInv => LogTailServes
  BY DEF TailInv, TailRight, LogTailServes
<1>2. QED
  BY <1>1, TailInvHolds, PTL
=============================================================================
