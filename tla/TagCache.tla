------------------------------ MODULE TagCache ------------------------------
(***************************************************************************)
(* Tags of the cameras of one organisation: bulkTagAction, which reads all *)
(* cameras, writes them one by one and then clears the cache, and          *)
(* TagCacheService, the cache of the distinct tags in Redis and in the     *)
(* memory of the process.  An answer is known by the number of edits       *)
(* there had been when it was computed.                                    *)
(***************************************************************************)
EXTENDS Naturals, FiniteSets, Optional

CONSTANTS
  Tagged,      \* cameras
  Tags,        \* tags, no two of them the same in lower case
  Editors,     \* bulk actions at the same time
  Readers,     \* requests for the distinct tags at the same time
  TagMax,      \* TAG_MAX_PER_CAMERA
  MaxEdits,    \* bound: edits of a camera's tags
  MaxOutages   \* bound: failed calls of Redis

ASSUME TagAssumption ==
  /\ TagMax \in Nat \ {0} /\ {MaxEdits, MaxOutages} \subseteq Nat
  /\ IsFiniteSet(Tags) /\ None \notin 0..MaxEdits

VARIABLES
  tags,           \* Camera rows: their tags
  edits,          \* history: edits so far
  redis, memory,  \* the cached answer: edits it has seen; None: none, or expired
  editor,         \* bulkTagAction: place, action, tag, tags as read, cameras left
  reader,         \* getOrCompute: place, edits its answer has seen
  outages,
  settled,        \* history: edits the last bulk action to end well had made or seen
  cachedLate,     \* history: since then, an older answer may have been cached
  done,           \* history: what was last done to a tag of a camera by bulk action
  crossed         \* history: cameras written while another action had read them

tagVars == <<tags, edits, redis, memory, editor, reader, outages, settled, cachedLate, done, crossed>>
tagRows == <<tags, edits, done, crossed>>
tagPast == <<settled, cachedLate>>

Unread == [m \in Tagged |-> {}]
NoEditor == [at |-> "idle", action |-> "add", tag |-> None, read |-> Unread, left |-> {}]
Outage == outages < MaxOutages /\ outages' = outages + 1

TagInit ==
  /\ tags = [m \in Tagged |-> {}] /\ edits = 0
  /\ redis = None /\ memory = None
  /\ editor = [e \in Editors |-> NoEditor]
  /\ reader = [r \in Readers |-> [at |-> "idle", seen |-> None]]
  /\ outages = 0 /\ settled = 0 /\ cachedLate = FALSE
  /\ done = [m \in Tagged |-> [t \in Tags |-> "nothing"]] /\ crossed = {}

(***************************************************************************)
(* bulkTagAction.                                                          *)
(***************************************************************************)
Edit(e, k) == editor' = [editor EXCEPT ![e] = k]

After(k, m) == IF k.action = "add" THEN k.read[m] \cup {k.tag} ELSE k.read[m] \ {k.tag}

\* All cameras are read; those that are as done are passed over, and when all
\* are, the cache is not cleared.
EditRead(e) ==
  /\ editor[e].at = "idle"
  /\ \E action \in {"add", "remove"}, t \in Tags, ids \in SUBSET Tagged :
       LET left == {m \in ids : t \in tags[m] <=> action = "remove"} IN
       /\ left # {}
       /\ Edit(e, [at |-> "loop", action |-> action, tag |-> t, left |-> left,
                   read |-> [m \in Tagged |-> IF m \in left THEN tags[m] ELSE {}]])
  /\ UNCHANGED <<redis, memory, reader, outages>> /\ UNCHANGED tagRows /\ UNCHANGED tagPast

\* One camera's update.  Too many tags end the action with an exception, before
\* the cache is cleared.
EditCamera(e) ==
  LET k == editor[e] IN
  /\ k.at = "loop"
  /\ \E m \in k.left :
       LET after == After(k, m) IN
       IF Cardinality(after) > TagMax THEN Edit(e, NoEditor) /\ UNCHANGED tagRows
       ELSE /\ edits < MaxEdits /\ edits' = edits + 1
            /\ tags' = [tags EXCEPT ![m] = after]
            /\ done' = [done EXCEPT ![m][k.tag] = k.action]
            /\ crossed' = IF \E f \in Editors \ {e} : m \in editor[f].left
                          THEN crossed \cup {m} ELSE crossed
            /\ Edit(e, IF k.left = {m} THEN [NoEditor EXCEPT !.at = "del"]
                       ELSE [k EXCEPT !.left = @ \ {m}, !.read[m] = {}])
  /\ UNCHANGED <<redis, memory, reader, outages>> /\ UNCHANGED tagPast

\* invalidate: Redis, then the memory, whatever Redis said.
Older(seen) == seen # None /\ seen < edits

\* Mutant of Forgotten: the memory is kept.
ForgottenNot == memory
Forgotten == None

Invalidate(e) ==
  /\ editor[e].at = "del"
  /\ \/ redis' = None /\ UNCHANGED outages
     \/ Outage /\ UNCHANGED redis
  /\ memory' = Forgotten
  /\ settled' = edits
  /\ cachedLate' = (outages' # outages \/ \E r \in Readers : Older(reader[r].seen))
  /\ Edit(e, NoEditor)
  /\ UNCHANGED reader /\ UNCHANGED tagRows

(***************************************************************************)
(* getOrCompute.                                                           *)
(***************************************************************************)
Read(r, place, seen) == reader' = [reader EXCEPT ![r] = [at |-> place, seen |-> seen]]

\* redis.get, and when there is nothing or it fails, the memory.
Lookup(r) ==
  /\ reader[r].at = "idle"
  /\ \/ redis # None /\ Read(r, "answer", redis) /\ UNCHANGED outages
     \/ /\ redis = None /\ UNCHANGED outages
        /\ Read(r, IF memory # None THEN "answer" ELSE "compute", memory)
     \/ Outage /\ Read(r, IF memory # None THEN "answer" ELSE "compute", memory)
  /\ UNCHANGED <<redis, memory, editor>> /\ UNCHANGED tagRows /\ UNCHANGED tagPast

Compute(r) ==
  /\ reader[r].at = "compute" /\ Read(r, "setex", edits)
  /\ UNCHANGED <<redis, memory, editor, outages>> /\ UNCHANGED tagRows /\ UNCHANGED tagPast

\* setex, and the memory after it.
Fill(r) ==
  /\ reader[r].at = "setex"
  /\ \/ redis' = reader[r].seen /\ UNCHANGED outages
     \/ Outage /\ UNCHANGED redis
  /\ memory' = reader[r].seen
  /\ Read(r, "answer", reader[r].seen)
  /\ UNCHANGED editor /\ UNCHANGED tagRows /\ UNCHANGED tagPast

Answer(r) ==
  /\ reader[r].at = "answer" /\ Read(r, "idle", None)
  /\ UNCHANGED <<redis, memory, editor, outages>> /\ UNCHANGED tagRows /\ UNCHANGED tagPast

\* The TTL: either copy goes when it will.
EntryExpires ==
  /\ \/ redis # None /\ redis' = None /\ UNCHANGED memory
     \/ memory # None /\ memory' = None /\ UNCHANGED redis
  /\ UNCHANGED <<editor, reader, outages>> /\ UNCHANGED tagRows /\ UNCHANGED tagPast

TagNext ==
  \/ \E e \in Editors : EditRead(e) \/ EditCamera(e) \/ Invalidate(e)
  \/ \E r \in Readers : Lookup(r) \/ Compute(r) \/ Fill(r) \/ Answer(r)
  \/ EntryExpires

TagSpec == TagInit /\ [][TagNext]_tagVars

(***************************************************************************)
(* Properties.                                                             *)
(***************************************************************************)
TagTypeOK ==
  /\ tags \in [Tagged -> SUBSET Tags] /\ edits \in 0..MaxEdits
  /\ {redis, memory} \subseteq 0..MaxEdits \cup {None}
  /\ editor \in [Editors -> [at : {"idle", "loop", "del"}, action : {"add", "remove"},
                             tag : Tags \cup {None}, read : [Tagged -> SUBSET Tags],
                             left : SUBSET Tagged]]
  /\ reader \in [Readers -> [at : {"idle", "compute", "setex", "answer"}, seen : 0..MaxEdits \cup {None}]]
  /\ outages \in 0..MaxOutages /\ settled \in 0..MaxEdits /\ cachedLate \in BOOLEAN
  /\ done \in [Tagged -> [Tags -> {"nothing", "add", "remove"}]] /\ crossed \subseteq Tagged

\* After a bulk action has cleared the cache, nobody is given an answer older
\* than the action, unless a request that had looked before was still to fill
\* the cache or Redis could not be cleared.  (TagCacheService.invalidate,
\* tag-cache.service.ts:79)
StaleOnlyWhenExcused ==
  ~cachedLate => \A r \in Readers : reader[r].at = "answer" => reader[r].seen >= settled

\* What a bulk action did to a camera stays, unless another action had read
\* that camera's tags before and wrote them back.  (cameras.service.ts:497)
TagLostOnlyWhenCrossed ==
  \A m \in Tagged \ crossed, t \in Tags :
    /\ done[m][t] = "add" => t \in tags[m]
    /\ done[m][t] = "remove" => t \notin tags[m]

\* What bulk actions did to tags stays, and what is answered about tags is not older than
\* the last of them, but for these excuses.  (tag-cache.service.ts:79,
\* cameras.service.ts:497)
TagsSound == StaleOnlyWhenExcused /\ TagLostOnlyWhenCrossed
=============================================================================
