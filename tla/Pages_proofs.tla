---------------------------- MODULE Pages_proofs ----------------------------
(***************************************************************************)
(* Proofs about pages of the web application and what they show of the     *)
(* server: the table of cameras (CameraRows), the panel of projects and    *)
(* sites (ProjectsPanel) and the import dialog (ImportDialog), for any     *)
(* rows, requests, files and bounds.                                       *)
(***************************************************************************)
EXTENDS CameraRows, ProjectsPanel, ImportDialog, SequenceTheorems, TLAPS

LOCAL INSTANCE SequencesExt

(***************************************************************************)
(* CameraRows. A transition is told of, broadcast, and patched into the    *)
(* row, in an order of its own; and a load of the whole table may have     *)
(* been read before any of it. So the invariant follows each transition    *)
(* along the way: the last one of a camera that is told of, or on the      *)
(* wire, and that no later one has overtaken, says what the status is; and *)
(* where none is, the list on the page, or the answer on its way, agrees   *)
(* with the server.                                                        *)
(***************************************************************************)

\* A transition that is told of, and those of a camera that no later one has overtaken.
Entry == [id : PageCameras, status : {"online", "offline"}, late : BOOLEAN]
Fresh(q, c) == {k \in DOMAIN q : q[k].id = c /\ ~q[k].late}

\* What a broadcast transition has overtaken includes all before it.
OrderedLate(q) == \A j, k \in DOMAIN q : j < k /\ q[j].id = q[k].id /\ q[k].late => q[j].late

\* The last of them says what the camera's status is.
LastSays(q, c, s) == \A k \in Fresh(q, c) : (\A j \in Fresh(q, c) : j <= k) => q[k].status = s

\* Nothing that counts is on its way for a camera.
NothingFresh(c) == Fresh(telling, c) = {} /\ Fresh(events, c) = {}

\* A list tells whether there is such a camera, and how it is once all has arrived.
RowAgrees(list, c) ==
  /\ list[c] = "none" <=> ListAnswer[c] = "none"
  /\ NothingFresh(c) => list[c] = ListAnswer[c]

FetchRecord == [at : {"idle", "sent", "read"}, list : [PageCameras -> RowStatus], since : SUBSET PageCameras]

RowsTyped ==
  /\ camera \in [PageCameras -> RowStatus \cup {"gone"}] /\ table \in [PageCameras -> RowStatus]
  /\ telling \in Seq(Entry) /\ events \in Seq(Entry) /\ behind \subseteq PageCameras
  /\ fetch \in [Fetches -> FetchRecord]

\* Only a camera that was there is told of.
ToldExist ==
  /\ \A k \in DOMAIN telling : camera[telling[k].id] # "none"
  /\ \A k \in DOMAIN events : camera[events[k].id] # "none"

\* Nothing is on its way to a page whose socket is not in the room.
RoomHears == ~room => events = <<>>

\* The last transition that counts is the status of the camera.
TellingTrue == \A c \in PageCameras : camera[c] # "gone" => LastSays(telling, c, camera[c])
EventsTrue ==
  \A c \in PageCameras : camera[c] # "gone" /\ Fresh(telling, c) = {} => LastSays(events, c, camera[c])

\* The page agrees about every camera that is not behind, and so does a load about those
\* that have not been told of since it was read.
TableTrue == \A c \in PageCameras \ behind : RowAgrees(table, c)
LoadsTrue ==
  \A f \in Fetches : fetch[f].at = "read" => \A c \in PageCameras \ fetch[f].since : RowAgrees(fetch[f].list, c)

RowsInv ==
  /\ RowsTyped /\ ToldExist /\ OrderedLate(telling) /\ RoomHears
  /\ TellingTrue /\ EventsTrue /\ TableTrue /\ LoadsTrue

-----------------------------------------------------------------------------
LEMMA RemoveAtSeq ==
  ASSUME NEW S, NEW q \in Seq(S), NEW k \in 1..Len(q)
  PROVE  /\ RemoveAt(q, k) \in Seq(S) /\ Len(RemoveAt(q, k)) = Len(q) - 1
         /\ \A j \in 1..(Len(q) - 1) : RemoveAt(q, k)[j] = q[IF j < k THEN j ELSE j + 1]
<1> DEFINE a == SubSeq(q, 1, k - 1)
           b == SubSeq(q, k + 1, Len(q))
           n == Len(q)
<1>1. n \in Nat /\ k - 1 \in Int /\ k + 1 \in Int /\ \A i \in 1..n : q[i] \in S
  OBVIOUS
<1>2. a \in Seq(S) /\ Len(a) = (k - 1) /\ \A i \in 1..(k - 1) : a[i] = q[i]
  <2>1. \A i \in 1..(k - 1) : q[i] \in S
    BY <1>1
  <2>2. /\ a \in Seq(S) /\ Len(a) = IF 1 <= k - 1 THEN k - 1 - 1 + 1 ELSE 0
        /\ \A i \in 1..(k - 1 - 1 + 1) : a[i] = q[1 + i - 1]
    BY <1>1, <2>1, SubSeqProperties
  <2> HIDE DEF a
  <2> QED
    BY <1>1, <2>2
<1>3. b \in Seq(S) /\ Len(b) = n - k /\ \A i \in 1..(n - k) : b[i] = q[k + i]
  <2>1. \A i \in (k + 1)..n : q[i] \in S
    BY <1>1
  <2>2. /\ b \in Seq(S) /\ Len(b) = IF k + 1 <= n THEN n - (k + 1) + 1 ELSE 0
        /\ \A i \in 1..(n - (k + 1) + 1) : b[i] = q[k + 1 + i - 1]
    BY <1>1, <2>1, SubSeqProperties
  <2> HIDE DEF b
  <2> QED
    BY <1>1, <2>2
<1>4. RemoveAt(q, k) = a \o b
  BY DEF RemoveAt
<1> HIDE DEF a, b
<1>5. /\ a \o b \in Seq(S) /\ Len(a \o b) = Len(a) + Len(b)
      /\ \A i \in 1..(Len(a) + Len(b)) : (a \o b)[i] = IF i <= Len(a) THEN a[i] ELSE b[i - Len(a)]
  BY <1>2, <1>3, ConcatProperties
<1>6. Len(a) + Len(b) = n - 1
  BY <1>1, <1>2, <1>3
<1>7. ASSUME NEW j \in 1..(n - 1) PROVE (a \o b)[j] = q[IF j < k THEN j ELSE j + 1]
  <2>1. CASE j < k
    BY <1>1, <1>2, <1>5, <1>6, <1>7, <2>1
  <2>2. CASE ~(j < k)
    <3>1. (a \o b)[j] = b[j - (k - 1)] /\ j - (k - 1) \in 1..(n - k)
      BY <1>1, <1>2, <1>5, <1>6, <1>7, <2>2
    <3>2. k + (j - (k - 1)) = j + 1
      BY <1>1, <1>7
    <3> QED
      BY <1>3, <2>2, <3>1, <3>2
  <2> QED
    BY <2>1, <2>2
<1> QED
  BY <1>4, <1>5, <1>6, <1>7

\* A transition that counts is the last of its camera; other cameras do not notice.
LEMMA FreshAppend ==
  ASSUME NEW q \in Seq(Entry), NEW e \in Entry, NEW c
  PROVE  /\ Append(q, e) \in Seq(Entry)
         /\ \A k \in DOMAIN Append(q, e) : Append(q, e)[k] = e \/ \E i \in DOMAIN q : Append(q, e)[k] = q[i]
         /\ ~e.late /\ OrderedLate(q) => OrderedLate(Append(q, e))
         /\ e.id # c \/ e.late => /\ Fresh(Append(q, e), c) = Fresh(q, c)
                                  /\ \A s : LastSays(q, c, s) => LastSays(Append(q, e), c, s)
         /\ ~e.late => /\ Fresh(Append(q, e), e.id) # {}
                       /\ LastSays(Append(q, e), e.id, e.status)
<1> DEFINE r == Append(q, e)
           n == Len(q)
<1>1. /\ n \in Nat /\ r \in Seq(Entry) /\ DOMAIN q = 1..n /\ DOMAIN r = 1..(n + 1)
      /\ \A j \in 1..n : r[j] = q[j]
      /\ r[n + 1] = e
  OBVIOUS
<1> HIDE DEF r, n
<1>2. ASSUME e.id # c \/ e.late
      PROVE  Fresh(r, c) = Fresh(q, c) /\ \A s : LastSays(q, c, s) => LastSays(r, c, s)
  <2>1. Fresh(r, c) = Fresh(q, c)
    <3>1. \A k \in Fresh(r, c) : k \in Fresh(q, c)
      <4> SUFFICES ASSUME NEW k \in 1..(n + 1), r[k].id = c, ~r[k].late PROVE k \in Fresh(q, c)
        BY <1>1 DEF Fresh
      <4>1. k # n + 1
        BY <1>1, <1>2
      <4>2. k \in 1..n
        BY <1>1, <4>1
      <4> QED
        BY <1>1, <4>2 DEF Fresh
    <3>2. \A k \in Fresh(q, c) : k \in Fresh(r, c)
      BY <1>1 DEF Fresh
    <3> QED
      BY <3>1, <3>2
  <2>2. \A k \in Fresh(q, c) : r[k] = q[k]
    BY <1>1 DEF Fresh
  <2> QED
    BY <2>1, <2>2 DEF LastSays
<1>3. ASSUME ~e.late PROVE Fresh(r, e.id) # {} /\ LastSays(r, e.id, e.status)
  <2>1. n + 1 \in Fresh(r, e.id)
    BY <1>1, <1>3 DEF Fresh
  <2>2. ASSUME NEW k \in Fresh(r, e.id), \A j \in Fresh(r, e.id) : j <= k PROVE r[k].status = e.status
    <3>1. n + 1 <= k /\ k \in 1..(n + 1)
      BY <1>1, <2>1, <2>2 DEF Fresh
    <3>2. k = n + 1
      BY <1>1, <3>1
    <3> QED
      BY <1>1, <3>2
  <2> QED
    BY <2>1, <2>2 DEF LastSays
<1>4. \A k \in 1..(n + 1) : k = n + 1 \/ k \in 1..n
  BY <1>1
<1>5. \A k \in DOMAIN r : r[k] = e \/ \E i \in DOMAIN q : r[k] = q[i]
  BY <1>1, <1>4
<1>6. ASSUME ~e.late, OrderedLate(q) PROVE OrderedLate(r)
  <2> SUFFICES ASSUME NEW j \in 1..(n + 1), NEW k \in 1..(n + 1), j < k, r[j].id = r[k].id, r[k].late
               PROVE  r[j].late
    BY <1>1 DEF OrderedLate
  <2>1. k \in 1..n /\ j \in 1..n
    BY <1>1, <1>6
  <2> QED
    BY <1>1, <1>6, <2>1 DEF OrderedLate
<1> QED
  BY <1>1, <1>2, <1>3, <1>5, <1>6 DEF r

\* The first transition is taken off.
LEMMA FreshTail ==
  ASSUME NEW q \in Seq(Entry), q # <<>>, NEW c
  PROVE  /\ Tail(q) \in Seq(Entry) /\ Head(q) \in Entry
         /\ \A k \in DOMAIN Tail(q) : k + 1 \in DOMAIN q /\ Tail(q)[k] = q[k + 1]
         /\ \A s : LastSays(q, c, s) => LastSays(Tail(q), c, s)
         /\ Head(q).id # c \/ Head(q).late => (Fresh(q, c) = {} <=> Fresh(Tail(q), c) = {})
         /\ Head(q).id = c /\ ~Head(q).late /\ Fresh(Tail(q), c) = {} =>
              \A s : LastSays(q, c, s) => Head(q).status = s
<1> DEFINE r == Tail(q)
           n == Len(q)
<1>1. n \in Nat \ {0} /\ q[1] \in Entry /\ DOMAIN q = 1..n
  OBVIOUS
<1>2. /\ r \in Seq(Entry) /\ Head(q) = q[1] /\ DOMAIN r = 1..(n - 1)
      /\ \A j \in 1..(n - 1) : r[j] = q[j + 1]
  OBVIOUS
<1> HIDE DEF r, n
<1>3. \A k \in 1..(n - 1) : k \in Fresh(r, c) <=> k + 1 \in Fresh(q, c)
  BY <1>1, <1>2 DEF Fresh
<1>4. Fresh(r, c) \subseteq 1..(n - 1) /\ Fresh(q, c) \subseteq 1..n
  BY <1>1, <1>2 DEF Fresh
<1>5. ASSUME NEW s, LastSays(q, c, s) PROVE LastSays(r, c, s)
  <2> SUFFICES ASSUME NEW k \in Fresh(r, c), \A j \in Fresh(r, c) : j <= k PROVE r[k].status = s
    BY DEF LastSays
  <2>1. k + 1 \in Fresh(q, c) /\ k \in 1..(n - 1) /\ r[k] = q[k + 1]
    BY <1>2, <1>3, <1>4
  <2>2. ASSUME NEW j \in Fresh(q, c) PROVE j <= k + 1
    <3>1. CASE j = 1
      BY <1>1, <2>1, <3>1
    <3>2. CASE j # 1
      <4>1. j \in 1..n
        BY <1>4
      <4>2. j - 1 \in 1..(n - 1) /\ (j - 1) + 1 = j
        BY <1>1, <3>2, <4>1
      <4>3. j - 1 \in Fresh(r, c)
        BY <1>3, <4>2
      <4>4. j - 1 <= k
        BY <4>3, <2>1
      <4> QED
        BY <2>1, <4>1, <4>4
    <3> QED
      BY <3>1, <3>2
  <2> QED
    BY <1>5, <2>1, <2>2 DEF LastSays
<1>6. ASSUME Fresh(r, c) = {}, NEW k \in Fresh(q, c) PROVE k = 1
  <2> SUFFICES ASSUME k # 1 PROVE FALSE
    OBVIOUS
  <2>1. k - 1 \in 1..(n - 1) /\ (k - 1) + 1 = k
    BY <1>1, <1>4
  <2> QED
    BY <1>3, <1>6, <2>1
<1>7. ASSUME Head(q).id # c \/ Head(q).late PROVE Fresh(q, c) = {} <=> Fresh(r, c) = {}
  <2>1. 1 \notin Fresh(q, c)
    BY <1>2, <1>7 DEF Fresh
  <2>2. Fresh(q, c) = {} => Fresh(r, c) = {}
    BY <1>3, <1>4
  <2> QED
    BY <1>6, <2>1, <2>2
<1>8. ASSUME Head(q).id = c, ~Head(q).late, Fresh(r, c) = {}, NEW s, LastSays(q, c, s)
      PROVE  Head(q).status = s
  <2>1. 1 \in Fresh(q, c)
    BY <1>1, <1>2, <1>8 DEF Fresh
  <2>2. \A j \in Fresh(q, c) : j <= 1
    BY <1>6, <1>8
  <2> QED
    BY <1>2, <1>8, <2>1, <2>2 DEF LastSays
<1>9. \A k \in DOMAIN r : k + 1 \in DOMAIN q /\ r[k] = q[k + 1]
  BY <1>1, <1>2
<1> QED
  BY <1>1, <1>2, <1>5, <1>7, <1>8, <1>9 DEF r

\* What BroadcastStatus leaves of the transitions to tell.
Overtaken(q, k) == [j \in DOMAIN q |-> [q[j] EXCEPT !.late = @ \/ (j < k /\ q[j].id = q[k].id)]]
Before(k, j) == IF j < k THEN j ELSE j + 1

\* Entry by entry: those before the one that is gone, of its camera, count no more.
LEMMA LeftEntries ==
  ASSUME NEW q \in Seq(Entry), NEW k \in DOMAIN q
  PROVE  /\ RemoveAt(Overtaken(q, k), k) \in Seq(Entry)
         /\ Len(RemoveAt(Overtaken(q, k), k)) = Len(q) - 1
         /\ \A j \in 1..(Len(q) - 1) :
              /\ RemoveAt(Overtaken(q, k), k)[j].id = q[Before(k, j)].id
              /\ RemoveAt(Overtaken(q, k), k)[j].status = q[Before(k, j)].status
              /\ RemoveAt(Overtaken(q, k), k)[j].late
                   <=> q[Before(k, j)].late \/ (Before(k, j) < k /\ q[Before(k, j)].id = q[k].id)
<1> DEFINE o == Overtaken(q, k)
           n == Len(q)
<1>1. n \in Nat /\ DOMAIN q = 1..n /\ k \in 1..n /\ \A j \in 1..n : q[j] \in Entry
  OBVIOUS
<1>2. ASSUME NEW j \in 1..n
      PROVE  /\ o[j] \in Entry /\ o[j].id = q[j].id /\ o[j].status = q[j].status
             /\ o[j].late <=> q[j].late \/ (j < k /\ q[j].id = q[k].id)
  <2>1. o[j] = [q[j] EXCEPT !.late = @ \/ (j < k /\ q[j].id = q[k].id)] /\ q[j] \in Entry
    BY <1>1 DEF Overtaken
  <2>2. (q[j].late \/ (j < k /\ q[j].id = q[k].id)) \in BOOLEAN
    OBVIOUS
  <2> HIDE DEF o
  <2> QED
    BY <2>1, <2>2 DEF Entry
<1>3. o = [j \in 1..n |-> o[j]]
  BY <1>1 DEF Overtaken
<1> HIDE DEF o
<1>4. o \in Seq(Entry) /\ Len(o) = n
  BY <1>1, <1>2, <1>3
<1>5. /\ RemoveAt(o, k) \in Seq(Entry) /\ Len(RemoveAt(o, k)) = n - 1
      /\ \A j \in 1..(n - 1) : RemoveAt(o, k)[j] = o[IF j < k THEN j ELSE j + 1]
  BY <1>1, <1>4, RemoveAtSeq
<1>6. \A j \in 1..(n - 1) : RemoveAt(o, k)[j] = o[Before(k, j)] /\ Before(k, j) \in 1..n
  BY <1>1, <1>5 DEF Before
<1> QED
  BY <1>2, <1>5, <1>6 DEF o

LEMMA FreshLeft ==
  ASSUME NEW q \in Seq(Entry), NEW k \in DOMAIN q, OrderedLate(q), NEW r, r = RemoveAt(Overtaken(q, k), k)
  PROVE  /\ r \in Seq(Entry) /\ OrderedLate(r)
         /\ \A j \in DOMAIN r : \E i \in DOMAIN q : r[j].id = q[i].id
         /\ \A c, s : LastSays(q, c, s) => LastSays(r, c, s)
         /\ \A c : c # q[k].id \/ q[k].late => (Fresh(q, c) = {} <=> Fresh(r, c) = {})
         /\ ~q[k].late /\ Fresh(r, q[k].id) = {} => \A s : LastSays(q, q[k].id, s) => q[k].status = s
<1> DEFINE n == Len(q)
           c0 == q[k].id
<1>1. n \in Nat /\ DOMAIN q = 1..n /\ k \in 1..n
  OBVIOUS
<1>2. /\ r \in Seq(Entry) /\ DOMAIN r = 1..(n - 1)
      /\ \A j \in 1..(n - 1) : r[j].id = q[Before(k, j)].id /\ r[j].status = q[Before(k, j)].status
      /\ \A j \in 1..(n - 1) :
           r[j].late <=> (q[Before(k, j)].late \/ (Before(k, j) < k /\ q[Before(k, j)].id = c0))
  <2>1. r \in Seq(Entry) /\ Len(r) = n - 1
    BY <1>1, LeftEntries
  <2>2. \A j \in 1..(n - 1) : /\ r[j].id = q[Before(k, j)].id
                              /\ r[j].status = q[Before(k, j)].status
                              /\ r[j].late <=> q[Before(k, j)].late
                                    \/ (Before(k, j) < k /\ q[Before(k, j)].id = q[k].id)
    BY LeftEntries
  <2> HIDE DEF n
  <2> QED
    BY <1>1, <2>1, <2>2
<1> HIDE DEF n, c0
<1>3. ASSUME NEW j \in 1..(n - 1)
      PROVE  /\ Before(k, j) \in 1..n /\ Before(k, j) # k
             /\ \A i \in 1..(n - 1) : j < i <=> Before(k, j) < Before(k, i)
  BY <1>1 DEF Before
<1>4. ASSUME NEW i \in 1..n, i # k PROVE \E j \in 1..(n - 1) : Before(k, j) = i
  <2>1. CASE i < k
    <3>1. i \in 1..(n - 1) /\ Before(k, i) = i
      BY <1>1, <2>1 DEF Before
    <3> QED
      BY <3>1
  <2>2. CASE ~(i < k)
    <3>1. i - 1 \in 1..(n - 1) /\ Before(k, i - 1) = i
      BY <1>1, <1>4, <2>2 DEF Before
    <3> QED
      BY <3>1
  <2> QED
    BY <2>1, <2>2
<1>5. ASSUME NEW c, NEW j \in 1..(n - 1)
      PROVE  j \in Fresh(r, c) <=> Before(k, j) \in Fresh(q, c) /\ (c # c0 \/ k < Before(k, j))
  <2>1. Before(k, j) \in 1..n /\ Before(k, j) # k /\ (~(Before(k, j) < k) <=> k < Before(k, j))
    BY <1>1, <1>3
  <2> QED
    BY <1>1, <1>2, <2>1 DEF Fresh
<1>6. ASSUME NEW c PROVE Fresh(r, c) \subseteq 1..(n - 1) /\ Fresh(q, c) \subseteq 1..n
  BY <1>1, <1>2 DEF Fresh
<1>7. OrderedLate(r)
  <2> SUFFICES ASSUME NEW j \in 1..(n - 1), NEW i \in 1..(n - 1), j < i, r[j].id = r[i].id, r[i].late
               PROVE  r[j].late
    BY <1>2 DEF OrderedLate
  <2>1. Before(k, j) < Before(k, i) /\ Before(k, j) \in 1..n /\ Before(k, i) \in 1..n
    BY <1>3
  <2>2. CASE q[Before(k, i)].late
    BY <1>1, <1>2, <2>1, <2>2 DEF OrderedLate
  <2>3. CASE Before(k, i) < k /\ q[Before(k, i)].id = c0
    BY <1>1, <1>2, <2>1, <2>3
  <2> QED
    BY <1>2, <2>2, <2>3
<1>8. ASSUME NEW c, NEW s, LastSays(q, c, s) PROVE LastSays(r, c, s)
  <2> SUFFICES ASSUME NEW j \in Fresh(r, c), \A i \in Fresh(r, c) : i <= j PROVE r[j].status = s
    BY DEF LastSays
  <2>1. j \in 1..(n - 1) /\ Before(k, j) \in Fresh(q, c) /\ (c # c0 \/ k < Before(k, j))
          /\ Before(k, j) \in 1..n
    BY <1>3, <1>5, <1>6
  <2>2. ASSUME NEW i \in Fresh(q, c) PROVE i <= Before(k, j)
    <3>1. CASE i = k
      <4>1. c = c0
        BY <3>1 DEF Fresh, c0
      <4> QED
        BY <1>1, <2>1, <3>1, <4>1
    <3>2. CASE i # k /\ (c # c0 \/ k < i)
      <4>1. PICK m \in 1..(n - 1) : Before(k, m) = i
        BY <1>4, <1>6, <3>2
      <4>2. m \in Fresh(r, c)
        BY <1>5, <3>2, <4>1
      <4>3. ~(j < m)
        BY <2>1, <4>2
      <4>4. ~(Before(k, j) < Before(k, m))
        BY <1>3, <2>1, <4>3
      <4>5. Before(k, m) \in 1..n
        BY <1>6, <4>1
      <4> QED
        BY <1>1, <2>1, <4>1, <4>4, <4>5
    <3>3. CASE i # k /\ c = c0 /\ ~(k < i)
      BY <1>1, <1>6, <2>1, <3>3
    <3> QED
      BY <3>1, <3>2, <3>3
  <2>3. q[Before(k, j)].status = s
    BY <1>8, <2>1, <2>2 DEF LastSays
  <2> QED
    BY <1>2, <2>1, <2>3
<1>9. ASSUME NEW c, c # c0 \/ q[k].late PROVE Fresh(q, c) = {} <=> Fresh(r, c) = {}
  <2>1. k \notin Fresh(q, c)
    BY <1>9 DEF Fresh, c0
  <2>2. ASSUME NEW i \in Fresh(q, c) PROVE Fresh(r, c) # {}
    <3>1. c # c0 \/ k < i
      BY <1>1, <1>6, <1>9, <2>1 DEF Fresh, OrderedLate, c0
    <3>2. PICK m \in 1..(n - 1) : Before(k, m) = i
      BY <1>4, <1>6, <2>1
    <3> QED
      BY <1>5, <3>1, <3>2
  <2>3. ASSUME NEW j \in Fresh(r, c) PROVE Fresh(q, c) # {}
    BY <1>5, <1>6
  <2> QED
    BY <2>2, <2>3
<1>10. ASSUME ~q[k].late, Fresh(r, c0) = {}, NEW s, LastSays(q, c0, s) PROVE q[k].status = s
  <2>1. k \in Fresh(q, c0)
    BY <1>10 DEF Fresh, c0
  <2>2. ASSUME NEW i \in Fresh(q, c0) PROVE i <= k
    <3> SUFFICES ASSUME ~(i <= k) PROVE FALSE
      OBVIOUS
    <3>1. k < i /\ i # k
      BY <1>1, <1>6
    <3>2. PICK m \in 1..(n - 1) : Before(k, m) = i
      BY <1>4, <1>6, <3>1
    <3> QED
      BY <1>5, <1>10, <3>1, <3>2
  <2> QED
    BY <1>10, <2>1, <2>2 DEF LastSays
<1>11. \A j \in DOMAIN r : \E i \in DOMAIN q : r[j].id = q[i].id
  BY <1>1, <1>2, <1>3
<1> QED
  BY <1>2, <1>7, <1>8, <1>9, <1>10, <1>11 DEF c0

-----------------------------------------------------------------------------
\* A step that leaves a camera's place in the list, and its status unless it is told of.
Unmoved(c) ==
  /\ ListAnswer[c]' = "none" <=> ListAnswer[c] = "none"
  /\ NothingFresh(c)' => NothingFresh(c) /\ ListAnswer[c]' = ListAnswer[c]

LEMMA AgreesKept ==
  ASSUME NEW list, NEW c, Unmoved(c), RowAgrees(list, c) PROVE RowAgrees(list, c)'
BY DEF Unmoved, RowAgrees

LEMMA ListAnswerOf ==
  ASSUME NEW c \in PageCameras PROVE ListAnswer[c] = IF camera[c] = "gone" THEN "none" ELSE camera[c]
BY DEF ListAnswer

\* Whoever is not behind after a step was not before, and none of those the step may have
\* left behind; or is shown as it is.
LEMMA TableKept ==
  ASSUME RowsInv, NEW more \in SUBSET PageCameras, FallBehind(more),
         \A c \in PageCameras \ (behind \cup more) : RowAgrees(table, c)'
  PROVE  TableTrue' /\ behind' \subseteq PageCameras
<1>1. behind' = {c \in behind \cup more : table'[c] # ListAnswer'[c]} /\ behind \subseteq PageCameras
  BY DEF FallBehind, RowsInv, RowsTyped
<1>2. ASSUME NEW c \in PageCameras, c \notin behind' PROVE RowAgrees(table, c)'
  <2>1. CASE c \in behind \cup more
    <3>1. table'[c] = ListAnswer'[c]
      BY <1>1, <1>2, <2>1
    <3> QED
      BY <3>1 DEF RowAgrees
  <2>2. CASE c \notin behind \cup more
    BY <2>2
  <2> QED
    BY <2>1, <2>2
<1> QED
  BY <1>1, <1>2 DEF TableTrue

\* A page that shows what it showed.
LEMMA TableSame ==
  ASSUME RowsInv, NEW more \in SUBSET PageCameras, FallBehind(more), table' = table,
         \A c \in PageCameras \ more : Unmoved(c)
  PROVE  TableTrue' /\ behind' \subseteq PageCameras
<1>1. PICK t : t = table
  OBVIOUS
<1>2. ASSUME NEW c \in PageCameras \ (behind \cup more) PROVE RowAgrees(table, c)'
  <2>1. RowAgrees(t, c)
    BY <1>1, <1>2 DEF RowsInv, TableTrue
  <2>2. RowAgrees(t, c)'
    BY <1>2, <2>1, AgreesKept
  <2> QED
    BY <1>1, <2>2
<1> QED
  BY <1>2, TableKept

\* Loads that are told of some cameras, or of none.
LEMMA LoadsTold ==
  ASSUME RowsInv, NEW these \in SUBSET PageCameras, fetch' = ToldSince(these),
         \A c \in PageCameras \ these : Unmoved(c)
  PROVE  LoadsTrue' /\ fetch' \in [Fetches -> FetchRecord]
<1>1. ASSUME NEW f \in Fetches
      PROVE  /\ fetch'[f] \in FetchRecord /\ fetch'[f].at = fetch[f].at /\ fetch'[f].list = fetch[f].list
             /\ fetch[f].at = "read" => fetch'[f].since = fetch[f].since \cup these
  <2>1. fetch[f] \in FetchRecord
    BY DEF RowsInv, RowsTyped
  <2>2. fetch'[f] = [fetch[f] EXCEPT !.since = IF fetch[f].at = "read" THEN @ \cup these ELSE @]
    BY DEF ToldSince
  <2> QED
    BY <2>1, <2>2 DEF FetchRecord
<1>2. fetch' \in [Fetches -> FetchRecord]
  BY <1>1 DEF ToldSince
<1>3. ASSUME NEW f \in Fetches, fetch'[f].at = "read", NEW c \in PageCameras, c \notin fetch'[f].since
      PROVE  RowAgrees(fetch[f].list, c)'
  <2>1. PICK l : l = fetch[f].list
    OBVIOUS
  <2>2. fetch[f].at = "read" /\ c \notin fetch[f].since /\ c \notin these /\ fetch'[f].list = l
    BY <1>1, <1>3, <2>1
  <2>3. RowAgrees(l, c)
    BY <2>1, <2>2 DEF RowsInv, LoadsTrue
  <2>4. RowAgrees(l, c)'
    BY <2>2, <2>3, AgreesKept
  <2> QED
    BY <2>2, <2>4
<1> QED
  BY <1>2, <1>3 DEF LoadsTrue

LEMMA LoadsSame ==
  ASSUME RowsInv, fetch' = fetch, \A c \in PageCameras : Unmoved(c) PROVE LoadsTrue'
<1>1. ASSUME NEW f \in Fetches, fetch'[f].at = "read", NEW c \in PageCameras, c \notin fetch'[f].since
      PROVE  RowAgrees(fetch[f].list, c)'
  <2>1. PICK l : l = fetch[f].list
    OBVIOUS
  <2>2. RowAgrees(l, c)
    BY <1>1, <2>1 DEF RowsInv, LoadsTrue
  <2>3. RowAgrees(l, c)'
    BY <2>2, AgreesKept
  <2> QED
    BY <2>1, <2>3
<1> QED
  BY <1>1 DEF LoadsTrue

-----------------------------------------------------------------------------
LEMMA EntryIds ==
  ASSUME RowsTyped
  PROVE  /\ \A k \in DOMAIN telling : telling[k].id \in PageCameras /\ telling[k] \in Entry
         /\ \A k \in DOMAIN events : events[k].id \in PageCameras /\ events[k] \in Entry
<1>1. \A q \in Seq(Entry) : \A k \in DOMAIN q : q[k] \in Entry
  OBVIOUS
<1> QED
  BY <1>1 DEF RowsTyped, Entry

LEMMA RowsInitInv == RowsInit => RowsInv
<1> SUFFICES ASSUME RowsInit PROVE RowsInv
  OBVIOUS
<1>1. NoRows \in [PageCameras -> RowStatus]
  BY DEF NoRows, RowStatus
<1>2. NoFetch \in FetchRecord /\ NoFetch.at = "idle"
  BY <1>1 DEF NoFetch, FetchRecord
<1>3. RowsTyped
  BY <1>1, <1>2 DEF RowsInit, RowsTyped, RowStatus
<1>4. DOMAIN telling = {} /\ DOMAIN events = {}
  BY DEF RowsInit
<1>5. ToldExist /\ OrderedLate(telling) /\ RoomHears /\ TellingTrue /\ EventsTrue
  BY <1>4 DEF RowsInit, RoomHears, ToldExist, OrderedLate, TellingTrue, EventsTrue, LastSays, Fresh
<1>6. TableTrue
  BY DEF RowsInit, TableTrue
<1>7. LoadsTrue
  BY <1>2 DEF RowsInit, LoadsTrue
<1> QED
  BY <1>3, <1>5, <1>6, <1>7 DEF RowsInv

LEMMA ChangeStatusInv == ASSUME RowsInv, NEW c \in PageCameras, ChangeStatus(c) PROVE RowsInv'
<1>1. PICK s \in {"online", "offline"} :
        /\ camera' = [camera EXCEPT ![c] = s]
        /\ telling' = Append(telling, [id |-> c, status |-> s, late |-> FALSE])
  BY DEF ChangeStatus
<1>2. /\ UNCHANGED <<events, table, fetch>> /\ FallBehind({}) /\ camera[c] \notin {"none", "gone"}
      /\ RowsTyped
  BY DEF ChangeStatus, RowsInv
<1>3. camera' \in [PageCameras -> RowStatus \cup {"gone"}] /\ camera'[c] = s
      /\ \A d \in PageCameras : d # c => camera'[d] = camera[d]
  BY <1>1, <1>2 DEF RowsTyped, RowStatus
<1>4. PICK e \in Entry : e = [id |-> c, status |-> s, late |-> FALSE]
  BY DEF Entry
<1>5. telling' = Append(telling, e) /\ e.id = c /\ e.status = s /\ ~e.late /\ telling \in Seq(Entry)
  BY <1>1, <1>2, <1>4 DEF RowsTyped
<1>6. /\ telling' \in Seq(Entry) /\ OrderedLate(telling)'
      /\ \A k \in DOMAIN telling' : telling'[k] = e \/ \E i \in DOMAIN telling : telling'[k] = telling[i]
      /\ Fresh(telling', c) # {} /\ LastSays(telling', c, s)
  BY <1>5, FreshAppend DEF RowsInv
<1>7. ASSUME NEW d \in PageCameras, d # c
      PROVE  /\ Fresh(telling', d) = Fresh(telling, d)
             /\ (LastSays(telling, d, camera[d]) => LastSays(telling', d, camera[d]))
  BY <1>5, <1>7, FreshAppend
<1>8. ToldExist'
  <2>1. \A d \in PageCameras : camera[d] # "none" => camera'[d] # "none"
    BY <1>2, <1>3
  <2>2. \A k \in DOMAIN telling' : camera'[telling'[k].id] # "none"
    BY <1>2, <1>3, <1>5, <1>6, <2>1, EntryIds DEF RowsInv, ToldExist
  <2>3. \A k \in DOMAIN events : camera'[events[k].id] # "none"
    BY <1>2, <2>1, EntryIds DEF RowsInv, ToldExist
  <2> QED
    BY <1>2, <2>2, <2>3 DEF ToldExist
<1>9. TellingTrue'
  BY <1>3, <1>6, <1>7 DEF RowsInv, TellingTrue
<1>10. EventsTrue'
  BY <1>2, <1>3, <1>6, <1>7 DEF RowsInv, EventsTrue
<1>11. ASSUME NEW d \in PageCameras PROVE Unmoved(d)
  <2>1. CASE d = c
    BY <1>2, <1>3, <1>6, <2>1 DEF Unmoved, NothingFresh, ListAnswer
  <2>2. CASE d # c
    BY <1>2, <1>3, <1>7, <2>2 DEF Unmoved, NothingFresh, ListAnswer
  <2> QED
    BY <2>1, <2>2
<1>12. LoadsTrue' /\ TableTrue' /\ behind' \subseteq PageCameras
  BY <1>2, <1>11, LoadsSame, TableSame
<1>13. RowsTyped' /\ RoomHears'
  BY <1>2, <1>3, <1>6, <1>12 DEF ChangeStatus, RowsInv, RowsTyped, RoomHears
<1> QED
  BY <1>6, <1>8, <1>9, <1>10, <1>12, <1>13 DEF RowsInv

LEMMA AddOrDeleteInv == ASSUME RowsInv, NEW c \in PageCameras, AddOrDelete(c) PROVE RowsInv'
<1>1. /\ UNCHANGED <<telling, room, events, table>> /\ FallBehind({c}) /\ fetch' = ToldSince({c})
      /\ camera[c] # "gone" /\ RowsTyped
      /\ camera' = [camera EXCEPT ![c] = IF @ = "none" THEN "offline" ELSE "gone"]
  BY DEF AddOrDelete, RowsInv
<1>2. /\ camera' \in [PageCameras -> RowStatus \cup {"gone"}]
      /\ camera'[c] = (IF camera[c] = "none" THEN "offline" ELSE "gone")
      /\ \A d \in PageCameras : d # c => camera'[d] = camera[d]
  BY <1>1 DEF RowsTyped, RowStatus
<1>3. ToldExist'
  <2>1. \A d \in PageCameras : camera[d] # "none" => camera'[d] # "none"
    BY <1>2
  <2> QED
    BY <1>1, <2>1, EntryIds DEF RowsInv, ToldExist
<1>4. camera'[c] # "gone" => Fresh(telling, c) = {} /\ Fresh(events, c) = {}
  BY <1>1, <1>2 DEF RowsInv, ToldExist, Fresh
<1>5. ASSUME NEW d \in PageCameras, camera'[d] # "gone"
      PROVE  /\ LastSays(telling, d, camera'[d])
             /\ Fresh(telling, d) = {} => LastSays(events, d, camera'[d])
  <2>1. CASE d = c
    BY <1>4, <1>5, <2>1 DEF LastSays
  <2>2. CASE d # c
    BY <1>2, <1>5, <2>2 DEF RowsInv, TellingTrue, EventsTrue
  <2> QED
    BY <2>1, <2>2
<1>6. TellingTrue' /\ EventsTrue' /\ OrderedLate(telling)'
  <2>1. OrderedLate(telling)'
    BY <1>1 DEF RowsInv, OrderedLate
  <2>2. PICK q, r : q = telling /\ r = events
    OBVIOUS
  <2>3. \A d \in PageCameras : camera'[d] # "gone" =>
           LastSays(q, d, camera'[d]) /\ (Fresh(q, d) = {} => LastSays(r, d, camera'[d]))
    BY <1>5, <2>2
  <2>4. telling' = q /\ events' = r
    BY <1>1, <2>2
  <2> QED
    BY <2>1, <2>3, <2>4 DEF TellingTrue, EventsTrue
<1>7. ASSUME NEW d \in PageCameras \ {c} PROVE Unmoved(d)
  BY <1>1, <1>2 DEF Unmoved, NothingFresh, ListAnswer, Fresh
<1>8. LoadsTrue' /\ fetch' \in [Fetches -> FetchRecord] /\ TableTrue' /\ behind' \subseteq PageCameras
  BY <1>1, <1>7, LoadsTold, TableSame
<1>9. RowsTyped' /\ RoomHears'
  BY <1>1, <1>2, <1>8 DEF RowsInv, RowsTyped, RoomHears
<1> QED
  BY <1>3, <1>6, <1>8, <1>9 DEF RowsInv

LEMMA BroadcastStatusInv == ASSUME RowsInv, NEW k \in DOMAIN telling, BroadcastStatus(k) PROVE RowsInv'
<1>1. PICK c \in PageCameras : c = telling[k].id
  BY EntryIds DEF RowsInv
<1>2. PICK e \in Entry : e = telling[k]
  BY EntryIds DEF RowsInv
<1>3. PICK q \in Seq(Entry) : q = telling
  BY DEF RowsInv, RowsTyped
<1>4. PICK r : r = RemoveAt(Overtaken(q, k), k)
  OBVIOUS
<1>5. PICK ev \in Seq(Entry) : ev = events
  BY DEF RowsInv, RowsTyped
<1>6. telling' = r
  BY <1>3, <1>4 DEF BroadcastStatus, Overtaken
<1>7. /\ r \in Seq(Entry) /\ OrderedLate(r)
      /\ \A j \in DOMAIN r : \E i \in DOMAIN q : r[j].id = q[i].id
      /\ \A d, s : LastSays(q, d, s) => LastSays(r, d, s)
      /\ \A d : d # c \/ e.late => (Fresh(q, d) = {} <=> Fresh(r, d) = {})
      /\ ~e.late /\ Fresh(r, c) = {} => \A s : LastSays(q, c, s) => e.status = s
  <2>1. k \in DOMAIN q /\ OrderedLate(q) /\ q[k].id = c /\ q[k] = e
    BY <1>1, <1>2, <1>3 DEF RowsInv
  <2>2. r \in Seq(Entry) /\ OrderedLate(r)
    BY <1>4, <2>1, FreshLeft
  <2>3. \A j \in DOMAIN r : \E i \in DOMAIN q : r[j].id = q[i].id
    BY <1>4, <2>1, FreshLeft
  <2>4. \A d, s : LastSays(q, d, s) => LastSays(r, d, s)
    BY <1>4, <2>1, FreshLeft
  <2>5. \A d : d # q[k].id \/ q[k].late => (Fresh(q, d) = {} <=> Fresh(r, d) = {})
    BY <1>4, <2>1, FreshLeft
  <2>6. ~q[k].late /\ Fresh(r, q[k].id) = {} => \A s : LastSays(q, q[k].id, s) => q[k].status = s
    BY <1>4, <2>1, FreshLeft
  <2> QED
    BY <2>1, <2>2, <2>4, <2>5, <2>6, <2>3
<1>8. UNCHANGED <<camera, room, table, turns, drops>> /\ e.id = c
  BY <1>1, <1>2 DEF BroadcastStatus
<1>9. TellingTrue'
  BY <1>3, <1>6, <1>7, <1>8 DEF RowsInv, TellingTrue
<1>10. CASE room
  <2>1. events' = Append(ev, e) /\ fetch' = fetch /\ FallBehind({})
    BY <1>2, <1>5, <1>10 DEF BroadcastStatus
  <2>2. /\ Append(ev, e) \in Seq(Entry)
        /\ \A j \in DOMAIN Append(ev, e) : Append(ev, e)[j] = e
             \/ \E i \in DOMAIN ev : Append(ev, e)[j] = ev[i]
        /\ ~e.late => Fresh(Append(ev, e), c) # {} /\ LastSays(Append(ev, e), c, e.status)
    BY <1>8, FreshAppend
  <2>3. ASSUME NEW d, d # c \/ e.late
        PROVE  /\ Fresh(Append(ev, e), d) = Fresh(ev, d)
               /\ \A s : LastSays(ev, d, s) => LastSays(Append(ev, e), d, s)
    BY <1>8, <2>3, FreshAppend
  <2>4. ToldExist'
    <3>1. \A j \in DOMAIN r : camera[r[j].id] # "none"
      BY <1>3, <1>7 DEF RowsInv, ToldExist
    <3>2. camera[e.id] # "none" /\ \A i \in DOMAIN ev : camera[ev[i].id] # "none"
      BY <1>2, <1>5 DEF RowsInv, ToldExist
    <3>3. \A j \in DOMAIN Append(ev, e) : camera[Append(ev, e)[j].id] # "none"
      BY <2>2, <3>2
    <3> QED
      BY <1>6, <1>8, <2>1, <3>1, <3>3 DEF ToldExist
  <2>5. EventsTrue'
    <3> SUFFICES ASSUME NEW d \in PageCameras, camera[d] # "gone", Fresh(r, d) = {}
                 PROVE  LastSays(Append(ev, e), d, camera[d])
      BY <1>6, <1>8, <2>1 DEF EventsTrue
    <3>1. CASE d = c /\ ~e.late
      BY <1>3, <1>7, <2>2, <3>1 DEF RowsInv, TellingTrue
    <3>2. CASE d # c \/ e.late
      BY <1>3, <1>5, <1>7, <2>3, <3>2 DEF RowsInv, EventsTrue
    <3> QED
      BY <3>1, <3>2
  <2>6. ASSUME NEW d \in PageCameras PROVE Unmoved(d)
    <3>1. ListAnswer[d]' = ListAnswer[d]
      BY <1>8 DEF ListAnswer
    <3>2. Fresh(r, d) = {} /\ Fresh(Append(ev, e), d) = {} => Fresh(q, d) = {} /\ Fresh(ev, d) = {}
      BY <1>7, <2>2, <2>3
    <3>3. NothingFresh(d)' => NothingFresh(d)
      BY <1>3, <1>5, <1>6, <2>1, <3>2 DEF NothingFresh
    <3> QED
      BY <3>1, <3>3 DEF Unmoved
  <2>7. LoadsTrue' /\ TableTrue' /\ behind' \subseteq PageCameras
    BY <1>8, <2>1, <2>6, LoadsSame, TableSame
  <2>8. RowsTyped' /\ RoomHears'
    BY <1>6, <1>7, <1>8, <1>10, <2>1, <2>2, <2>7 DEF RowsInv, RowsTyped, RoomHears
  <2> QED
    BY <1>6, <1>7, <1>9, <2>4, <2>5, <2>7, <2>8 DEF RowsInv
<1>11. CASE ~room
  <2>1. events' = ev /\ fetch' = ToldSince({c}) /\ FallBehind({c})
    BY <1>1, <1>5, <1>11 DEF BroadcastStatus
  <2>2. ToldExist'
    <3>1. \A j \in DOMAIN r : camera[r[j].id] # "none"
      BY <1>3, <1>7 DEF RowsInv, ToldExist
    <3>2. \A i \in DOMAIN ev : camera[ev[i].id] # "none"
      BY <1>5 DEF RowsInv, ToldExist
    <3> QED
      BY <1>6, <1>8, <2>1, <3>1, <3>2 DEF ToldExist
  <2>3. Fresh(ev, c) = {} /\ \A d : Fresh(ev, d) = {}
    BY <1>5, <1>11 DEF RowsInv, RoomHears, Fresh
  <2>4. EventsTrue' /\ RoomHears'
    BY <1>5, <1>8, <2>1, <2>3, <1>11 DEF RowsInv, RoomHears, EventsTrue, LastSays
  <2>5. ASSUME NEW d \in PageCameras \ {c} PROVE Unmoved(d)
    <3>1. ListAnswer[d]' = ListAnswer[d]
      BY <1>8 DEF ListAnswer
    <3>2. NothingFresh(d)' => NothingFresh(d)
      BY <1>3, <1>5, <1>6, <1>7, <2>1 DEF NothingFresh
    <3> QED
      BY <3>1, <3>2 DEF Unmoved
  <2>6. LoadsTrue' /\ fetch' \in [Fetches -> FetchRecord] /\ TableTrue' /\ behind' \subseteq PageCameras
    BY <1>8, <2>1, <2>5, LoadsTold, TableSame
  <2>7. RowsTyped'
    BY <1>6, <1>7, <1>8, <2>1, <2>6 DEF RowsInv, RowsTyped
  <2> QED
    BY <1>6, <1>7, <1>9, <2>2, <2>4, <2>6, <2>7 DEF RowsInv
<1> QED
  BY <1>10, <1>11

\* Nobody else is told of, and no camera changes.
LEMMA TellingKept ==
  ASSUME RowsInv, UNCHANGED <<camera, telling>>
  PROVE  /\ OrderedLate(telling)' /\ TellingTrue'
         /\ events' = events => EventsTrue' /\ ToldExist' /\ \A c \in PageCameras : Unmoved(c)
         /\ events' = <<>> => EventsTrue' /\ ToldExist'
<1>1. OrderedLate(telling)' /\ TellingTrue'
  BY DEF RowsInv, OrderedLate, TellingTrue, LastSays, Fresh
<1>2. ASSUME events' = events PROVE EventsTrue' /\ ToldExist' /\ \A c \in PageCameras : Unmoved(c)
  BY <1>2 DEF RowsInv, EventsTrue, LastSays, Fresh, ToldExist, Unmoved, NothingFresh, ListAnswer
<1>3. ASSUME events' = <<>> PROVE EventsTrue' /\ ToldExist'
  BY <1>3 DEF RowsInv, EventsTrue, LastSays, Fresh, ToldExist
<1> QED
  BY <1>1, <1>2, <1>3

LEMMA RoomJoinedInv == RowsInv /\ RoomJoined => RowsInv'
<1> SUFFICES ASSUME RowsInv, RoomJoined PROVE RowsInv'
  OBVIOUS
<1>1. UNCHANGED <<camera, telling, events, table, fetch, behind>> /\ room' = TRUE
  BY DEF RoomJoined
<1>2. /\ OrderedLate(telling)' /\ TellingTrue' /\ EventsTrue' /\ ToldExist' /\ LoadsTrue'
      /\ \A c \in PageCameras : Unmoved(c)
  BY <1>1, TellingKept, LoadsSame
<1>3. TableTrue'
  <2>1. PICK t : t = table
    OBVIOUS
  <2>2. \A c \in PageCameras \ behind : RowAgrees(t, c)'
    BY <1>2, <2>1, AgreesKept DEF RowsInv, TableTrue
  <2> QED
    BY <1>1, <2>1, <2>2 DEF TableTrue
<1>4. RowsTyped' /\ RoomHears'
  BY <1>1 DEF RowsInv, RowsTyped, RoomHears
<1> QED
  BY <1>2, <1>3, <1>4 DEF RowsInv

LEMMA RoomLeftInv == RowsInv /\ RoomLeft => RowsInv'
<1> SUFFICES ASSUME RowsInv, RoomLeft PROVE RowsInv'
  OBVIOUS
<1>1. /\ UNCHANGED <<camera, telling, table>> /\ room' = FALSE /\ events' = <<>>
      /\ fetch' = ToldSince(LostEvents) /\ FallBehind(LostEvents)
  BY DEF RoomLeft
<1>2. LostEvents \in SUBSET PageCameras
  BY EntryIds DEF LostEvents, RowsInv
<1>3. OrderedLate(telling)' /\ TellingTrue' /\ EventsTrue' /\ ToldExist'
  BY <1>1, TellingKept
<1>4. ASSUME NEW c \in PageCameras \ LostEvents PROVE Unmoved(c)
  <2>1. Fresh(events, c) = {}
    BY DEF Fresh, LostEvents
  <2>2. ListAnswer[c]' = ListAnswer[c] /\ (NothingFresh(c)' => NothingFresh(c))
    BY <1>1, <2>1 DEF ListAnswer, NothingFresh, Fresh
  <2> QED
    BY <2>2 DEF Unmoved
<1>5. LoadsTrue' /\ fetch' \in [Fetches -> FetchRecord] /\ TableTrue' /\ behind' \subseteq PageCameras
  BY <1>1, <1>2, <1>4, LoadsTold, TableSame
<1>6. RowsTyped' /\ RoomHears'
  BY <1>1, <1>5 DEF RowsInv, RowsTyped, RoomHears
<1> QED
  BY <1>3, <1>5, <1>6 DEF RowsInv

LEMMA PatchRowInv == RowsInv /\ PatchRow => RowsInv'
<1> SUFFICES ASSUME RowsInv, PatchRow PROVE RowsInv'
  OBVIOUS
<1>1. PICK ev \in Seq(Entry) : ev = events
  BY DEF RowsInv, RowsTyped
<1>2. ev # <<>> /\ Head(ev) \in Entry /\ Tail(ev) \in Seq(Entry)
      /\ \A k \in DOMAIN Tail(ev) : k + 1 \in DOMAIN ev /\ Tail(ev)[k] = ev[k + 1]
  BY <1>1, FreshTail DEF PatchRow
<1>3. PICK e \in Entry : e = Head(ev)
  BY <1>2
<1>4. e.id \in PageCameras /\ e.status \in {"online", "offline"} /\ e = ev[1] /\ 1 \in DOMAIN ev
  BY <1>2, <1>3 DEF Entry
<1>5. /\ events' = Tail(ev) /\ fetch' = ToldSince({e.id}) /\ UNCHANGED <<camera, telling, room>>
      /\ table' = [c \in PageCameras |-> IF c = e.id /\ table[c] # "none" THEN e.status ELSE table[c]]
      /\ FallBehind(IF e.late THEN {e.id} ELSE {})
  BY <1>1, <1>3 DEF PatchRow, Patched
<1>6. ASSUME NEW c
      PROVE  /\ \A s : LastSays(ev, c, s) => LastSays(Tail(ev), c, s)
             /\ e.id # c \/ e.late => (Fresh(ev, c) = {} <=> Fresh(Tail(ev), c) = {})
             /\ e.id = c /\ ~e.late /\ Fresh(Tail(ev), c) = {} => \A s : LastSays(ev, c, s) => e.status = s
  BY <1>2, <1>3, FreshTail
<1>7. OrderedLate(telling)' /\ TellingTrue'
  BY <1>5, TellingKept
<1>8. ToldExist'
  <2>1. \A k \in DOMAIN ev : camera[ev[k].id] # "none"
    BY <1>1 DEF RowsInv, ToldExist
  <2>2. \A k \in DOMAIN Tail(ev) : camera[Tail(ev)[k].id] # "none"
    BY <1>2, <2>1
  <2> QED
    BY <1>5, <2>2 DEF RowsInv, ToldExist
<1>9. EventsTrue'
  <2> SUFFICES ASSUME NEW c \in PageCameras, camera[c] # "gone", Fresh(telling, c) = {}
               PROVE  LastSays(Tail(ev), c, camera[c])
    BY <1>5 DEF EventsTrue
  <2> QED
    BY <1>1, <1>6 DEF RowsInv, EventsTrue
<1>10. \A c \in PageCameras : ListAnswer[c]' = ListAnswer[c]
  BY <1>5 DEF ListAnswer
<1>11. ASSUME NEW c \in PageCameras, c # e.id \/ e.late PROVE Unmoved(c)
  <2>1. NothingFresh(c)' <=> Fresh(telling, c) = {} /\ Fresh(Tail(ev), c) = {}
    BY <1>5 DEF NothingFresh
  <2> QED
    BY <1>1, <1>6, <1>10, <1>11, <2>1 DEF Unmoved, NothingFresh
<1>12. LoadsTrue' /\ fetch' \in [Fetches -> FetchRecord]
  BY <1>4, <1>5, <1>11, LoadsTold
<1>13. table' \in [PageCameras -> RowStatus]
  BY <1>4, <1>5 DEF RowsInv, RowsTyped, RowStatus
<1>14. TableTrue' /\ behind' \subseteq PageCameras
  <2>1. PICK more \in SUBSET PageCameras : more = IF e.late THEN {e.id} ELSE {}
    BY <1>4
  <2>2. ASSUME NEW c \in PageCameras, c \notin behind, c \notin more PROVE RowAgrees(table, c)'
    <3>1. PICK t : t = table
      OBVIOUS
    <3>2. RowAgrees(t, c)
      BY <2>2, <3>1 DEF RowsInv, TableTrue
    <3>3. CASE c # e.id
      <4>1. RowAgrees(t, c)'
        BY <1>11, <3>2, <3>3, AgreesKept
      <4>2. table'[c] = t[c]
        BY <1>5, <3>1, <3>3
      <4> QED
        BY <4>1, <4>2 DEF RowAgrees
    <3>4. CASE c = e.id
      <4>1. ~e.late
        BY <2>1, <2>2, <3>4
      <4>2. camera[c] # "none"
        BY <1>1, <1>4, <3>4 DEF RowsInv, ToldExist
      <4>3. ListAnswer[c] = IF camera[c] = "gone" THEN "none" ELSE camera[c]
        BY ListAnswerOf
      <4>4. CASE camera[c] = "gone"
        <5>1. t[c] = "none" /\ table'[c] = t[c]
          BY <1>5, <3>1, <3>2, <4>3, <4>4 DEF RowAgrees
        <5> QED
          BY <1>10, <4>3, <4>4, <5>1 DEF RowAgrees
      <4>5. CASE camera[c] # "gone"
        <5>1. t[c] # "none" /\ table'[c] = e.status
          BY <1>5, <3>1, <3>2, <3>4, <4>2, <4>3, <4>5 DEF RowAgrees
        <5>2. NothingFresh(c)' => Fresh(telling, c) = {} /\ Fresh(Tail(ev), c) = {}
          BY <1>5 DEF NothingFresh
        <5>3. Fresh(telling, c) = {} => LastSays(ev, c, camera[c])
          BY <1>1, <4>5 DEF RowsInv, EventsTrue
        <5>4. NothingFresh(c)' => e.status = camera[c]
          BY <1>6, <3>4, <4>1, <5>2, <5>3
        <5>5. e.status # "none"
          BY <1>4
        <5>6. table'[c] # "none" /\ ListAnswer[c]' # "none" /\ (NothingFresh(c)' => table'[c] = ListAnswer[c]')
          BY <1>10, <4>2, <4>3, <4>5, <5>1, <5>4, <5>5
        <5> QED
          BY <5>6 DEF RowAgrees
      <4> QED
        BY <4>4, <4>5
    <3> QED
      BY <3>3, <3>4
  <2> QED
    BY <1>5, <2>1, <2>2, TableKept
<1>15. RowsTyped' /\ RoomHears'
  <2>1. room
    BY <1>1, <1>2 DEF RowsInv, RoomHears
  <2> QED
    BY <1>2, <1>5, <1>12, <1>13, <1>14, <2>1 DEF RowsInv, RowsTyped, RoomHears
<1> QED
  BY <1>7, <1>8, <1>9, <1>12, <1>14, <1>15 DEF RowsInv

\* The socket and the server are not concerned.
LEMMA ServerKept ==
  ASSUME RowsInv, UNCHANGED <<camera, telling, room, events>>
  PROVE  /\ ToldExist' /\ OrderedLate(telling)' /\ RoomHears' /\ TellingTrue' /\ EventsTrue'
         /\ \A c \in PageCameras : Unmoved(c)
BY TellingKept DEF RowsInv, RoomHears

LEMMA FetchInv ==
  ASSUME RowsInv, NEW f \in Fetches, FetchBegin(f) \/ FetchRead(f) \/ FetchFailed(f) PROVE RowsInv'
<1>1. PICK rec \in FetchRecord :
        /\ fetch' = [fetch EXCEPT ![f] = rec]
        /\ rec.at = "read" => rec.list = ListAnswer
  <2>1. ListAnswer \in [PageCameras -> RowStatus]
    BY DEF ListAnswer, RowsInv, RowsTyped, RowStatus
  <2>2. NoFetch \in FetchRecord /\ NoFetch.at = "idle"
    BY DEF NoFetch, FetchRecord, NoRows, RowStatus
  <2>3. fetch[f] \in FetchRecord
    BY DEF RowsInv, RowsTyped
  <2>4. CASE FetchBegin(f)
    <3>1. [fetch[f] EXCEPT !.at = "sent"] \in FetchRecord /\ [fetch[f] EXCEPT !.at = "sent"].at = "sent"
      BY <2>3 DEF FetchRecord
    <3> QED
      BY <2>4, <3>1 DEF FetchBegin
  <2>5. CASE FetchRead(f)
    <3>1. [at |-> "read", list |-> ListAnswer, since |-> {}] \in FetchRecord
      BY <2>1 DEF FetchRecord
    <3> QED
      BY <2>5, <3>1 DEF FetchRead
  <2>6. CASE FetchFailed(f)
    BY <2>2, <2>6 DEF FetchFailed
  <2> QED
    BY <2>4, <2>5, <2>6
<1>2. UNCHANGED <<camera, telling, room, events, table, behind>>
  BY DEF FetchBegin, FetchRead, FetchFailed
<1>3. /\ fetch' \in [Fetches -> FetchRecord] /\ fetch'[f] = rec
      /\ \A g \in Fetches : g # f => fetch'[g] = fetch[g]
  BY <1>1 DEF RowsInv, RowsTyped
<1>4. /\ ToldExist' /\ OrderedLate(telling)' /\ RoomHears' /\ TellingTrue' /\ EventsTrue'
      /\ \A c \in PageCameras : Unmoved(c)
  BY <1>2, ServerKept
<1>5. TableTrue'
  <2>1. PICK t : t = table
    OBVIOUS
  <2>2. \A c \in PageCameras \ behind : RowAgrees(t, c)'
    BY <1>4, <2>1, AgreesKept DEF RowsInv, TableTrue
  <2> QED
    BY <1>2, <2>1, <2>2 DEF TableTrue
<1>6. LoadsTrue'
  <2> SUFFICES ASSUME NEW g \in Fetches, fetch'[g].at = "read",
                      NEW c \in PageCameras, c \notin fetch'[g].since
               PROVE  RowAgrees(fetch[g].list, c)'
    BY DEF LoadsTrue
  <2>1. CASE g = f
    <3>1. fetch'[g].list = ListAnswer
      BY <1>1, <1>3, <2>1
    <3>2. ListAnswer' = ListAnswer
      BY <1>2 DEF ListAnswer
    <3> QED
      BY <3>1, <3>2 DEF RowAgrees
  <2>2. CASE g # f
    <3>1. PICK l : l = fetch[g].list
      OBVIOUS
    <3>2. fetch'[g] = fetch[g]
      BY <1>3, <2>2
    <3>3. RowAgrees(l, c)
      BY <3>1, <3>2 DEF RowsInv, LoadsTrue
    <3>4. RowAgrees(l, c)'
      BY <1>4, <3>3, AgreesKept
    <3> QED
      BY <3>1, <3>2, <3>4
  <2> QED
    BY <2>1, <2>2
<1>7. RowsTyped'
  BY <1>2, <1>3 DEF RowsInv, RowsTyped
<1> QED
  BY <1>4, <1>5, <1>6, <1>7 DEF RowsInv

LEMMA FetchAnsweredInv == ASSUME RowsInv, NEW f \in Fetches, FetchAnswered(f) PROVE RowsInv'
<1>1. PICK l, since : l = fetch[f].list /\ since = fetch[f].since
  OBVIOUS
<1>2. /\ fetch[f].at = "read" /\ table' = l /\ fetch' = [fetch EXCEPT ![f] = NoFetch] /\ FallBehind(since)
      /\ UNCHANGED <<camera, telling, room, events>>
  BY <1>1 DEF FetchAnswered
<1>3. l \in [PageCameras -> RowStatus] /\ since \in SUBSET PageCameras
  <2>1. fetch[f] \in FetchRecord
    BY DEF RowsInv, RowsTyped
  <2> QED
    BY <1>1, <2>1 DEF FetchRecord
<1>4. NoFetch \in FetchRecord /\ NoFetch.at = "idle"
  BY DEF NoFetch, FetchRecord, NoRows, RowStatus
<1>5. /\ fetch' \in [Fetches -> FetchRecord] /\ fetch'[f].at = "idle"
      /\ \A g \in Fetches : g # f => fetch'[g] = fetch[g]
  BY <1>2, <1>4 DEF RowsInv, RowsTyped
<1>6. /\ ToldExist' /\ OrderedLate(telling)' /\ RoomHears' /\ TellingTrue' /\ EventsTrue'
      /\ \A c \in PageCameras : Unmoved(c)
  BY <1>2, ServerKept
<1>7. TableTrue' /\ behind' \subseteq PageCameras
  <2>1. ASSUME NEW c \in PageCameras, c \notin since PROVE RowAgrees(table, c)'
    <3>1. RowAgrees(l, c)
      BY <1>1, <1>2, <2>1 DEF RowsInv, LoadsTrue
    <3>2. RowAgrees(l, c)'
      BY <1>6, <3>1, AgreesKept
    <3> QED
      BY <1>2, <3>2
  <2> QED
    BY <1>2, <1>3, <2>1, TableKept
<1>8. LoadsTrue'
  <2> SUFFICES ASSUME NEW g \in Fetches, fetch'[g].at = "read",
                      NEW c \in PageCameras, c \notin fetch'[g].since
               PROVE  RowAgrees(fetch[g].list, c)'
    BY DEF LoadsTrue
  <2>1. PICK m : m = fetch[g].list
    OBVIOUS
  <2>2. fetch'[g] = fetch[g]
    BY <1>5
  <2>3. RowAgrees(m, c)
    BY <2>1, <2>2 DEF RowsInv, LoadsTrue
  <2>4. RowAgrees(m, c)'
    BY <1>6, <2>3, AgreesKept
  <2> QED
    BY <2>1, <2>2, <2>4
<1>9. RowsTyped'
  BY <1>2, <1>3, <1>5, <1>7 DEF RowsInv, RowsTyped
<1> QED
  BY <1>6, <1>7, <1>8, <1>9 DEF RowsInv

LEMMA RowsStepInv == RowsInv /\ [RowsNext]_rowsVars => RowsInv'
<1> SUFFICES ASSUME RowsInv, [RowsNext]_rowsVars PROVE RowsInv'
  OBVIOUS
<1>1. CASE UNCHANGED rowsVars
  <2>1. /\ UNCHANGED <<camera, telling, room, events, table, fetch, behind>>
    BY <1>1 DEF rowsVars
  <2>2. /\ ToldExist' /\ OrderedLate(telling)' /\ RoomHears' /\ TellingTrue' /\ EventsTrue'
        /\ \A c \in PageCameras : Unmoved(c)
    BY <2>1, ServerKept
  <2>3. PICK t : t = table
    OBVIOUS
  <2>4. \A c \in PageCameras \ behind : RowAgrees(t, c)'
    BY <2>2, <2>3, AgreesKept DEF RowsInv, TableTrue
  <2>5. TableTrue' /\ LoadsTrue' /\ RowsTyped'
    BY <2>1, <2>2, <2>3, <2>4, LoadsSame DEF TableTrue, RowsInv, RowsTyped
  <2> QED
    BY <2>2, <2>5 DEF RowsInv
<1>2. ASSUME NEW c \in PageCameras, ChangeStatus(c) \/ AddOrDelete(c) PROVE RowsInv'
  BY <1>2, ChangeStatusInv, AddOrDeleteInv
<1>3. ASSUME NEW k \in DOMAIN telling, BroadcastStatus(k) PROVE RowsInv'
  BY <1>3, BroadcastStatusInv
<1>4. CASE RoomJoined \/ RoomLeft \/ PatchRow
  BY <1>4, RoomJoinedInv, RoomLeftInv, PatchRowInv
<1>5. ASSUME NEW f \in Fetches, FetchBegin(f) \/ FetchRead(f) \/ FetchAnswered(f) \/ FetchFailed(f)
      PROVE  RowsInv'
  BY <1>5, FetchInv, FetchAnsweredInv
<1> QED
  BY <1>1, <1>2, <1>3, <1>4, <1>5 DEF RowsNext

\* What the page holds and what is on its way make up the status of each camera, whatever
\* loads, events, additions and deletions cross.  (useCameraStatus and fetchCameras,
\* tenant-cameras-page.tsx:106)
THEOREM RowsInvHolds == RowsSpec => []RowsInv
  BY RowsInitInv, RowsStepInv, PTL DEF RowsSpec

\* When everything has arrived, a row shows the camera's status, but for the excuses the
\* property names.  (useCameraStatus and fetchCameras, tenant-cameras-page.tsx:106)
THEOREM RowsTellStatusHolds == RowsSpec => []RowsTellStatus
<1>1. RowsInv => RowsTellStatus
  BY DEF RowsInv, TableTrue, RowAgrees, NothingFresh, Fresh, RowsTellStatus
<1> QED
  BY <1>1, RowsInvHolds, PTL

\* Types, the bounds of the run included.  (useCameraStatus and fetchCameras,
\* tenant-cameras-page.tsx:106)
LEMMA RowsTypesHold == RowsSpec => []RowsTypeOK
<1> DEFINE Bounded == room \in BOOLEAN /\ turns \in 0..MaxTurns /\ drops \in 0..MaxDrops
<1>1. RowsInit => Bounded
  <2> SUFFICES ASSUME RowsInit PROVE Bounded
    OBVIOUS
  <2>1. room = FALSE /\ turns = 0 /\ drops = 0
    BY DEF RowsInit
  <2>2. turns \in 0..MaxTurns /\ drops \in 0..MaxDrops
    BY <2>1, RowsAssumption
  <2> QED
    BY <2>1, <2>2
<1>2. Bounded /\ [RowsNext]_rowsVars => Bounded'
  <2> SUFFICES ASSUME Bounded, [RowsNext]_rowsVars PROVE Bounded'
    OBVIOUS
  <2>1. ASSUME NEW c \in PageCameras, ChangeStatus(c) \/ AddOrDelete(c) PROVE Bounded'
    BY <2>1, RowsAssumption DEF ChangeStatus, AddOrDelete, RowTurn
  <2>2. ASSUME NEW k \in DOMAIN telling, BroadcastStatus(k) PROVE Bounded'
    BY <2>2 DEF BroadcastStatus
  <2>3. CASE RoomJoined \/ RoomLeft \/ PatchRow
    <3>1. /\ room' \in BOOLEAN /\ turns' = turns
          /\ drops' = drops \/ (drops < MaxDrops /\ drops' = drops + 1)
      BY <2>3 DEF RoomJoined, RoomLeft, PatchRow
    <3>2. drops' \in 0..MaxDrops
      BY <3>1, RowsAssumption
    <3> QED
      BY <3>1, <3>2
  <2>4. ASSUME NEW f \in Fetches, FetchBegin(f) \/ FetchRead(f) \/ FetchAnswered(f) \/ FetchFailed(f)
        PROVE  Bounded'
    BY <2>4 DEF FetchBegin, FetchRead, FetchAnswered, FetchFailed
  <2>5. CASE UNCHANGED rowsVars
    BY <2>5 DEF rowsVars
  <2> QED
    BY <2>1, <2>2, <2>3, <2>4, <2>5 DEF RowsNext
<1>3. RowsInv /\ Bounded => RowsTypeOK
  <2> SUFFICES ASSUME RowsInv, Bounded PROVE RowsTypeOK
    OBVIOUS
  <2>1. \A q \in {telling, events} : \A k \in DOMAIN q : q[k] \in Entry
    <3>1. telling \in Seq(Entry) /\ events \in Seq(Entry)
      BY DEF RowsInv, RowsTyped
    <3> QED
      BY <3>1
  <2>2. \A q \in {telling, events} : \A k \in DOMAIN q : q[k].id \in PageCameras /\ q[k].status \in RowStatus
    BY <2>1 DEF Entry, RowStatus
  <2>3. \A f \in Fetches : fetch[f] \in FetchRecord
    BY DEF RowsInv, RowsTyped
  <2> QED
    BY <2>2, <2>3 DEF RowsInv, RowsTyped, RowsTypeOK, FetchRecord
<1> QED
  BY <1>1, <1>2, <1>3, RowsInvHolds, PTL DEF RowsSpec

(***************************************************************************)
(* ProjectsPanel. Loads overtake each other, so what counts is the newest  *)
(* of them: once it has been read it has the rows of its node as they are, *)
(* unless an action will ask again; and what the panel shows when all have *)
(* answered is what it brought.                                            *)
(***************************************************************************)
AskRecord == [at : {"idle", "sent", "read"}, of : Places, rows : SUBSET PanelRows, older : BOOLEAN]
ActRecord == [at : {"idle", "sent", "done"}, of : Places]
BulkRecord == [on : BOOLEAN, of : Places, verb : {"delete", "other"},
               todo : SUBSET PanelRows, failed : SUBSET PanelRows]

PanelTyped ==
  /\ exists \subseteq PanelRows /\ node \in Places /\ doings \in 0..MaxDoings /\ mislaid \in BOOLEAN
  /\ panel \in [of : Places, rows : SUBSET PanelRows] /\ selection \subseteq PanelRows
  /\ ask \in [Asks -> AskRecord] /\ act \in [Acts -> ActRecord] /\ bulk \in BulkRecord

\* An action has changed rows, and its answer is still to come.
Unsettled == (\E a \in Acts : act[a].at = "done") \/ bulk.on

\* Bulk actions have rows to do only while they run.
BulkRuns == bulk.todo # {} => bulk.on

\* The newest of the loads has the rows of its node as they are, once it has been read,
\* unless an action will ask again.
NewestTrue ==
  \A q \in Asks : ask[q].at = "read" /\ ~ask[q].older => ask[q].rows = RowsAt(ask[q].of) \/ Unsettled

\* When the newest of the loads has been answered, what it brought is shown.
NewestShown ==
  ~mislaid /\ ~NewestPending => panel = [of |-> node, rows |-> RowsAt(node)] \/ Unsettled

PanelInv == PanelTyped /\ BulkRuns /\ NewestTrue /\ NewestShown

-----------------------------------------------------------------------------
LEMMA RowsAtTyped == ASSUME PanelTyped, NEW p PROVE RowsAt(p) \subseteq PanelRows
BY DEF PanelTyped, RowsAt

LEMMA NoAskTyped == NoAsk \in AskRecord /\ NoAct \in ActRecord /\ NoBulk \in BulkRecord
BY DEF NoAsk, NoAct, NoBulk, AskRecord, ActRecord, BulkRecord, Places

LEMMA DoingTyped == ASSUME PanelTyped, Doing PROVE doings' \in 0..MaxDoings
BY PanelAssumption DEF PanelTyped, Doing

LEMMA PanelInitInv == PanelInit => PanelInv
<1> SUFFICES ASSUME PanelInit PROVE PanelInv
  OBVIOUS
<1> DEFINE first == CHOOSE p \in Asks : TRUE
<1>1. first \in Asks
  BY PanelAssumption
<1>2. (CHOOSE n \in Names : TRUE) \in Names
  BY PanelAssumption
<1>3. Root \in Places /\ 0 \in 0..MaxDoings
  BY PanelAssumption DEF Places
<1>4. [NoAsk EXCEPT !.at = "sent"].at = "sent" /\ ~[NoAsk EXCEPT !.at = "sent"].older
  BY DEF NoAsk
<1>5. [NoAsk EXCEPT !.at = "sent"] \in AskRecord
  BY NoAskTyped DEF AskRecord
<1>6. ask \in [Asks -> AskRecord]
  BY <1>5, NoAskTyped DEF PanelInit
<1>7. exists \subseteq PanelRows
  BY <1>2 DEF PanelInit, PanelRows
<1>8. PanelTyped
  BY <1>3, <1>6, <1>7, NoAskTyped DEF PanelInit, PanelTyped
<1>9. BulkRuns
  BY DEF PanelInit, BulkRuns, NoBulk
<1>10. ask[first].at = "sent" /\ ~ask[first].older
  BY <1>1, <1>4 DEF PanelInit
<1>11. NewestPending
  BY <1>1, <1>10 DEF NewestPending, Pending
<1>12. \A q \in Asks : ask[q].at # "read"
  BY <1>4 DEF PanelInit, NoAsk
<1> QED
  BY <1>8, <1>9, <1>11, <1>12 DEF PanelInv, NewestTrue, NewestShown

\* Who asks for the rows of a place has the newest load, and it has not been read.
LEMMA AskForNewest ==
  ASSUME PanelTyped, NEW p \in Places, AskFor(p)
  PROVE  /\ ask' \in [Asks -> AskRecord]
         /\ NewestPending'
         /\ \A q \in Asks : ask'[q].at = "read" => ask'[q].older
<1>1. PICK q \in Asks : ask' = [x \in Asks |-> IF x = q THEN [NoAsk EXCEPT !.at = "sent", !.of = p]
                                       ELSE [ask[x] EXCEPT !.older = Pending(x)]]
  BY DEF AskFor
<1>2. /\ [NoAsk EXCEPT !.at = "sent", !.of = p] \in AskRecord
      /\ [NoAsk EXCEPT !.at = "sent", !.of = p].at = "sent"
      /\ ~[NoAsk EXCEPT !.at = "sent", !.of = p].older
  BY NoAskTyped DEF AskRecord, NoAsk
<1>3. ASSUME NEW x \in Asks
      PROVE  /\ [ask[x] EXCEPT !.older = Pending(x)] \in AskRecord
             /\ [ask[x] EXCEPT !.older = Pending(x)].at = ask[x].at
             /\ [ask[x] EXCEPT !.older = Pending(x)].older <=> Pending(x)
  <2>1. ask[x] \in AskRecord /\ Pending(x) \in BOOLEAN
    BY DEF PanelTyped, Pending
  <2> QED
    BY <2>1 DEF AskRecord
<1>4. ask' \in [Asks -> AskRecord]
  BY <1>1, <1>2, <1>3
<1>5. ask'[q].at = "sent" /\ ~ask'[q].older
  BY <1>1, <1>2
<1>6. NewestPending'
  BY <1>5 DEF NewestPending, Pending
<1>7. ASSUME NEW x \in Asks, ask'[x].at = "read" PROVE ask'[x].older
  <2>1. x # q
    BY <1>5, <1>7
  <2>2. ask'[x] = [ask[x] EXCEPT !.older = Pending(x)]
    BY <1>1, <2>1
  <2>3. ask[x].at = "read" /\ (ask'[x].older <=> Pending(x))
    BY <1>3, <1>7, <2>2
  <2> QED
    BY <2>3 DEF Pending
<1> QED
  BY <1>4, <1>6, <1>7

\* Whatever else it does, a step that asks leaves nothing to be wrong.
LEMMA AskForInv ==
  ASSUME PanelTyped, NEW p \in Places, AskFor(p) PROVE NewestTrue' /\ NewestShown'
<1>1. NewestPending' /\ \A q \in Asks : ask'[q].at = "read" => ask'[q].older
  BY AskForNewest
<1> QED
  BY <1>1 DEF NewestTrue, NewestShown

LEMMA SelectNodeInv == ASSUME PanelInv, NEW p \in Places, SelectNode(p) PROVE PanelInv'
<1>1. PanelTyped /\ BulkRuns /\ AskFor(p) /\ Doing
  BY DEF PanelInv, SelectNode
<1>2. ask' \in [Asks -> AskRecord] /\ doings' \in 0..MaxDoings
  BY <1>1, AskForNewest, DoingTyped
<1>3. PanelTyped' /\ BulkRuns'
  BY <1>1, <1>2 DEF SelectNode, PanelTyped, BulkRuns
<1> QED
  BY <1>1, <1>3, AskForInv DEF PanelInv

LEMMA ActAnsweredInv == ASSUME PanelInv, NEW a \in Acts, ActAnswered(a) PROVE PanelInv'
<1>1. PanelTyped /\ BulkRuns /\ AskFor(act[a].of) /\ act[a].of \in Places
  BY DEF PanelInv, ActAnswered, RefreshAll, PanelTyped, ActRecord
<1>2. ask' \in [Asks -> AskRecord]
  BY <1>1, AskForNewest
<1>3. act' \in [Acts -> ActRecord]
  BY <1>1, NoAskTyped DEF ActAnswered, PanelTyped
<1>4. PanelTyped' /\ BulkRuns'
  BY <1>1, <1>2, <1>3 DEF ActAnswered, PanelTyped, BulkRuns
<1> QED
  BY <1>1, <1>4, AskForInv DEF PanelInv

LEMMA BulkEndInv == PanelInv /\ BulkEnd => PanelInv'
<1> SUFFICES ASSUME PanelInv, BulkEnd PROVE PanelInv'
  OBVIOUS
<1>1. PanelTyped /\ AskFor(bulk.of) /\ bulk.of \in Places /\ bulk.failed \subseteq PanelRows
  BY DEF PanelInv, BulkEnd, RefreshAll, PanelTyped, BulkRecord
<1>2. ask' \in [Asks -> AskRecord]
  BY <1>1, AskForNewest
<1>3. PanelTyped' /\ BulkRuns'
  BY <1>1, <1>2, NoAskTyped DEF BulkEnd, PanelTyped, BulkRuns, NoBulk
<1> QED
  BY <1>1, <1>3, AskForInv DEF PanelInv

\* A load that the step leaves alone stays true.
LEMMA NewestKept ==
  ASSUME PanelInv, NEW x \in Asks, ask'[x].at = "read", ~ask'[x].older,
         ask'[x].at = ask[x].at, ask'[x].of = ask[x].of, ask'[x].rows = ask[x].rows,
         ask'[x].older <=> ask[x].older,
         exists' = exists \/ Unsettled', Unsettled => Unsettled'
  PROVE  (ask[x].rows = RowsAt(ask[x].of) \/ Unsettled)'
<1>1. ask[x].rows = RowsAt(ask[x].of) \/ Unsettled
  BY DEF PanelInv, NewestTrue
<1>2. CASE exists' = exists
  BY <1>1, <1>2 DEF RowsAt
<1>3. CASE Unsettled'
  BY <1>3
<1> QED
  BY <1>2, <1>3

LEMMA AskReadInv == ASSUME PanelInv, NEW q \in Asks, AskRead(q) PROVE PanelInv'
<1>1. /\ PanelTyped /\ BulkRuns /\ NewestTrue /\ NewestShown /\ ask[q].at = "sent"
      /\ UNCHANGED <<exists, node, panel, selection, act, bulk, doings, mislaid>>
  BY DEF PanelInv, AskRead
<1>2. ask' = [ask EXCEPT ![q] = [[ask[q] EXCEPT !.at = "read"] EXCEPT !.rows = RowsAt(ask[q].of)]]
  BY <1>1 DEF AskRead, PanelTyped
<1>3. ask[q] \in AskRecord /\ RowsAt(ask[q].of) \subseteq PanelRows
  BY <1>1, RowsAtTyped DEF PanelTyped
<1>4. [ask[q] EXCEPT !.at = "read"] \in AskRecord
  BY <1>3 DEF AskRecord
<1>5. [[ask[q] EXCEPT !.at = "read"] EXCEPT !.rows = RowsAt(ask[q].of)] \in AskRecord
  BY <1>3, <1>4 DEF AskRecord
<1>6. ask' \in [Asks -> AskRecord]
  BY <1>1, <1>2, <1>5 DEF PanelTyped
<1>7. PanelTyped' /\ BulkRuns'
  BY <1>1, <1>6 DEF PanelTyped, BulkRuns
<1>8. Unsettled' <=> Unsettled
  BY <1>1 DEF Unsettled
<1>9. \A x \in Asks : x # q => ask'[x] = ask[x]
  BY <1>1, <1>2 DEF PanelTyped
<1>10. /\ ask'[q].at = "read" /\ ask'[q].of = ask[q].of /\ ask'[q].rows = RowsAt(ask[q].of)
       /\ ask'[q].older <=> ask[q].older
  BY <1>1, <1>2, <1>3 DEF PanelTyped, AskRecord
<1>11. NewestTrue'
  <2> SUFFICES ASSUME NEW x \in Asks, ask'[x].at = "read", ~ask'[x].older
               PROVE  (ask[x].rows = RowsAt(ask[x].of) \/ Unsettled)'
    BY DEF NewestTrue
  <2>1. CASE x = q
    BY <1>1, <1>10, <2>1 DEF RowsAt
  <2>2. CASE x # q
    BY <1>1, <1>8, <1>9, <2>2, NewestKept
  <2> QED
    BY <2>1, <2>2
<1>12. NewestPending => NewestPending'
  BY <1>1, <1>9, <1>10 DEF NewestPending, Pending
<1>13. NewestShown'
  BY <1>1, <1>8, <1>12 DEF NewestShown, RowsAt
<1> QED
  BY <1>7, <1>11, <1>13 DEF PanelInv

LEMMA AskAnsweredInv == ASSUME PanelInv, NEW q \in Asks, AskAnswered(q) PROVE PanelInv'
<1>1. /\ PanelTyped /\ BulkRuns /\ NewestTrue /\ NewestShown /\ ask[q].at = "read"
      /\ ask' = [ask EXCEPT ![q] = NoAsk] /\ panel' = [of |-> ask[q].of, rows |-> ask[q].rows]
      /\ UNCHANGED <<exists, node, selection, act, bulk, doings>>
  BY DEF PanelInv, AskAnswered
<1>2. mislaid' = IF ask[q].older THEN mislaid \/ ~NewestPending ELSE ask[q].of # node
  BY DEF AskAnswered
<1>3. ask[q] \in AskRecord
  BY <1>1 DEF PanelTyped
<1>4. ask' \in [Asks -> AskRecord] /\ ask'[q].at = "idle" /\ \A x \in Asks : x # q => ask'[x] = ask[x]
  BY <1>1, NoAskTyped DEF PanelTyped, NoAsk
<1>5. mislaid' \in BOOLEAN
  BY <1>1, <1>2 DEF PanelTyped, NewestPending
<1>6. panel' \in [of : Places, rows : SUBSET PanelRows]
  BY <1>1, <1>3 DEF AskRecord
<1>7. PanelTyped' /\ BulkRuns'
  BY <1>1, <1>4, <1>5, <1>6 DEF PanelTyped, BulkRuns
<1>8. Unsettled' <=> Unsettled
  BY <1>1 DEF Unsettled
<1>9. NewestTrue'
  <2> SUFFICES ASSUME NEW x \in Asks, ask'[x].at = "read", ~ask'[x].older
               PROVE  (ask[x].rows = RowsAt(ask[x].of) \/ Unsettled)'
    BY DEF NewestTrue
  <2> QED
    BY <1>1, <1>4, <1>8, NewestKept
<1>10. NewestShown'
  <2> SUFFICES ASSUME ~mislaid', ~NewestPending'
               PROVE  (panel = [of |-> node, rows |-> RowsAt(node)] \/ Unsettled)'
    BY DEF NewestShown
  <2>1. CASE ask[q].older
    <3>1. NewestPending
      BY <1>2, <2>1
    <3>2. PICK x \in Asks : Pending(x) /\ ~ask[x].older
      BY <3>1 DEF NewestPending
    <3>3. NewestPending'
      BY <1>4, <2>1, <3>2 DEF NewestPending, Pending
    <3> QED
      BY <3>3
  <2>2. CASE ~ask[q].older
    <3>1. ask[q].of = node /\ (ask[q].rows = RowsAt(ask[q].of) \/ Unsettled)
      BY <1>1, <1>2, <2>2 DEF NewestTrue
    <3> QED
      BY <1>1, <1>8, <3>1 DEF RowsAt
  <2> QED
    BY <2>1, <2>2
<1> QED
  BY <1>7, <1>9, <1>10 DEF PanelInv

LEMMA AskFailsInv == ASSUME PanelInv, NEW q \in Asks, AskFails(q) PROVE PanelInv'
<1>1. /\ PanelTyped /\ BulkRuns /\ NewestTrue /\ NewestShown
      /\ ask' = [ask EXCEPT ![q] = NoAsk] /\ (mislaid' <=> (mislaid \/ ~ask[q].older))
      /\ UNCHANGED <<exists, node, panel, selection, act, bulk, doings>>
  BY DEF PanelInv, AskFails
<1>2. mislaid' \in BOOLEAN
  BY DEF AskFails
<1>3. ask' \in [Asks -> AskRecord] /\ ask'[q].at = "idle" /\ \A x \in Asks : x # q => ask'[x] = ask[x]
  BY <1>1, NoAskTyped DEF PanelTyped, NoAsk
<1>4. PanelTyped' /\ BulkRuns'
  BY <1>1, <1>2, <1>3 DEF PanelTyped, BulkRuns
<1>5. Unsettled' <=> Unsettled
  BY <1>1 DEF Unsettled
<1>6. NewestTrue'
  <2> SUFFICES ASSUME NEW x \in Asks, ask'[x].at = "read", ~ask'[x].older
               PROVE  (ask[x].rows = RowsAt(ask[x].of) \/ Unsettled)'
    BY DEF NewestTrue
  <2> QED
    BY <1>1, <1>3, <1>5, NewestKept
<1>7. ~mislaid' /\ NewestPending => NewestPending'
  BY <1>1, <1>3 DEF NewestPending, Pending
<1>8. NewestShown'
  BY <1>1, <1>5, <1>7 DEF NewestShown, RowsAt
<1> QED
  BY <1>4, <1>6, <1>8 DEF PanelInv

-----------------------------------------------------------------------------
\* A step that asks for nothing and shows nothing keeps the rest, if the rows are as they
\* were or an action will ask again.
LEMMA AsksKept ==
  ASSUME PanelInv, UNCHANGED <<node, panel, ask, mislaid>>,
         exists' = exists \/ Unsettled', Unsettled => Unsettled'
  PROVE  NewestTrue' /\ NewestShown'
<1>1. NewestTrue'
  <2> SUFFICES ASSUME NEW x \in Asks, ask'[x].at = "read", ~ask'[x].older
               PROVE  (ask[x].rows = RowsAt(ask[x].of) \/ Unsettled)'
    BY DEF NewestTrue
  <2> QED
    BY NewestKept
<1>2. CASE exists' = exists
  <2>1. NewestPending' <=> NewestPending
    BY DEF NewestPending, Pending
  <2> QED
    BY <1>1, <1>2, <2>1 DEF PanelInv, NewestShown, RowsAt
<1>3. CASE Unsettled'
  BY <1>1, <1>3 DEF NewestShown
<1> QED
  BY <1>2, <1>3

LEMMA ActBeginInv == ASSUME PanelInv, NEW a \in Acts, ActBegin(a) PROVE PanelInv'
<1>1. /\ PanelTyped /\ BulkRuns /\ Doing /\ act[a].at = "idle"
      /\ act' = [act EXCEPT ![a] = [at |-> "sent", of |-> node]]
      /\ UNCHANGED <<exists, node, panel, selection, ask, bulk, mislaid>>
  BY DEF PanelInv, ActBegin
<1>2. act' \in [Acts -> ActRecord]
  BY <1>1 DEF PanelTyped, ActRecord
<1>3. PanelTyped' /\ BulkRuns'
  BY <1>1, <1>2, DoingTyped DEF PanelTyped, BulkRuns
<1>4. Unsettled => Unsettled'
  BY <1>1 DEF Unsettled, PanelTyped
<1> QED
  BY <1>1, <1>3, <1>4, AsksKept DEF PanelInv

LEMMA ActServeInv == ASSUME PanelInv, NEW a \in Acts, ActServe(a) PROVE PanelInv'
<1>1. /\ PanelTyped /\ BulkRuns /\ act[a].at = "sent" /\ act' = [act EXCEPT ![a].at = "done"]
      /\ UNCHANGED <<node, panel, selection, ask, bulk, doings, mislaid>>
  BY DEF PanelInv, ActServe
<1>2. exists' \subseteq PanelRows
  BY <1>1 DEF ActServe, PanelTyped
<1>3. act' \in [Acts -> ActRecord] /\ act'[a].at = "done"
  BY <1>1 DEF PanelTyped, ActRecord
<1>4. PanelTyped' /\ BulkRuns'
  BY <1>1, <1>2, <1>3 DEF PanelTyped, BulkRuns
<1>5. Unsettled'
  BY <1>3 DEF Unsettled
<1> QED
  BY <1>1, <1>4, <1>5, AsksKept DEF PanelInv

LEMMA ActFailsInv == ASSUME PanelInv, NEW a \in Acts, ActFails(a) PROVE PanelInv'
<1>1. /\ PanelTyped /\ BulkRuns /\ act[a].at # "idle" /\ act' = [act EXCEPT ![a] = NoAct]
      /\ UNCHANGED <<exists, node, panel, selection, bulk, doings>>
  BY DEF PanelInv, ActFails
<1>2. act' \in [Acts -> ActRecord] /\ act'[a].at = "idle" /\ \A b \in Acts : b # a => act'[b] = act[b]
  BY <1>1, NoAskTyped DEF PanelTyped, NoAct
<1>3. CASE act[a].at # "done"
  <2>1. UNCHANGED <<ask, mislaid>>
    BY <1>3 DEF ActFails
  <2>2. PanelTyped' /\ BulkRuns'
    BY <1>1, <1>2, <2>1 DEF PanelTyped, BulkRuns
  <2>3. Unsettled => Unsettled'
    BY <1>1, <1>2, <1>3 DEF Unsettled
  <2> QED
    BY <1>1, <2>1, <2>2, <2>3, AsksKept DEF PanelInv
<1>4. CASE act[a].at = "done"
  <2>1. /\ mislaid' = TRUE
        /\ ask' = [q \in Asks |-> [ask[q] EXCEPT !.older = @ \/ ask[q].at = "read"]]
    BY <1>4 DEF ActFails
  <2>2. ASSUME NEW q \in Asks
        PROVE  ask'[q] \in AskRecord /\ (ask'[q].at = "read" => ask'[q].older)
    <3>1. ask[q] \in AskRecord /\ ask'[q] = [ask[q] EXCEPT !.older = @ \/ ask[q].at = "read"]
      BY <1>1, <2>1 DEF PanelTyped
    <3>2. (ask[q].older \/ ask[q].at = "read") \in BOOLEAN
      OBVIOUS
    <3>3. ask'[q] \in AskRecord /\ ask'[q].at = ask[q].at
      BY <3>1, <3>2 DEF AskRecord
    <3>4. ask'[q].older <=> (ask[q].older \/ ask[q].at = "read")
      BY <3>1 DEF AskRecord
    <3> QED
      BY <3>3, <3>4
  <2>3. ask' \in [Asks -> AskRecord]
    BY <2>1, <2>2
  <2>4. PanelTyped' /\ BulkRuns'
    BY <1>1, <1>2, <2>1, <2>3 DEF PanelTyped, BulkRuns
  <2>5. NewestTrue' /\ NewestShown'
    BY <2>1, <2>2 DEF NewestTrue, NewestShown
  <2> QED
    BY <2>4, <2>5 DEF PanelInv
<1> QED
  BY <1>3, <1>4

LEMMA SelectRowInv == ASSUME PanelInv, NEW r \in PanelRows, SelectRow(r) PROVE PanelInv'
<1>1. /\ PanelTyped /\ BulkRuns /\ UNCHANGED <<exists, node, panel, ask, act, bulk, doings, mislaid>>
  BY DEF PanelInv, SelectRow
<1>2. selection' \subseteq PanelRows
  BY <1>1 DEF SelectRow, PanelTyped
<1>3. PanelTyped' /\ BulkRuns'
  BY <1>1, <1>2 DEF PanelTyped, BulkRuns
<1>4. Unsettled => Unsettled'
  BY <1>1 DEF Unsettled
<1> QED
  BY <1>1, <1>3, <1>4, AsksKept DEF PanelInv

LEMMA RunBulkInv == PanelInv /\ RunBulk => PanelInv'
<1> SUFFICES ASSUME PanelInv, RunBulk PROVE PanelInv'
  OBVIOUS
<1>1. /\ PanelTyped /\ Doing /\ ~bulk.on
      /\ UNCHANGED <<exists, node, panel, selection, ask, act, mislaid>>
  BY DEF PanelInv, RunBulk
<1>2. PICK verb \in {"delete", "other"}, targets \in SUBSET (ShownCameras \cap selection) \ {{}} :
        bulk' = [on |-> TRUE, of |-> node, verb |-> verb, todo |-> targets, failed |-> {}]
  BY DEF RunBulk
<1>3. targets \subseteq PanelRows
  BY <1>1, <1>2 DEF PanelTyped
<1>4. bulk' \in BulkRecord /\ bulk'.on
  BY <1>1, <1>2, <1>3 DEF PanelTyped, BulkRecord
<1>5. PanelTyped' /\ BulkRuns'
  BY <1>1, <1>4, DoingTyped DEF PanelTyped, BulkRuns
<1>6. Unsettled'
  BY <1>4 DEF Unsettled
<1> QED
  BY <1>1, <1>5, <1>6, AsksKept DEF PanelInv

LEMMA BulkServeInv == ASSUME PanelInv, NEW r \in PanelRows, BulkServe(r) PROVE PanelInv'
<1>1. /\ PanelTyped /\ bulk.on /\ UNCHANGED <<node, panel, selection, ask, act, doings, mislaid>>
  BY DEF PanelInv, BulkServe, BulkRuns
<1>2. PICK failed \in {{}, {r}} : bulk' = [bulk EXCEPT !.todo = @ \ {r}, !.failed = @ \cup failed]
  BY DEF BulkServe
<1>3. bulk' = [on |-> bulk.on, of |-> bulk.of, verb |-> bulk.verb, todo |-> bulk.todo \ {r},
               failed |-> bulk.failed \cup failed]
  BY <1>1, <1>2 DEF PanelTyped, BulkRecord
<1>4. bulk' \in BulkRecord /\ bulk'.on
  BY <1>1, <1>3 DEF PanelTyped, BulkRecord
<1>5. exists' \subseteq PanelRows
  BY <1>1 DEF BulkServe, PanelTyped
<1>6. PanelTyped' /\ BulkRuns'
  BY <1>1, <1>4, <1>5 DEF PanelTyped, BulkRuns
<1>7. Unsettled'
  BY <1>4 DEF Unsettled
<1> QED
  BY <1>1, <1>6, <1>7, AsksKept DEF PanelInv

LEMMA PanelStepInv == PanelInv /\ [PanelNext]_panelVars => PanelInv'
<1> SUFFICES ASSUME PanelInv, [PanelNext]_panelVars PROVE PanelInv'
  OBVIOUS
<1>1. CASE UNCHANGED panelVars
  BY <1>1 DEF panelVars, PanelInv, PanelTyped, BulkRuns, NewestTrue, NewestShown, NewestPending,
              Pending, Unsettled, RowsAt
<1>2. ASSUME NEW p \in Places, SelectNode(p) PROVE PanelInv'
  BY <1>2, SelectNodeInv
<1>3. ASSUME NEW q \in Asks, AskRead(q) \/ AskAnswered(q) \/ AskFails(q) PROVE PanelInv'
  BY <1>3, AskReadInv, AskAnsweredInv, AskFailsInv
<1>4. ASSUME NEW a \in Acts, ActBegin(a) \/ ActServe(a) \/ ActAnswered(a) \/ ActFails(a) PROVE PanelInv'
  BY <1>4, ActBeginInv, ActServeInv, ActAnsweredInv, ActFailsInv
<1>5. ASSUME NEW r \in PanelRows, SelectRow(r) \/ BulkServe(r) PROVE PanelInv'
  BY <1>5, SelectRowInv, BulkServeInv
<1>6. CASE RunBulk \/ BulkEnd
  BY <1>6, RunBulkInv, BulkEndInv
<1> QED
  BY <1>1, <1>2, <1>3, <1>4, <1>5, <1>6 DEF PanelNext

\* The newest load has the rows of its node, unless an action will ask again.
\* (fetchPanelData, tenant-projects-page.tsx:135)
THEOREM PanelInvHolds == PanelSpec => []PanelInv
  BY PanelInitInv, PanelStepInv, PTL DEF PanelSpec

\* When nothing is on its way the panel shows the rows of the selected node, but for the
\* excuses the property names.  (fetchPanelData, tenant-projects-page.tsx:135)
THEOREM PanelTellsNodeHolds == PanelSpec => []PanelTellsNode
<1>1. PanelInv => PanelTellsNode
  BY DEF PanelInv, NewestShown, PanelTellsNode, NewestPending, Unsettled
<1> QED
  BY <1>1, PanelInvHolds, PTL

(***************************************************************************)
(* ImportDialog. Until there is a doubt - the dialog was closed while      *)
(* importing, or an answer got lost - at most one import is on its way and *)
(* everything waits for it; and flags that are not those of the list are   *)
(* put right by a load that is still to answer.                            *)
(***************************************************************************)
Kinds == {"early", "sites", "cameras"}

\* What the argument needs of types: counts of loads, and imports as HandleImport sends them.
DialogTyped ==
  /\ loads \in [Kinds -> Nat]
  /\ sent = [i \in Imports |-> [at |-> sent[i].at, rows |-> sent[i].rows, opening |-> sent[i].opening]]
  /\ {importing, untold, doubled, swept, doubt} \subseteq BOOLEAN

\* Flags that are not those of the list will be put right by a load.
FlagsOwed == dup = Annotated(rows, existing) \/ \E kind \in Kinds : loads[kind] > 0

Flying(i) == sent[i].at # "idle"

\* As long as there is no doubt, at most one import is on its way, the buttons wait for it,
\* and the opening that began it goes on.
OneImport ==
  ~doubt => \A i \in Imports :
              Flying(i) => /\ importing /\ sent[i].opening = opening
                           /\ \A j \in Imports : Flying(j) => i = j

\* What the user has not been told of was made by an import whose answer is on its way.
UntoldFlying == ~doubt /\ untold => \E i \in Imports : sent[i].at = "made" /\ HasPush(sent[i].rows)

DialogInv == DialogTyped /\ FlagsOwed /\ OneImport /\ UntoldFlying /\ ImportsApart

-----------------------------------------------------------------------------
LEMMA NoRowsNoFlags == ASSUME NEW known, NEW other PROVE Annotated(<<>>, known) = Annotated(<<>>, other)
BY DEF Annotated

LEMMA LoadsCounted ==
  ASSUME NEW ls \in [Kinds -> Nat], NEW kind \in Kinds
  PROVE  /\ OneMore(ls, kind) \in [Kinds -> Nat] /\ OneMore(ls, kind)[kind] > 0
         /\ \A k \in Kinds : k # kind => OneMore(ls, kind)[k] = ls[k] /\ OneFewer(ls, kind)[k] = ls[k]
         /\ \A k \in Kinds : ls[k] > 0 => OneMore(ls, kind)[k] > 0
         /\ ls[kind] > 0 => OneFewer(ls, kind) \in [Kinds -> Nat]
BY DEF OneMore, OneFewer

LEMMA LoadKindTyped == ASSUME NEW at PROVE LoadKind(at) \in Kinds
BY DEF LoadKind, Kinds

LEMMA DialogInitInv == DialogInit => DialogInv
<1> SUFFICES ASSUME DialogInit PROVE DialogInv
  OBVIOUS
<1>1. loads \in [Kinds -> Nat]
  BY DEF DialogInit, Kinds
<1>2. sent = [i \in Imports |-> [at |-> sent[i].at, rows |-> sent[i].rows, opening |-> sent[i].opening]]
      /\ \A i \in Imports : sent[i].at = "idle"
  BY DEF DialogInit, NoImport
<1>3. dup = Annotated(rows, existing)
  BY DEF DialogInit, Annotated
<1>4. ~importing /\ ~untold /\ ~doubled /\ ~swept
        /\ {importing, untold, doubled, swept, doubt} \subseteq BOOLEAN
  BY DEF DialogInit
<1> QED
  BY <1>1, <1>2, <1>3, <1>4 DEF DialogInv, DialogTyped, FlagsOwed, OneImport, UntoldFlying, ImportsApart,
       Flying

-----------------------------------------------------------------------------
\* Steps that do not touch the imports.
LEMMA ImportsKept ==
  ASSUME DialogInv, UNCHANGED <<importing, sent, dialogHistory>>
  PROVE  OneImport' /\ UntoldFlying' /\ ImportsApart'
         /\ (loads' \in [Kinds -> Nat] => DialogTyped')
<1>1. UNCHANGED <<opening, untold, doubled, swept, doubt>>
  BY DEF dialogHistory
<1> QED
  BY <1>1 DEF DialogInv, DialogTyped, OneImport, UntoldFlying, ImportsApart, Flying

LEMMA OpenDialogInv == DialogInv /\ OpenDialog => DialogInv'
<1> SUFFICES ASSUME DialogInv, OpenDialog PROVE DialogInv'
  OBVIOUS
<1>1. loads' = OneMore(loads, LoadKind(site)) /\ loads \in [Kinds -> Nat]
      /\ UNCHANGED <<importing, sent, dialogHistory>>
  BY DEF OpenDialog, DialogInv, DialogTyped
<1>2. loads' \in [Kinds -> Nat] /\ FlagsOwed'
  BY <1>1, LoadsCounted, LoadKindTyped DEF FlagsOwed
<1> QED
  BY <1>1, <1>2, ImportsKept DEF DialogInv

LEMMA CloseBareInv == DialogInv /\ CloseBare => DialogInv'
<1> SUFFICES ASSUME DialogInv, CloseBare PROVE DialogInv'
  OBVIOUS
<1>1. UNCHANGED <<step, rows, dup, existing, site, importing, fileReader, loads, sent, dialogHistory>>
  BY DEF CloseBare
<1> QED
  BY <1>1, ImportsKept DEF DialogInv, DialogTyped, FlagsOwed, Annotated

LEMMA PreviewInv ==
  ASSUME DialogInv, NEW list, PreviewRows(list, existing),
         UNCHANGED <<existing, importing, loads, sent, dialogHistory>>
  PROVE  DialogInv'
<1>1. FlagsOwed'
  BY DEF PreviewRows, FlagsOwed, Annotated
<1> QED
  BY <1>1, ImportsKept DEF DialogInv, DialogTyped

LEMMA FileReadInv == DialogInv /\ FileRead => DialogInv'
<1> SUFFICES ASSUME DialogInv, FileRead PROVE DialogInv'
  OBVIOUS
<1>1. loads' = OneMore(loads, LoadKind(fileReader.site)) /\ loads \in [Kinds -> Nat]
      /\ UNCHANGED <<importing, sent, dialogHistory>>
  BY DEF FileRead, DialogInv, DialogTyped
<1>2. loads' \in [Kinds -> Nat] /\ FlagsOwed'
  BY <1>1, LoadsCounted, LoadKindTyped DEF FlagsOwed
<1> QED
  BY <1>1, <1>2, ImportsKept DEF DialogInv

LEMMA PickOrRefuseInv == DialogInv /\ (PickFile \/ FileRefused) => DialogInv'
<1> SUFFICES ASSUME DialogInv, PickFile \/ FileRefused PROVE DialogInv'
  OBVIOUS
<1>1. UNCHANGED <<rows, dup, existing, importing, loads, sent, dialogHistory>>
  BY DEF PickFile, FileRefused
<1> QED
  BY <1>1, ImportsKept DEF DialogInv, DialogTyped, FlagsOwed, Annotated

\* Selecting a site may begin one more load.
LEMMA SelectSiteLoads ==
  ASSUME NEW s, NEW rest \in [Kinds -> Nat], SelectSite(s, rest)
  PROVE  loads' \in [Kinds -> Nat] /\ \A k \in Kinds : rest[k] > 0 => loads'[k] > 0
BY LoadsCounted, LoadKindTyped DEF SelectSite

LEMMA ChooseSiteInv == ASSUME DialogInv, NEW s \in Sites, ChooseSite(s) PROVE DialogInv'
<1>1. SelectSite(s, loads) /\ loads \in [Kinds -> Nat]
      /\ UNCHANGED <<rows, dup, existing, importing, sent, dialogHistory>>
  BY DEF ChooseSite, DialogInv, DialogTyped
<1>2. loads' \in [Kinds -> Nat] /\ \A k \in Kinds : loads[k] > 0 => loads'[k] > 0
  BY <1>1, SelectSiteLoads
<1>3. FlagsOwed'
  BY <1>1, <1>2 DEF DialogInv, FlagsOwed, Annotated
<1> QED
  BY <1>1, <1>2, <1>3, ImportsKept DEF DialogInv

LEMMA SitesAnsweredInv ==
  ASSUME DialogInv, NEW kind \in {"early", "sites"}, SitesAnswered(kind) PROVE DialogInv'
<1> DEFINE fewer == OneFewer(loads, kind)
           rest == OneMore(fewer, "cameras")
<1>1. loads[kind] > 0 /\ loads \in [Kinds -> Nat] /\ kind \in Kinds /\ "cameras" \in Kinds
      /\ UNCHANGED <<importing, sent, dialogHistory>>
  BY DEF SitesAnswered, DialogInv, DialogTyped, Kinds
<1>2. fewer \in [Kinds -> Nat]
  BY <1>1, LoadsCounted
<1>3. rest \in [Kinds -> Nat] /\ rest["cameras"] > 0
  <2> HIDE DEF fewer
  <2> QED
    BY <1>1, <1>2, LoadsCounted
<1>4. SelectSite(FirstSite, rest) \/ loads' = rest
  BY DEF SitesAnswered
<1>5. loads' \in [Kinds -> Nat] /\ loads'["cameras"] > 0
  <2> HIDE DEF rest
  <2> QED
    BY <1>1, <1>3, <1>4, SelectSiteLoads
<1>6. FlagsOwed'
  BY <1>1, <1>5 DEF FlagsOwed
<1> QED
  BY <1>1, <1>5, <1>6, ImportsKept DEF DialogInv

LEMMA CamerasAnsweredInv == DialogInv /\ CamerasAnswered => DialogInv'
<1> SUFFICES ASSUME DialogInv, CamerasAnswered PROVE DialogInv'
  OBVIOUS
<1>1. loads.cameras > 0 /\ loads' = OneFewer(loads, "cameras") /\ loads \in [Kinds -> Nat]
        /\ "cameras" \in Kinds
      /\ UNCHANGED <<importing, sent, dialogHistory>>
  BY DEF CamerasAnswered, DialogInv, DialogTyped, Kinds
<1>2. loads["cameras"] > 0
  BY <1>1
<1>3. loads' \in [Kinds -> Nat]
  BY <1>1, <1>2, LoadsCounted
<1>4. FlagsOwed'
  BY DEF CamerasAnswered, PreviewRows, FlagsOwed, Annotated
<1> QED
  BY <1>1, <1>3, <1>4, ImportsKept DEF DialogInv

-----------------------------------------------------------------------------
LEMMA CloseDialogInv == DialogInv /\ CloseDialog => DialogInv'
<1> SUFFICES ASSUME DialogInv, CloseDialog PROVE DialogInv'
  OBVIOUS
<1>1. /\ PreviewRows(<<>>, existing) /\ ~importing' /\ importing' \in BOOLEAN
      /\ (doubt' <=> (doubt \/ importing)) /\ doubt' \in BOOLEAN
      /\ UNCHANGED <<loads, sent, untold, doubled, swept>>
  BY DEF CloseDialog
<1>2. FlagsOwed'
  BY <1>1, NoRowsNoFlags DEF PreviewRows, FlagsOwed
<1>3. DialogTyped'
  BY <1>1 DEF DialogInv, DialogTyped
<1>4. OneImport' /\ UntoldFlying' /\ ImportsApart'
  BY <1>1 DEF DialogInv, OneImport, UntoldFlying, ImportsApart, Flying
<1> QED
  BY <1>2, <1>3, <1>4 DEF DialogInv

\* The other imports stay as they are.
LEMMA OneSent ==
  ASSUME DialogTyped, NEW i \in Imports, NEW place, NEW list, NEW o,
         sent' = [sent EXCEPT ![i] = [at |-> place, rows |-> list, opening |-> o]]
  PROVE  /\ sent' = [j \in Imports |-> [at |-> sent'[j].at, rows |-> sent'[j].rows,
              opening |-> sent'[j].opening]]
         /\ sent'[i].at = place /\ sent'[i].rows = list /\ sent'[i].opening = o
         /\ \A j \in Imports : j # i => sent'[j] = sent[j]
BY DEF DialogTyped

LEMMA HandleImportInv == ASSUME DialogInv, NEW i \in Imports, HandleImport(i) PROVE DialogInv'
<1>1. /\ ~importing /\ importing' = TRUE
      /\ sent' = [sent EXCEPT ![i] = [at |-> "sent", rows |-> ToSend, opening |-> opening]]
      /\ UNCHANGED <<rows, dup, existing, loads, opening, untold, doubled, swept, doubt>>
  BY DEF HandleImport, MayImport, dialogHistory
<1>2. /\ sent' = [j \in Imports |-> [at |-> sent'[j].at, rows |-> sent'[j].rows,
           opening |-> sent'[j].opening]]
      /\ sent'[i].at = "sent" /\ sent'[i].opening = opening
      /\ \A j \in Imports : j # i => sent'[j] = sent[j]
  BY <1>1, OneSent DEF DialogInv
<1>3. ~doubt => \A j \in Imports : ~Flying(j)
  BY <1>1 DEF DialogInv, OneImport
<1>4. DialogTyped'
  BY <1>1, <1>2 DEF DialogInv, DialogTyped
<1>5. OneImport'
  BY <1>1, <1>2, <1>3 DEF OneImport, Flying
<1>6. UntoldFlying'
  BY <1>1, <1>3 DEF DialogInv, UntoldFlying, Flying
<1>7. FlagsOwed' /\ ImportsApart'
  BY <1>1 DEF DialogInv, FlagsOwed, Annotated, ImportsApart
<1> QED
  BY <1>4, <1>5, <1>6, <1>7 DEF DialogInv

LEMMA ServeImportInv == ASSUME DialogInv, NEW i \in Imports, ServeImport(i) PROVE DialogInv'
<1>1. /\ sent[i].at = "sent" /\ (untold' <=> (untold \/ HasPush(sent[i].rows)))
      /\ (doubled' <=> (doubled \/ (untold /\ HasPush(sent[i].rows))))
      /\ untold' \in BOOLEAN /\ doubled' \in BOOLEAN
      /\ UNCHANGED <<rows, dup, existing, importing, loads, opening, swept, doubt>>
  BY DEF ServeImport
<1>2. sent' = [sent EXCEPT ![i] = [at |-> "made", rows |-> sent[i].rows, opening |-> sent[i].opening]]
  <2>1. sent' = [sent EXCEPT ![i].at = "made"]
    BY DEF ServeImport
  <2>2. sent[i] = [at |-> sent[i].at, rows |-> sent[i].rows, opening |-> sent[i].opening]
    BY DEF DialogInv, DialogTyped
  <2>3. [sent[i] EXCEPT !.at = "made"] = [at |-> "made", rows |-> sent[i].rows, opening |-> sent[i].opening]
    BY <2>2
  <2> QED
    BY <2>1, <2>3
<1>3. /\ sent' = [j \in Imports |-> [at |-> sent'[j].at, rows |-> sent'[j].rows,
           opening |-> sent'[j].opening]]
      /\ sent'[i].at = "made" /\ sent'[i].rows = sent[i].rows /\ sent'[i].opening = sent[i].opening
      /\ \A j \in Imports : j # i => sent'[j] = sent[j]
  BY <1>2, OneSent DEF DialogInv
<1>4. DialogTyped'
  BY <1>1, <1>3 DEF DialogInv, DialogTyped
<1>5. OneImport'
  BY <1>1, <1>3 DEF DialogInv, OneImport, Flying
<1>6. ~doubt => ~untold
  BY <1>1 DEF DialogInv, OneImport, UntoldFlying, Flying
<1>7. UntoldFlying' /\ ImportsApart'
  BY <1>1, <1>3, <1>6 DEF DialogInv, UntoldFlying, ImportsApart
<1>8. FlagsOwed'
  BY <1>1 DEF DialogInv, FlagsOwed, Annotated
<1> QED
  BY <1>4, <1>5, <1>7, <1>8 DEF DialogInv

LEMMA ImportAnsweredInv == ASSUME DialogInv, NEW i \in Imports, ImportAnswered(i) PROVE DialogInv'
<1>1. /\ sent[i].at = "made" /\ sent' = [sent EXCEPT ![i] = [at |-> "idle", rows |-> {}, opening |-> 0]]
      /\ importing' = FALSE /\ untold' = FALSE /\ swept' \in BOOLEAN
      /\ (swept' <=> (swept \/ (sent[i].opening # opening /\ open)))
      /\ UNCHANGED <<existing, loads, opening, doubled, doubt>>
  BY DEF ImportAnswered, NoImport
<1>2. /\ sent' = [j \in Imports |-> [at |-> sent'[j].at, rows |-> sent'[j].rows,
           opening |-> sent'[j].opening]]
      /\ sent'[i].at = "idle" /\ \A j \in Imports : j # i => sent'[j] = sent[j]
  BY <1>1, OneSent DEF DialogInv
<1>3. DialogTyped'
  BY <1>1, <1>2 DEF DialogInv, DialogTyped
<1>4. ~doubt => (\A j \in Imports : ~Flying(j)') /\ sent[i].opening = opening
  BY <1>1, <1>2 DEF DialogInv, OneImport, Flying
<1>5. OneImport' /\ UntoldFlying' /\ ImportsApart'
  BY <1>1, <1>4 DEF DialogInv, OneImport, UntoldFlying, ImportsApart
<1>6. FlagsOwed'
  <2>1. UNCHANGED <<rows, dup>> \/ PreviewRows(<<>>, existing)
    BY DEF ImportAnswered
  <2>2. CASE UNCHANGED <<rows, dup>>
    BY <1>1, <2>2 DEF DialogInv, FlagsOwed, Annotated
  <2>3. CASE PreviewRows(<<>>, existing)
    BY <1>1, <2>3 DEF PreviewRows, FlagsOwed, Annotated
  <2> QED
    BY <2>1, <2>2, <2>3
<1> QED
  BY <1>3, <1>5, <1>6 DEF DialogInv

LEMMA ImportFailedInv == ASSUME DialogInv, NEW i \in Imports, ImportFailed(i) PROVE DialogInv'
<1>1. /\ sent[i].at # "idle" /\ sent' = [sent EXCEPT ![i] = [at |-> "idle", rows |-> {}, opening |-> 0]]
      /\ importing' = FALSE /\ doubt' \in BOOLEAN
      /\ (doubt' <=> (doubt \/ (sent[i].at = "made" /\ HasPush(sent[i].rows))))
      /\ UNCHANGED <<rows, dup, existing, loads, opening, untold, doubled, swept>>
  BY DEF ImportFailed, NoImport
<1>2. /\ sent' = [j \in Imports |-> [at |-> sent'[j].at, rows |-> sent'[j].rows,
           opening |-> sent'[j].opening]]
      /\ sent'[i].at = "idle" /\ \A j \in Imports : j # i => sent'[j] = sent[j]
  BY <1>1, OneSent DEF DialogInv
<1>3. DialogTyped'
  BY <1>1, <1>2 DEF DialogInv, DialogTyped
<1>4. ~doubt => \A j \in Imports : ~Flying(j)'
  BY <1>1, <1>2 DEF DialogInv, OneImport, Flying
<1>5. ~doubt' => ~doubt /\ ~untold
  BY <1>1 DEF DialogInv, OneImport, UntoldFlying, Flying
<1>6. OneImport' /\ UntoldFlying' /\ ImportsApart'
  BY <1>1, <1>4, <1>5 DEF DialogInv, OneImport, UntoldFlying, ImportsApart
<1>7. FlagsOwed'
  BY <1>1 DEF DialogInv, FlagsOwed, Annotated
<1> QED
  BY <1>3, <1>6, <1>7 DEF DialogInv

LEMMA DialogStepInv == DialogInv /\ [DialogNext]_dialogVars => DialogInv'
<1> SUFFICES ASSUME DialogInv, [DialogNext]_dialogVars PROVE DialogInv'
  OBVIOUS
<1>1. CASE UNCHANGED dialogVars
  BY <1>1, ImportsKept DEF dialogVars, DialogInv, DialogTyped, FlagsOwed, Annotated
<1>2. CASE OpenDialog \/ CloseDialog \/ CloseBare
  BY <1>2, OpenDialogInv, CloseDialogInv, CloseBareInv
<1>3. CASE BackToUpload
  BY <1>3, PreviewInv DEF BackToUpload
<1>4. CASE PickFile \/ FileRefused
  BY <1>4, PickOrRefuseInv
<1>5. CASE FileRead
  BY <1>5, FileReadInv
<1>6. ASSUME NEW k \in DOMAIN rows, EditRow(k) PROVE DialogInv'
  BY <1>6, PreviewInv DEF EditRow
<1>7. ASSUME NEW k \in DOMAIN rows, RemoveRow(k) PROVE DialogInv'
  BY <1>7, PreviewInv DEF RemoveRow
<1>8. CASE SitesAnswered("early") \/ SitesAnswered("sites")
  BY <1>8, SitesAnsweredInv
<1>9. CASE CamerasAnswered
  BY <1>9, CamerasAnsweredInv
<1>10. ASSUME NEW s \in Sites, ChooseSite(s) PROVE DialogInv'
  BY <1>10, ChooseSiteInv
<1>11. ASSUME NEW i \in Imports, HandleImport(i) \/ ServeImport(i) \/ ImportAnswered(i) \/ ImportFailed(i)
       PROVE  DialogInv'
  BY <1>11, HandleImportInv, ServeImportInv, ImportAnsweredInv, ImportFailedInv
<1> QED
  BY <1>1, <1>2, <1>3, <1>4, <1>5, <1>6, <1>7, <1>8, <1>9, <1>10, <1>11 DEF DialogNext

\* As long as there is no doubt, one import at a time, with rows nobody has made yet.
\* (handleImport, bulk-import-dialog.tsx:640)
THEOREM DialogInvHolds == DialogSpec => []DialogInv
  BY DialogInitInv, DialogStepInv, PTL DEF DialogSpec

\* Push rows are made twice, and an opening is ended by another one's answer, only if the
\* dialog was closed while importing or an answer got lost; and flags are the list's.
\* (handleImport and detectDuplicates, bulk-import-dialog.tsx:640)
THEOREM ImportDialogSoundHolds == DialogSpec => []ImportDialogSound
<1>1. DialogInv => ImportDialogSound
  <2> SUFFICES ASSUME DialogInv PROVE ImportDialogSound
    OBVIOUS
  <2>1. ASSUME loads = [early |-> 0, sites |-> 0, cameras |-> 0] PROVE \A kind \in Kinds : ~(loads[kind] > 0)
    BY <2>1 DEF Kinds
  <2> QED
    BY <2>1 DEF DialogInv, FlagsOwed, ImportDialogSound, FlagsSettled
<1> QED
  BY <1>1, DialogInvHolds, PTL

\* Lists of bounded length, as sequences.
LEMMA BoundedSeqs ==
  ASSUME NEW S, NEW n \in Nat, NEW q
  PROVE  q \in BoundedSeq(S, n) <=> q \in Seq(S) /\ Len(q) <= n
<1>1. ASSUME q \in BoundedSeq(S, n) PROVE q \in Seq(S) /\ Len(q) <= n
  <2>1. PICK m \in 0..n : q \in [1..m -> S]
    BY <1>1 DEF BoundedSeq, SeqOf
  <2> QED
    BY <2>1
<1>2. ASSUME q \in Seq(S), Len(q) <= n PROVE q \in BoundedSeq(S, n)
  <2>1. Len(q) \in 0..n /\ q \in [1..Len(q) -> S]
    BY <1>2
  <2> QED
    BY <2>1 DEF BoundedSeq, SeqOf
<1> QED
  BY <1>1, <1>2

\* The preview of a list: its rows, each with a flag.
Previewed ==
  /\ rows \in DialogRows /\ existing \subseteq FileUrls
  /\ dup \in Seq(BOOLEAN) /\ Len(dup) = Len(rows)

\* The other variables.
DialogPlaces ==
  /\ open \in BOOLEAN /\ step \in {"upload", "preview", "result"} /\ site \in Sites \cup {None}
  /\ fileReader # None => fileReader.rows \in DialogRows /\ fileReader.known \subseteq FileUrls
  /\ \A i \in Imports : sent[i].at \in {"idle", "sent", "made"} /\ sent[i].rows \subseteq FileUrls \cup {ByPush}
  /\ opening \in 0..MaxSessions

DialogLoads == loads \in [Kinds -> 0..MaxLoads]

LEMMA PreviewTyped ==
  ASSUME NEW list \in DialogRows, NEW known, PreviewRows(list, known), existing' \subseteq FileUrls
  PROVE  Previewed'
<1>1. list \in Seq(FileUrls \cup {ByPush}) /\ rows' = list /\ dup' = Annotated(list, known)
  BY BoundedSeqs, DialogAssumption DEF PreviewRows, DialogRows
<1>2. DOMAIN list = 1..Len(list) /\ Len(list) \in Nat
  BY <1>1
<1>3. Annotated(list, known) \in [1..Len(list) -> BOOLEAN]
  <2>1. Annotated(list, known) \in [DOMAIN list -> BOOLEAN]
    BY Zenon DEF Annotated
  <2> QED
    BY <1>2, <2>1
<1>4. dup' \in Seq(BOOLEAN) /\ Len(dup') = Len(list)
  <2>1. PICK flags \in [1..Len(list) -> BOOLEAN] : flags = dup'
    BY <1>1, <1>3
  <2>2. flags \in Seq(BOOLEAN) /\ Len(flags) = Len(list)
    BY <1>2
  <2> QED
    BY <2>1, <2>2
<1> QED
  BY <1>1, <1>4 DEF Previewed

LEMMA NoRowsTyped == <<>> \in DialogRows
<1>1. <<>> \in Seq(FileUrls \cup {ByPush}) /\ Len(<<>>) = 0
  OBVIOUS
<1>2. MaxFileRows \in Nat /\ Len(<<>>) <= MaxFileRows
  BY <1>1, DialogAssumption
<1> QED
  BY <1>1, <1>2, BoundedSeqs, Zenon DEF DialogRows

\* What the user changes in the preview.
LEMMA EditedTyped ==
  ASSUME Previewed, NEW k \in DOMAIN rows
  PROVE  /\ \A u \in FileUrls : [rows EXCEPT ![k] = u] \in DialogRows
         /\ RemoveAt(rows, k) \in DialogRows
<1>1. rows \in Seq(FileUrls \cup {ByPush}) /\ Len(rows) <= MaxFileRows /\ MaxFileRows \in Nat
  BY BoundedSeqs, DialogAssumption DEF Previewed, DialogRows
<1>2. k \in 1..Len(rows)
  BY <1>1
<1>3. ASSUME NEW u \in FileUrls PROVE [rows EXCEPT ![k] = u] \in DialogRows
  <2>1. [rows EXCEPT ![k] = u] \in Seq(FileUrls \cup {ByPush}) /\ Len([rows EXCEPT ![k] = u]) = Len(rows)
    BY <1>1, <1>2
  <2> QED
    BY <1>1, <2>1, BoundedSeqs DEF DialogRows
<1>4. RemoveAt(rows, k) \in Seq(FileUrls \cup {ByPush}) /\ Len(RemoveAt(rows, k)) = Len(rows) - 1
  BY <1>1, <1>2, RemoveAtSeq
<1>5. Len(rows) - 1 <= MaxFileRows
  BY <1>1
<1> QED
  BY <1>1, <1>3, <1>4, <1>5, BoundedSeqs DEF DialogRows

\* Each step, on the preview.
LEMMA PreviewedStep == Previewed /\ DialogPlaces /\ [DialogNext]_dialogVars => Previewed'
<1> SUFFICES ASSUME Previewed, DialogPlaces, [DialogNext]_dialogVars PROVE Previewed'
  OBVIOUS
<1>1. ASSUME UNCHANGED <<rows, dup, existing>> PROVE Previewed'
  BY <1>1 DEF Previewed
<1>2. CASE OpenDialog \/ CloseBare \/ PickFile \/ FileRefused \/ SitesAnswered("early") \/ SitesAnswered("sites")
           \/ UNCHANGED dialogVars
  BY <1>1, <1>2 DEF OpenDialog, CloseBare, PickFile, FileRefused, SitesAnswered, dialogVars
<1>3. CASE CloseDialog \/ BackToUpload
  BY <1>3, PreviewTyped, NoRowsTyped DEF CloseDialog, BackToUpload, Previewed
<1>4. CASE FileRead
  BY <1>4, PreviewTyped DEF FileRead, Previewed, DialogPlaces
<1>5. ASSUME NEW k \in DOMAIN rows, EditRow(k) \/ RemoveRow(k) PROVE Previewed'
  BY <1>5, PreviewTyped, EditedTyped DEF EditRow, RemoveRow, Previewed
<1>6. CASE CamerasAnswered
  BY <1>6, PreviewTyped DEF CamerasAnswered, Previewed
<1>7. ASSUME NEW s \in Sites, ChooseSite(s) PROVE Previewed'
  BY <1>1, <1>7 DEF ChooseSite
<1>8. ASSUME NEW i \in Imports, HandleImport(i) \/ ServeImport(i) \/ ImportFailed(i) PROVE Previewed'
  BY <1>1, <1>8 DEF HandleImport, ServeImport, ImportFailed
<1>9. ASSUME NEW i \in Imports, ImportAnswered(i) PROVE Previewed'
  <2>1. existing' = existing /\ (UNCHANGED <<rows, dup>> \/ PreviewRows(<<>>, existing))
    BY <1>9 DEF ImportAnswered
  <2> QED
    BY <1>1, <2>1, PreviewTyped, NoRowsTyped DEF Previewed
<1> QED
  BY <1>2, <1>3, <1>4, <1>5, <1>6, <1>7, <1>8, <1>9 DEF DialogNext

\* Each step, on the loads: a load begins where there is room for it.
LEMMA OneMoreTyped ==
  ASSUME NEW ls \in [Kinds -> 0..MaxLoads], NEW kind \in Kinds, NEW less \in Kinds
  PROVE  /\ ls[kind] < MaxLoads => OneMore(ls, kind) \in [Kinds -> 0..MaxLoads]
         /\ ls[kind] > 0 => /\ OneFewer(ls, kind) \in [Kinds -> 0..MaxLoads]
                            /\ OneFewer(ls, kind)[less] <= ls[less]
BY DialogAssumption DEF OneMore, OneFewer

LEMMA LoadsStep == DialogLoads /\ [DialogNext]_dialogVars => DialogLoads'
<1> SUFFICES ASSUME DialogLoads, [DialogNext]_dialogVars PROVE DialogLoads'
  OBVIOUS
<1>1. loads \in [Kinds -> 0..MaxLoads] /\ FirstSite # None /\ None \notin Sites
      /\ "early" \in Kinds /\ "sites" \in Kinds /\ "cameras" \in Kinds
  BY DialogAssumption DEF DialogLoads, Kinds
<1>2. ASSUME NEW kind \in Kinds, RoomFor(kind), loads' = OneMore(loads, kind) PROVE DialogLoads'
  BY <1>1, <1>2, OneMoreTyped DEF DialogLoads, RoomFor
<1>3. CASE OpenDialog \/ FileRead
  BY <1>2, <1>3, LoadKindTyped DEF OpenDialog, FileRead
<1>4. ASSUME NEW s \in Sites, ChooseSite(s) PROVE DialogLoads'
  BY <1>1, <1>2, <1>4, LoadKindTyped DEF ChooseSite, SelectSite, DialogLoads
<1>5. ASSUME NEW kind \in {"early", "sites"}, SitesAnswered(kind) PROVE DialogLoads'
  <2>1. PICK fewer : fewer = OneFewer(loads, kind)
    OBVIOUS
  <2>2. PICK rest : rest = OneMore(fewer, "cameras")
    OBVIOUS
  <2>3. /\ loads[kind] > 0 /\ RoomFor("cameras") /\ kind \in Kinds
        /\ loads' = rest \/ (kind = "early" /\ SelectSite(FirstSite, rest))
    BY <1>1, <1>5, <2>1, <2>2 DEF SitesAnswered
  <2>4. fewer \in [Kinds -> 0..MaxLoads] /\ \A k \in Kinds : fewer[k] <= loads[k]
    BY <1>1, <2>1, <2>3, OneMoreTyped
  <2>5. fewer["cameras"] < MaxLoads
    BY <1>1, <2>3, <2>4, DialogAssumption DEF RoomFor
  <2>6. rest \in [Kinds -> 0..MaxLoads]
    BY <1>1, <2>2, <2>4, <2>5, OneMoreTyped
  <2>7. CASE loads' = rest
    BY <2>6, <2>7 DEF DialogLoads
  <2>8. CASE RoomFor("sites") /\ loads' = OneMore(rest, "sites")
    <3>1. rest["sites"] = fewer["sites"]
      BY <1>1, <2>2, <2>4 DEF OneMore
    <3>2. rest["sites"] < MaxLoads
      BY <1>1, <2>4, <2>8, <3>1, DialogAssumption DEF RoomFor
    <3> QED
      BY <1>1, <2>6, <2>8, <3>2, OneMoreTyped DEF DialogLoads
  <2> QED
    BY <1>1, <2>3, <2>7, <2>8 DEF SelectSite, LoadKind
<1>6. CASE CamerasAnswered
  <2>1. loads["cameras"] > 0 /\ loads' = OneFewer(loads, "cameras")
    BY <1>6 DEF CamerasAnswered
  <2> QED
    BY <1>1, <2>1, OneMoreTyped DEF DialogLoads
<1>7. ASSUME UNCHANGED loads PROVE DialogLoads'
  BY <1>7 DEF DialogLoads
<1>8. CASE CloseDialog \/ CloseBare \/ BackToUpload \/ PickFile \/ FileRefused \/ UNCHANGED dialogVars
  BY <1>7, <1>8 DEF CloseDialog, CloseBare, BackToUpload, PickFile, FileRefused, dialogVars
<1>9. ASSUME NEW k \in DOMAIN rows, EditRow(k) \/ RemoveRow(k) PROVE DialogLoads'
  BY <1>7, <1>9 DEF EditRow, RemoveRow
<1>10. ASSUME NEW i \in Imports, HandleImport(i) \/ ServeImport(i) \/ ImportAnswered(i) \/ ImportFailed(i)
       PROVE  DialogLoads'
  BY <1>7, <1>10 DEF HandleImport, ServeImport, ImportAnswered, ImportFailed
<1> QED
  BY <1>3, <1>4, <1>5, <1>6, <1>8, <1>9, <1>10 DEF DialogNext

\* Each step, on the rest.
LEMMA PlacesStep ==
  ASSUME DialogTyped, Previewed, DialogPlaces, [DialogNext]_dialogVars
  PROVE  DialogPlaces'
<1>1. MaxSessions \in Nat /\ FirstSite \in Sites
  BY DialogAssumption
<1>2. ASSUME UNCHANGED <<fileReader, sent, opening>>, open' \in BOOLEAN, step' \in {"upload", "preview", "result"},
             site' \in Sites \cup {None}
      PROVE  DialogPlaces'
  BY <1>2 DEF DialogPlaces
<1>3. open \in BOOLEAN /\ step \in {"upload", "preview", "result"} /\ site \in Sites \cup {None}
      /\ opening \in 0..MaxSessions
  BY DEF DialogPlaces
<1>4. CASE OpenDialog \/ CloseBare \/ BackToUpload \/ CamerasAnswered
  BY <1>2, <1>3, <1>4 DEF OpenDialog, CloseBare, BackToUpload, CamerasAnswered, dialogHistory
<1>5. CASE CloseDialog
  <2>1. /\ opening' = opening + 1 /\ opening < MaxSessions /\ open' = FALSE /\ step' = "upload"
        /\ UNCHANGED <<site, fileReader, sent>>
    BY <1>5 DEF CloseDialog
  <2>2. opening' \in 0..MaxSessions
    BY <1>1, <1>3, <2>1
  <2>3. open' \in BOOLEAN
    BY <2>1
  <2> QED
    BY <2>1, <2>2, <2>3 DEF DialogPlaces
<1>6. CASE PickFile
  <2>1. PICK file \in DialogRows : fileReader' = [rows |-> file, known |-> existing, site |-> site]
    BY <1>6 DEF PickFile
  <2>2. UNCHANGED <<open, step, site, sent, opening>>
    BY <1>6 DEF PickFile, dialogHistory
  <2> QED
    BY <2>1, <2>2 DEF DialogPlaces, Previewed
<1>7. CASE FileRead \/ FileRefused
  <2>1. fileReader' = None /\ UNCHANGED <<open, site, sent, opening>> /\ step' \in {"preview", step}
    BY <1>7 DEF FileRead, FileRefused, dialogHistory
  <2> QED
    BY <2>1 DEF DialogPlaces
<1>8. ASSUME NEW k \in DOMAIN rows, EditRow(k) \/ RemoveRow(k) PROVE DialogPlaces'
  BY <1>2, <1>3, <1>8 DEF EditRow, RemoveRow, dialogHistory
<1>9. ASSUME NEW kind \in {"early", "sites"}, SitesAnswered(kind) PROVE DialogPlaces'
  BY <1>1, <1>2, <1>3, <1>9 DEF SitesAnswered, SelectSite, dialogHistory
<1>10. ASSUME NEW s \in Sites, ChooseSite(s) PROVE DialogPlaces'
  BY <1>2, <1>3, <1>10 DEF ChooseSite, SelectSite, dialogHistory
<1>11. CASE UNCHANGED dialogVars
  BY <1>2, <1>3, <1>11 DEF dialogVars, dialogHistory
<1>12. ASSUME NEW i \in Imports, NEW place \in {"idle", "sent", "made"}, NEW list, NEW o,
              list \subseteq FileUrls \cup {ByPush},
              sent' = [sent EXCEPT ![i] = [at |-> place, rows |-> list, opening |-> o]],
              UNCHANGED <<site, fileReader, opening>>, open' \in BOOLEAN, step' \in {"upload", "preview", "result"}
       PROVE  DialogPlaces'
  <2>1. /\ sent'[i].at = place /\ sent'[i].rows = list /\ \A j \in Imports : j # i => sent'[j] = sent[j]
    BY <1>12, OneSent
  <2> QED
    BY <1>12, <2>1 DEF DialogPlaces
<1>13. ASSUME NEW i \in Imports, HandleImport(i) PROVE DialogPlaces'
  <2>1. ToSend \subseteq FileUrls \cup {ByPush}
    <3>1. rows \in Seq(FileUrls \cup {ByPush})
      BY BoundedSeqs, DialogAssumption DEF Previewed, DialogRows
    <3> QED
      BY <3>1 DEF ToSend
  <2>2. /\ sent' = [sent EXCEPT ![i] = [at |-> "sent", rows |-> ToSend, opening |-> opening]]
        /\ UNCHANGED <<open, step, site, fileReader, opening>>
    BY <1>13 DEF HandleImport, dialogHistory
  <2> QED
    BY <1>3, <1>12, <2>1, <2>2
<1>14. ASSUME NEW i \in Imports, ServeImport(i) PROVE DialogPlaces'
  <2>1. sent[i] = [at |-> sent[i].at, rows |-> sent[i].rows, opening |-> sent[i].opening]
    BY DEF DialogTyped
  <2>2. sent' = [sent EXCEPT ![i] = [sent[i] EXCEPT !.at = "made"]] /\ UNCHANGED <<open, step, site, fileReader, opening>>
    BY <1>14 DEF ServeImport
  <2>3. [sent[i] EXCEPT !.at = "made"] = [at |-> "made", rows |-> sent[i].rows, opening |-> sent[i].opening]
    BY <2>1
  <2>4. sent[i].rows \subseteq FileUrls \cup {ByPush}
    BY DEF DialogPlaces
  <2> QED
    BY <1>3, <1>12, <2>2, <2>3, <2>4
<1>15. ASSUME NEW i \in Imports, ImportAnswered(i) \/ ImportFailed(i) PROVE DialogPlaces'
  <2>1. /\ sent' = [sent EXCEPT ![i] = [at |-> "idle", rows |-> {}, opening |-> 0]]
        /\ UNCHANGED <<site, fileReader, opening>>
        /\ open' \in {open, FALSE} /\ step' \in {step, "upload", "result"}
    BY <1>15 DEF ImportAnswered, ImportFailed, NoImport
  <2> QED
    BY <1>3, <1>12, <2>1
<1> QED
  BY <1>4, <1>5, <1>6, <1>7, <1>8, <1>9, <1>10, <1>11, <1>13, <1>14, <1>15 DEF DialogNext

\* Types, in every reachable state: rows and flags go together, and lists keep to the size
\* of a file.  (BulkImportDialog, bulk-import-dialog.tsx:403)
LEMMA DialogTypesHold == DialogSpec => []DialogTypeOK
<1> DEFINE Typed == DialogInv /\ Previewed /\ DialogPlaces /\ DialogLoads
<1>1. DialogInit => Typed
  <2> SUFFICES ASSUME DialogInit PROVE Typed
    OBVIOUS
  <2>1. rows = <<>> /\ dup = <<>> /\ existing = {} /\ open = FALSE /\ step = "upload" /\ site = None
        /\ fileReader = None /\ sent = [i \in Imports |-> NoImport] /\ opening = 0
        /\ loads = [early |-> 0, sites |-> 0, cameras |-> 0]
    BY DEF DialogInit
  <2>2. Previewed
    BY <2>1, NoRowsTyped DEF Previewed
  <2>3. opening \in 0..MaxSessions /\ 0 \in 0..MaxLoads
    BY <2>1, DialogAssumption
  <2>4. DialogPlaces
    BY <2>1, <2>3 DEF DialogPlaces, NoImport
  <2>5. DialogLoads
    BY <2>1, <2>3 DEF DialogLoads, Kinds
  <2> QED
    BY <2>2, <2>4, <2>5, DialogInitInv
<1>2. Typed /\ [DialogNext]_dialogVars => Typed'
  BY DialogStepInv, PreviewedStep, PlacesStep, LoadsStep DEF DialogInv
<1>3. Typed => DialogTypeOK
  <2> SUFFICES ASSUME Typed PROVE DialogTypeOK
    OBVIOUS
  <2>1. dup \in BoundedSeq(BOOLEAN, MaxFileRows) /\ Len(dup) = Len(rows)
    <3>1. Len(rows) <= MaxFileRows /\ MaxFileRows \in Nat
      BY BoundedSeqs, DialogAssumption DEF Previewed, DialogRows
    <3> QED
      BY <3>1, BoundedSeqs DEF Previewed
  <2>2. importing \in BOOLEAN /\ untold \in BOOLEAN /\ doubled \in BOOLEAN /\ swept \in BOOLEAN /\ doubt \in BOOLEAN
    BY DEF DialogInv, DialogTyped
  <2>3. rows \in DialogRows /\ existing \subseteq FileUrls /\ loads \in [{"early", "sites", "cameras"} -> 0..MaxLoads]
    BY DEF Previewed, DialogLoads, Kinds
  <2> QED
    BY <2>1, <2>2, <2>3 DEF DialogTypeOK, DialogPlaces
<1> QED
  BY <1>1, <1>2, <1>3, PTL DEF DialogSpec
=============================================================================
