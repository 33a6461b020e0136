---------------------- MODULE NotificationFeed_proofs ----------------------
(***************************************************************************)
(* Proofs about NotificationFeed, for any rows, size of page and number of *)
(* requests that go at the same time.                                      *)
(***************************************************************************)
EXTENDS NotificationFeed, FiniteSetTheorems, TLAPS

(***************************************************************************)
(* NotificationFeed.  A page is what its definition by rank says: rows     *)
(* that differ, all above the next cursor, none left out above it.         *)
(***************************************************************************)
LEMMA NoticesFinite ==
  ASSUME NEW S \in SUBSET Notices
  PROVE  IsFiniteSet(S) /\ Cardinality(S) \in Nat /\ \A i \in S : i \in Nat /\ i > 0
<1>1. IsFiniteSet(S)
  BY FeedAssumption, FS_Subset
<1>2. \A i \in S : i \in Nat \ {0}
  BY FeedAssumption
<1>3. QED
  BY <1>1, <1>2, FS_CardinalityType

Rank(i, S) == Cardinality(Newer(i, S))

\* A newer row ranks before an older one.
LEMMA NewerRanksBefore ==
  ASSUME NEW S \in SUBSET Notices, NEW i \in S, NEW j \in S, j > i
  PROVE  Rank(j, S) < Rank(i, S)
<1>1. Newer(i, S) \in SUBSET S /\ IsFiniteSet(Newer(i, S)) /\ j \in Newer(i, S)
  <2>1. Newer(i, S) \in SUBSET S /\ j \in Newer(i, S)
    BY DEF Newer
  <2>2. QED
    BY <2>1, NoticesFinite
<1>2. Newer(j, S) \in SUBSET (Newer(i, S) \ {j})
  BY NoticesFinite DEF Newer
<1>3. IsFiniteSet(Newer(i, S) \ {j}) /\ Cardinality(Newer(i, S) \ {j}) = Cardinality(Newer(i, S)) - 1
  BY <1>1, FS_RemoveElement
<1>4. Cardinality(Newer(j, S)) <= Cardinality(Newer(i, S) \ {j})
  BY <1>2, <1>3, FS_Subset, Zenon
<1>5. Cardinality(Newer(i, S)) \in Nat /\ Cardinality(Newer(j, S)) \in Nat
  <2>1. Newer(i, S) \in SUBSET Notices /\ Newer(j, S) \in SUBSET Notices
    BY DEF Newer
  <2>2. QED
    BY <2>1, NoticesFinite
<1>6. QED
  BY <1>3, <1>4, <1>5 DEF Rank

\* The ranks of the rows of a set are the numbers below its cardinality.
LEMMA RanksComplete ==
  ASSUME NEW S \in SUBSET Notices
  PROVE  /\ \A i \in S : Rank(i, S) \in 0..(Cardinality(S) - 1)
         /\ \A i, j \in S : Rank(i, S) = Rank(j, S) => i = j
         /\ \A n \in 0..(Cardinality(S) - 1) : \E i \in S : Rank(i, S) = n
<1> DEFINE rank == [i \in S |-> Rank(i, S)]
           ranks == 0..(Cardinality(S) - 1)
<1>1. IsFiniteSet(S) /\ Cardinality(S) \in Nat
  BY NoticesFinite
<1>2. ASSUME NEW i \in S PROVE Rank(i, S) \in ranks
  <2>1. Newer(i, S) \in SUBSET (S \ {i})
    BY NoticesFinite DEF Newer
  <2>2. IsFiniteSet(S \ {i}) /\ Cardinality(S \ {i}) = Cardinality(S) - 1
    BY <1>1, FS_RemoveElement
  <2>3. Cardinality(Newer(i, S)) <= Cardinality(S \ {i}) /\ IsFiniteSet(Newer(i, S))
    BY <2>1, <2>2, FS_Subset, Zenon
  <2>4. Cardinality(Newer(i, S)) \in Nat
    BY <2>3, FS_CardinalityType
  <2>5. QED
    BY <1>1, <2>2, <2>3, <2>4 DEF Rank
<1>3. ASSUME NEW i \in S, NEW j \in S, Rank(i, S) = Rank(j, S) PROVE i = j
  <2>1. Rank(i, S) \in Nat /\ i \in Nat /\ j \in Nat
    BY <1>1, <1>2, NoticesFinite
  <2>2. ~(j > i) /\ ~(i > j)
    BY <1>3, <2>1, NewerRanksBefore
  <2>3. QED
    BY <2>1, <2>2
<1>4. rank \in Injection(S, ranks)
  BY <1>2, <1>3 DEF Injection, IsInjective
<1>5. IsFiniteSet(ranks) /\ Cardinality(ranks) = Cardinality(S)
  <2>1. IsFiniteSet(ranks) /\ Cardinality(ranks) = IF 0 > Cardinality(S) - 1
          THEN 0 ELSE Cardinality(S) - 1 - 0 + 1
    BY <1>1, FS_Interval
  <2>2. QED
    BY <1>1, <2>1
<1>6. rank \in Surjection(S, ranks)
  <2> HIDE DEF rank, ranks
  <2>1. QED
    BY <1>4, <1>5, FS_Injection
<1>7. \A n \in ranks : \E i \in S : Rank(i, S) = n
  BY <1>6 DEF Surjection
<1>8. QED
  BY <1>2, <1>3, <1>7

LEMMA NewestRow ==
  ASSUME NEW S \in SUBSET Notices, NEW k \in 1..Cardinality(S)
  PROVE  Newest(S, k) \in S /\ Rank(Newest(S, k), S) = k - 1
<1>1. Cardinality(S) \in Nat
  BY NoticesFinite
<1>2. k - 1 \in 0..(Cardinality(S) - 1)
  BY <1>1
<1>3. PICK i \in S : Rank(i, S) = k - 1
  BY <1>2, RanksComplete
<1>4. QED
  BY <1>3 DEF Newest, Rank

ShownEntries == [id : Notices, read : BOOLEAN]
FeedPages == [items : Seq(ShownEntries), next : Notices \cup {0}]

LEMMA PageRows ==
  ASSUME notices \in [Notices -> {"none", "unread", "read", "cleared"}], NEW from
  PROVE  /\ PageFrom(from) \in FeedPages
         /\ \A k \in DOMAIN PageFrom(from).items :
              /\ PageFrom(from).items[k].id \in RowsBehind(from)
              /\ PageFrom(from).items[k].read <=> notices[PageFrom(from).items[k].id] = "read"
         /\ \A j, k \in DOMAIN PageFrom(from).items :
              PageFrom(from).items[j].id = PageFrom(from).items[k].id => j = k
         /\ PageFrom(from).next # 0 =>
              /\ PageFrom(from).next \in RowsBehind(from)
              /\ \A k \in DOMAIN PageFrom(from).items : PageFrom(from).next < PageFrom(from).items[k].id
         /\ \A i \in RowsBehind(from) : i > PageFrom(from).next =>
              \E k \in DOMAIN PageFrom(from).items : PageFrom(from).items[k].id = i
<1>1. PICK found \in SUBSET Notices : found = RowsBehind(from)
  BY DEF RowsBehind, KeptRows
<1>2. PICK size \in Nat : size = Cardinality(found)
  BY NoticesFinite
<1>3. PICK n \in Nat : n = IF size <= PageSize THEN size ELSE PageSize
  BY FeedAssumption
<1>4. n <= size /\ (size > PageSize => n = PageSize /\ n + 1 <= size) /\ (size <= PageSize => n = size)
  BY <1>3, FeedAssumption
<1>5. PICK items : items = [k \in 1..n |->
       [id |-> Newest(found, k), read |-> notices[Newest(found, k)] = "read"]]
  OBVIOUS
<1>6. PICK next : next = IF size <= PageSize THEN 0 ELSE Newest(found, PageSize + 1)
  OBVIOUS
<1>7. PageFrom(from) = [items |-> items, next |-> next]
  <2> DEFINE rows == [k \in 1..n |-> Newest(found, k)]
  <2>1. PageFrom(from) = [items |-> [k \in DOMAIN rows |->
                                    [id |-> rows[k], read |-> notices[rows[k]] = "read"]],
                          next |-> next]
    BY <1>1, <1>2, <1>3, <1>6 DEF PageFrom
  <2>2. [k \in DOMAIN rows |-> [id |-> rows[k], read |-> notices[rows[k]] = "read"]] = items
    BY <1>5
  <2>3. QED
    BY <2>1, <2>2
<1>8. \A k \in 1..size : Newest(found, k) \in found /\ Rank(Newest(found, k), found) = k - 1
  BY <1>2, NewestRow
<1>9. \A k \in 1..n : k \in 1..size
  BY <1>4
<1>10. /\ items \in Seq(ShownEntries) /\ DOMAIN items = 1..n
       /\ \A k \in 1..n : /\ items[k].id = Newest(found, k) /\ items[k].id \in found
                          /\ items[k].read <=> notices[items[k].id] = "read"
  <2>1. \A k \in 1..n : [id |-> Newest(found, k), read |-> notices[Newest(found, k)] = "read"] \in ShownEntries
    BY <1>8, <1>9 DEF ShownEntries
  <2>2. items \in [1..n -> ShownEntries]
    BY <1>5, <2>1
  <2>3. items \in Seq(ShownEntries) /\ DOMAIN items = 1..n
    BY <2>2
  <2>4. \A k \in 1..n : /\ items[k].id = Newest(found, k)
                        /\ items[k].read = (notices[Newest(found, k)] = "read")
    BY <1>5
  <2>5. \A k \in 1..n : Newest(found, k) \in found
    BY <1>8, <1>9
  <2>6. QED
    BY <2>3, <2>4, <2>5
<1>11. ASSUME NEW j \in 1..n, NEW k \in 1..n, items[j].id = items[k].id PROVE j = k
  <2>1. j - 1 = k - 1
    BY <1>8, <1>9, <1>10, <1>11
  <2>2. QED
    BY <2>1
<1>12. CASE size <= PageSize
  <2>1. next = 0 /\ n = size
    BY <1>3, <1>6, <1>12
  <2>2. ASSUME NEW i \in found PROVE \E k \in 1..n : items[k].id = i
    <3>1. Rank(i, found) \in 0..(size - 1)
      BY <1>2, RanksComplete
    <3>2. PICK k \in 1..n : k = Rank(i, found) + 1
      BY <2>1, <3>1
    <3>3. Rank(Newest(found, k), found) = Rank(i, found)
      BY <1>8, <1>9, <3>1, <3>2
    <3>4. Newest(found, k) = i
      BY <1>8, <1>9, <3>3, RanksComplete
    <3>5. QED
      BY <1>10, <3>4
  <2>3. QED
    BY <1>1, <1>7, <1>10, <1>11, <2>1, <2>2 DEF FeedPages
<1>13. CASE size > PageSize
  <2>1. n = PageSize /\ next = Newest(found, n + 1) /\ n + 1 \in 1..size /\ PageSize \in Nat
    BY <1>3, <1>4, <1>6, <1>13, FeedAssumption
  <2>2. next \in found /\ Rank(next, found) = n
    BY <1>8, <2>1
  <2>3. next \in Nat /\ next # 0 /\ next \in Notices
    BY <2>2, NoticesFinite
  <2>4. ASSUME NEW k \in 1..n PROVE next < items[k].id
    <3>1. items[k].id \in found /\ Rank(items[k].id, found) = k - 1 /\ items[k].id \in Nat
      BY <1>8, <1>9, <1>10, NoticesFinite
    <3>2. ~(next > items[k].id)
      BY <2>2, <3>1, NewerRanksBefore
    <3>3. next # items[k].id
      BY <2>2, <3>1
    <3>4. QED
      BY <2>3, <3>1, <3>2, <3>3
  <2>5. ASSUME NEW i \in found, i > next PROVE \E k \in 1..n : items[k].id = i
    <3>1. Rank(i, found) < n
      BY <2>2, <2>5, NewerRanksBefore
    <3>2. Rank(i, found) \in 0..(size - 1)
      BY <1>2, RanksComplete
    <3>3. PICK k \in 1..n : k = Rank(i, found) + 1
      BY <3>1, <3>2
    <3>4. Rank(Newest(found, k), found) = Rank(i, found)
      BY <1>8, <1>9, <3>2, <3>3
    <3>5. Newest(found, k) = i
      BY <1>8, <1>9, <3>4, RanksComplete
    <3>6. QED
      BY <1>10, <3>5
  <2>6. QED
    BY <1>1, <1>7, <1>10, <1>11, <2>2, <2>3, <2>4, <2>5 DEF FeedPages
<1>14. QED
  BY <1>2, <1>12, <1>13, FeedAssumption

(***************************************************************************)
(* Types.                                                                  *)
(***************************************************************************)
ClickRecord == [kind : {"read", "all", "clear", "more"}, at : {"idle", "sent", "answered"},
                id : Notices \cup {None}, page : FeedPages]

FeedTyped ==
  /\ notices \in [Notices -> {"none", "unread", "read", "cleared"}]
  /\ sending \in Notices \cup {None} /\ socket \in BOOLEAN /\ wire \in Seq(Notices)
  /\ loading \in [page : FeedPages \cup {None}, count : Nat \cup {None}, over : BOOLEAN]
  /\ shown \in Seq(ShownEntries) /\ badge \in Nat /\ cursor \in Notices \cup {0}
  /\ click \in [Clicks -> ClickRecord] /\ breaks \in 0..MaxBreaks
  /\ borders \subseteq Notices \cup {0} /\ excused \in BOOLEAN

LEMMA NoClickTyped == NoPage \in FeedPages /\ NoClick \in ClickRecord
  BY DEF NoPage, NoClick, FeedPages, ClickRecord

LEMMA InitTyped == FeedInit => FeedTyped
<1> SUFFICES ASSUME FeedInit PROVE FeedTyped
  OBVIOUS
<1>1. notices \in [Notices -> {"none", "unread", "read", "cleared"}]
  BY DEF FeedInit
<1>2. 0 \in 0..MaxBreaks
  BY FeedAssumption
<1>3. click \in [Clicks -> ClickRecord]
  BY NoClickTyped DEF FeedInit
<1>4. loading \in [page : FeedPages \cup {None}, count : Nat \cup {None}, over : BOOLEAN]
  BY DEF FeedInit
<1>5. shown \in Seq(ShownEntries) /\ wire \in Seq(Notices)
  BY DEF FeedInit
<1>6. QED
  BY <1>1, <1>2, <1>3, <1>4, <1>5 DEF FeedInit, FeedTyped

LEMMA CreateTyped == FeedTyped /\ CreateForCameraEvent => FeedTyped'
  BY DEF FeedTyped, CreateForCameraEvent, Excuse, feedView

LEMMA SocketTyped ==
  FeedTyped /\ (SendToUser \/ ReceiveNotice \/ SocketJoins \/ SocketBreaks) => FeedTyped'
<1> SUFFICES ASSUME FeedTyped, SendToUser \/ ReceiveNotice \/ SocketJoins \/ SocketBreaks PROVE FeedTyped'
  OBVIOUS
<1>1. CASE SendToUser
  <2>1. sending \in Notices /\ Append(wire, sending) \in Seq(Notices)
    BY <1>1 DEF FeedTyped, SendToUser
  <2>2. QED
    BY <1>1, <2>1 DEF FeedTyped, SendToUser, Excuse, feedView
<1>2. CASE ReceiveNotice
  <2>1. Head(wire) \in Notices /\ Tail(wire) \in Seq(Notices)
    BY <1>2 DEF FeedTyped, ReceiveNotice
  <2>2. <<[id |-> Head(wire), read |-> FALSE]>> \in Seq(ShownEntries)
    BY <2>1 DEF ShownEntries
  <2>3. shown' \in Seq(ShownEntries) /\ badge' \in Nat
    BY <1>2, <2>2 DEF FeedTyped, ReceiveNotice, Received
  <2>4. QED
    BY <1>2, <2>1, <2>3 DEF FeedTyped, ReceiveNotice
<1>3. CASE SocketJoins
  BY <1>3 DEF FeedTyped, SocketJoins, feedView
<1>4. CASE SocketBreaks
  <2>1. breaks' \in 0..MaxBreaks
    BY <1>4, FeedAssumption DEF FeedTyped, SocketBreaks
  <2>2. sending' \in Notices \cup {None} /\ excused' \in BOOLEAN
    BY <1>4 DEF FeedTyped, SocketBreaks, Excuse
  <2>3. /\ socket' = FALSE /\ wire' \in Seq(Notices)
        /\ UNCHANGED <<notices, loading, click>> /\ UNCHANGED <<shown, badge, cursor, borders>>
    BY <1>4 DEF SocketBreaks, feedView
  <2>4. QED
    BY <2>1, <2>2, <2>3 DEF FeedTyped
<1>5. QED
  BY <1>1, <1>2, <1>3, <1>4

LEMMA LoadTyped ==
  FeedTyped /\ (LoadPage \/ LoadCount \/ LoadEnd \/ LoadFails) => FeedTyped'
<1> SUFFICES ASSUME FeedTyped, LoadPage \/ LoadCount \/ LoadEnd \/ LoadFails PROVE FeedTyped'
  OBVIOUS
<1>1. CASE LoadPage
  <2>1. PICK page \in FeedPages : page = PageFrom(0)
    BY PageRows DEF FeedTyped
  <2>2. loading' = [loading EXCEPT !.page = page]
    BY <1>1, <2>1 DEF LoadPage
  <2>3. loading' \in [page : FeedPages \cup {None}, count : Nat \cup {None}, over : BOOLEAN]
    BY <2>2 DEF FeedTyped
  <2>4. QED
    BY <1>1, <2>3 DEF FeedTyped, LoadPage, feedView
<1>2. CASE LoadCount
  <2>1. PICK n \in Nat : n = Cardinality(UnreadRows)
    BY NoticesFinite DEF UnreadRows
  <2>2. loading' = [loading EXCEPT !.count = n]
    BY <1>2, <2>1 DEF LoadCount
  <2>3. loading' \in [page : FeedPages \cup {None}, count : Nat \cup {None}, over : BOOLEAN]
    BY <2>2 DEF FeedTyped
  <2>4. QED
    BY <1>2, <2>3 DEF FeedTyped, LoadCount, feedView
<1>3. CASE LoadEnd
  <2>1. loading.page \in FeedPages /\ loading.count \in Nat
    BY <1>3 DEF FeedTyped, LoadEnd
  <2>2. loading.page.items \in Seq(ShownEntries) /\ loading.page.next \in Notices \cup {0}
    BY <2>1 DEF FeedPages
  <2>3. QED
    BY <1>3, <2>1, <2>2 DEF FeedTyped, LoadEnd
<1>4. CASE LoadFails
  BY <1>4 DEF FeedTyped, LoadFails, feedView, Excuse
<1>5. QED
  BY <1>1, <1>2, <1>3, <1>4

\* What a click that is sent looks like.
LEMMA ClickSent ==
  ASSUME FeedTyped, NEW c \in Clicks, NEW kind \in {"read", "all", "clear", "more"},
         NEW id \in Notices \cup {None}, Click(c, kind, id)
  PROVE  /\ click' \in [Clicks -> ClickRecord]
         /\ click'[c].kind = kind /\ click'[c].at = "sent" /\ click'[c].id = id
         /\ \A d \in Clicks \ {c} : click'[d] = click[d]
<1>1. PICK k : k = [NoClick EXCEPT !.kind = kind, !.at = "sent", !.id = id]
  OBVIOUS
<1>2. k \in ClickRecord /\ k.kind = kind /\ k.at = "sent" /\ k.id = id
  BY <1>1, NoClickTyped DEF ClickRecord
<1>3. click' = [click EXCEPT ![c] = k]
  BY <1>1 DEF Click
<1>4. QED
  BY <1>2, <1>3 DEF FeedTyped

\* The cursor is a number and no row, or a row.
LEMMA CursorRow == FeedTyped /\ cursor # 0 => cursor \in Notices
  BY DEF FeedTyped

LEMMA ClickTyped ==
  ASSUME FeedTyped, NEW c \in Clicks, ClickRead(c) \/ ClickSweep(c) \/ ClickMore(c)
  PROVE  FeedTyped'
<1>1. click' \in [Clicks -> ClickRecord]
  <2>1. CASE ClickRead(c)
    <3>1. PICK k \in DOMAIN shown : Click(c, "read", shown[k].id)
      BY <2>1 DEF ClickRead
    <3>2. shown[k] \in ShownEntries
      BY DEF FeedTyped
    <3>3. QED
      BY <3>1, <3>2, ClickSent DEF ShownEntries
  <2>2. CASE ClickSweep(c)
    BY <2>2, ClickSent DEF ClickSweep
  <2>3. CASE ClickMore(c)
    BY <2>3, ClickSent, CursorRow DEF ClickMore
  <2>4. QED
    BY <2>1, <2>2, <2>3
<1>2. excused' \in BOOLEAN /\ UNCHANGED <<notices, sending, socket, wire, loading, breaks>>
        /\ UNCHANGED feedView
  BY DEF ClickRead, ClickSweep, ClickMore, Excuse
<1>3. QED
  BY <1>1, <1>2 DEF FeedTyped, feedView

\* What the server answers, and what a call that is over leaves.
LEMMA ClickServed ==
  ASSUME FeedTyped, NEW c \in Clicks, ServeClick(c)
  PROVE  /\ click' \in [Clicks -> ClickRecord]
         /\ click'[c].kind = click[c].kind /\ click'[c].at = "answered" /\ click'[c].id = click[c].id
         /\ click[c].kind = "more" => click'[c].page = PageFrom(click[c].id)
         /\ \A d \in Clicks \ {c} : click'[d] = click[d]
<1>1. PICK page : page = IF click[c].kind = "more" THEN PageFrom(click[c].id) ELSE click[c].page
  OBVIOUS
<1>2. page \in FeedPages
  BY <1>1, PageRows DEF FeedTyped, ClickRecord
<1>3. PICK k : k = [click[c] EXCEPT !.at = "answered", !.page = page]
  OBVIOUS
<1>4. /\ k \in ClickRecord /\ k.kind = click[c].kind /\ k.at = "answered" /\ k.id = click[c].id
      /\ k.page = page
  BY <1>2, <1>3 DEF FeedTyped, ClickRecord
<1>5. click' = [click EXCEPT ![c] = k]
  BY <1>1, <1>3 DEF ServeClick, FeedTyped
<1>6. QED
  BY <1>1, <1>4, <1>5 DEF FeedTyped

LEMMA ClickOver ==
  ASSUME FeedTyped, NEW c \in Clicks, click' = [click EXCEPT ![c] = NoClick]
  PROVE  /\ click' \in [Clicks -> ClickRecord] /\ click'[c].at = "idle"
         /\ \A d \in Clicks \ {c} : click'[d] = click[d]
  BY NoClickTyped DEF FeedTyped, NoClick

LEMMA MarkShownTyped ==
  ASSUME shown \in Seq(ShownEntries), NEW ids
  PROVE  /\ MarkShown(ids) \in Seq(ShownEntries) /\ DOMAIN MarkShown(ids) = DOMAIN shown
         /\ \A k \in DOMAIN shown : /\ MarkShown(ids)[k].id = shown[k].id
                                    /\ MarkShown(ids)[k].read <=> shown[k].read \/ shown[k].id \in ids
<1>1. ASSUME NEW k \in DOMAIN shown
      PROVE  /\ [shown[k] EXCEPT !.read = @ \/ shown[k].id \in ids] \in ShownEntries
             /\ [shown[k] EXCEPT !.read = @ \/ shown[k].id \in ids].id = shown[k].id
             /\ [shown[k] EXCEPT !.read = @ \/ shown[k].id \in ids].read <=> shown[k].read
                  \/ shown[k].id \in ids
  <2>1. shown[k] \in ShownEntries
    OBVIOUS
  <2>2. PICK r \in BOOLEAN : r = (shown[k].read \/ shown[k].id \in ids)
    OBVIOUS
  <2>3. [shown[k] EXCEPT !.read = @ \/ shown[k].id \in ids] = [shown[k] EXCEPT !.read = r]
    BY <2>2
  <2>4. QED
    BY <2>1, <2>2, <2>3 DEF ShownEntries
<1>2. DOMAIN shown = 1..Len(shown) /\ Len(shown) \in Nat
  OBVIOUS
<1>3. MarkShown(ids) \in [1..Len(shown) -> ShownEntries]
  BY <1>1, <1>2 DEF MarkShown
<1>4. MarkShown(ids) \in Seq(ShownEntries) /\ DOMAIN MarkShown(ids) = DOMAIN shown
  BY <1>2, <1>3
<1>5. \A k \in DOMAIN shown : MarkShown(ids)[k] = [shown[k] EXCEPT !.read = @ \/ shown[k].id \in ids]
  BY DEF MarkShown
<1>6. QED
  BY <1>1, <1>4, <1>5

LEMMA AnswerTyped ==
  ASSUME FeedTyped, NEW c \in Clicks, ServeClick(c) \/ RepeatClick(c) \/ ClickFails(c)
  PROVE  FeedTyped'
<1>1. CASE ServeClick(c)
  <2>1. notices' \in [Notices -> {"none", "unread", "read", "cleared"}]
    BY <1>1 DEF ServeClick, AfterClick, FeedTyped
  <2>2. QED
    BY <1>1, <2>1, ClickServed DEF ServeClick, FeedTyped, feedView
<1>2. CASE RepeatClick(c)
  <2>1. PICK page \in FeedPages : page = click[c].page
    BY DEF FeedTyped, ClickRecord
  <2>2. page.items \in Seq(ShownEntries) /\ page.next \in Notices \cup {0}
    BY DEF FeedPages
  <2>3. click[c].kind \in {"read", "all", "clear", "more"}
    BY DEF FeedTyped, ClickRecord
  <2>4. shown' \in Seq(ShownEntries)
    <3>1. \A ids : MarkShown(ids) \in Seq(ShownEntries)
      BY MarkShownTyped DEF FeedTyped
    <3>2. shown \o page.items \in Seq(ShownEntries) /\ <<>> \in Seq(ShownEntries)
      BY <2>2 DEF FeedTyped
    <3>3. QED
      BY <1>2, <2>1, <2>3, <3>1, <3>2 DEF RepeatClick
  <2>5. badge' \in Nat
    BY <1>2 DEF RepeatClick, FeedTyped
  <2>6. cursor' \in Notices \cup {0} /\ borders' \subseteq Notices \cup {0}
    BY <1>2, <2>1, <2>2 DEF RepeatClick, FeedTyped
  <2>7. click' \in [Clicks -> ClickRecord]
    BY <1>2, ClickOver DEF RepeatClick
  <2>8. QED
    BY <1>2, <2>4, <2>5, <2>6, <2>7 DEF RepeatClick, FeedTyped
<1>3. CASE ClickFails(c)
  BY <1>3, ClickOver DEF ClickFails, FeedTyped, feedView, Excuse
<1>4. QED
  BY <1>1, <1>2, <1>3

(***************************************************************************)
(* The bell, while nothing excuses it.  Until the first load is over it    *)
(* is untouched (Untouched).  Then: requests that go at the same time are  *)
(* marks of different rows (ClicksApart); what is on its way is new and unread   *)
(* (ComingNew); the badge counts, and the list marks, the unread rows that *)
(* are not on their way and those whose mark is answered and not repeated  *)
(* (ViewTrue), but for a sweep that is answered (SweptTrue); the list has  *)
(* every row above the cursor once (ListTrue); marks and pages are of rows *)
(* as they are (MarksTrue).                                                *)
(***************************************************************************)
Coming == {wire[k] : k \in DOMAIN wire} \cup ({sending} \ {None})
Going(kind, at) == {c \in Clicks : click[c].kind = kind /\ click[c].at = at}
AnsweredReads == {click[c].id : c \in Going("read", "answered")}
SeenUnread == (UnreadRows \ Coming) \cup AnsweredReads
NoSweepAnswered == Going("all", "answered") = {} /\ Going("clear", "answered") = {}

Ordered == \A i, j \in Notices : i < j /\ notices[j] # "none" => notices[i] # "none"

Untouched ==
  /\ shown = <<>> /\ cursor = 0 /\ badge = 0 /\ sending = None /\ wire = <<>>
  /\ \A c \in Clicks : ~ClickGoing(c)
  /\ loading.page \in {None, PageFrom(0)} /\ loading.count \in {None, Cardinality(UnreadRows)}

ClicksApart ==
  \A c, d \in Clicks : c # d /\ ClickGoing(c) /\ ClickGoing(d) =>
    click[c].kind = "read" /\ click[d].kind = "read" /\ click[c].id # click[d].id

ComingNew ==
  /\ \A j, k \in DOMAIN wire : wire[j] = wire[k] => j = k
  /\ \A k \in DOMAIN wire : wire[k] # sending
  /\ Coming \subseteq UnreadRows /\ Coming \cap ShownIds = {} /\ \A i \in Coming : cursor < i
  /\ Coming # {} => ~ClickSweeping

SweptTrue ==
  /\ Going("all", "answered") # {} =>
       UnreadRows = {} /\ ShownIds \subseteq KeptRows /\ cursor \in KeptRows \cup {0}
  /\ Going("clear", "answered") # {} => KeptRows = {}

ViewTrue ==
  NoSweepAnswered =>
    /\ badge = Cardinality(SeenUnread) /\ cursor \in KeptRows \cup {0}
    /\ \A k \in DOMAIN shown : shown[k].id \in KeptRows /\ (shown[k].read <=> shown[k].id \notin SeenUnread)

ListTrue ==
  /\ \A j, k \in DOMAIN shown : shown[j].id = shown[k].id => j = k
  /\ \A k \in DOMAIN shown : cursor < shown[k].id
  /\ cursor # 0 => cursor \in borders
  /\ \A i \in KeptRows : i > cursor => i \in ShownIds \cup borders \cup Coming

MarksTrue ==
  \A c \in Clicks :
    /\ c \in Going("read", "sent") => click[c].id \in ShownIds \cap UnreadRows
    /\ c \in Going("read", "answered") => click[c].id \in ShownIds /\ notices[click[c].id] = "read"
    /\ click[c].kind = "more" /\ ClickGoing(c) => click[c].id = cursor /\ cursor # 0
    /\ c \in Going("more", "answered") => \A from \in Notices : from = cursor =>
         click[c].page = PageFrom(from)

BellLoaded == ClicksApart /\ ComingNew /\ SweptTrue /\ ViewTrue /\ ListTrue /\ MarksTrue
Bell == ~excused => IF loading.over THEN BellLoaded ELSE Untouched
BellInv == FeedTyped /\ Ordered /\ Bell

LEMMA InitBell == FeedInit => BellInv
<1> SUFFICES ASSUME FeedInit PROVE BellInv
  OBVIOUS
<1>1. FeedTyped /\ Ordered
  BY InitTyped DEF FeedInit, Ordered
<1>2. ~loading.over /\ Untouched
  BY DEF FeedInit, Untouched, ClickGoing, NoClick
<1>3. QED
  BY <1>1, <1>2 DEF BellInv, Bell

\* A page depends on the rows behind its cursor only.
LEMMA PageKept ==
  ASSUME FeedTyped, NEW from, (RowsBehind(from))' = RowsBehind(from),
         \A i \in RowsBehind(from) : notices'[i] = notices[i]
  PROVE  (PageFrom(from))' = PageFrom(from)
<1>1. PICK found \in SUBSET Notices : found = RowsBehind(from)
  BY DEF RowsBehind, KeptRows
<1>2. PICK size \in Nat : size = Cardinality(found)
  BY NoticesFinite
<1>3. PICK n \in Nat : n = IF size <= PageSize THEN size ELSE PageSize
  BY FeedAssumption
<1>4. PICK rows : rows = [k \in 1..n |-> Newest(found, k)]
  OBVIOUS
<1>5. PICK next : next = IF size <= PageSize THEN 0 ELSE Newest(found, PageSize + 1)
  OBVIOUS
<1>6. PageFrom(from) = [items |-> [k \in DOMAIN rows |->
                                  [id |-> rows[k], read |-> notices[rows[k]] = "read"]],
                        next |-> next]
  BY <1>1, <1>2, <1>3, <1>4, <1>5 DEF PageFrom
<1>7. (PageFrom(from))' =
        [items |-> [k \in DOMAIN rows |-> [id |-> rows[k], read |-> notices'[rows[k]] = "read"]],
          next |-> next]
  BY <1>1, <1>2, <1>3, <1>4, <1>5 DEF PageFrom
<1>8. \A k \in 1..n : k \in 1..size
  BY <1>3, FeedAssumption
<1>9. \A k \in DOMAIN rows : notices'[rows[k]] = notices[rows[k]]
  BY <1>1, <1>2, <1>4, <1>8, NewestRow
<1>10. [k \in DOMAIN rows |-> [id |-> rows[k], read |-> notices'[rows[k]] = "read"]] =
        [k \in DOMAIN rows |-> [id |-> rows[k], read |-> notices[rows[k]] = "read"]]
  BY <1>9
<1>11. QED
  BY <1>6, <1>7, <1>10

LEMMA BellKept ==
  ASSUME BellInv, UNCHANGED <<notices, sending, wire, shown, badge, cursor, click, borders>>,
         loading'.over <=> loading.over, ~excused' => ~excused,
         ~loading.over /\ ~excused => Untouched'
  PROVE  Ordered' /\ Bell'
<1>1. Ordered'
  BY DEF BellInv, Ordered
<1>2. Coming' = Coming /\ UnreadRows' = UnreadRows /\ KeptRows' = KeptRows /\ ShownIds' = ShownIds
  BY DEF Coming, UnreadRows, KeptRows, ShownIds
<1>3. /\ \A kind, at : (Going(kind, at))' = Going(kind, at)
      /\ \A c : ClickGoing(c)' <=> ClickGoing(c)
  BY DEF Going, ClickGoing
<1>4. AnsweredReads' = AnsweredReads /\ (ClickSweeping' <=> ClickSweeping)
  BY <1>3 DEF AnsweredReads, ClickSweeping
<1>5. SeenUnread' = SeenUnread /\ (NoSweepAnswered' <=> NoSweepAnswered)
  BY <1>2, <1>3, <1>4 DEF SeenUnread, NoSweepAnswered
<1>6. \A from : (PageFrom(from))' = PageFrom(from)
  BY DEF PageFrom, RowsBehind, KeptRows
<1>7. ASSUME BellLoaded PROVE BellLoaded'
  <2>1. ClicksApart' /\ ComingNew'
    BY <1>2, <1>3, <1>4, <1>7 DEF BellLoaded, ClicksApart, ComingNew
  <2>2. SweptTrue' /\ ViewTrue'
    BY <1>2, <1>3, <1>5, <1>7 DEF BellLoaded, SweptTrue, ViewTrue
  <2>3. ListTrue'
    BY <1>2, <1>7 DEF BellLoaded, ListTrue
  <2>4. MarksTrue'
    BY <1>2, <1>3, <1>6, <1>7 DEF BellLoaded, MarksTrue
  <2>5. QED
    BY <2>1, <2>2, <2>3, <2>4 DEF BellLoaded
<1>8. QED
  BY <1>1, <1>7 DEF BellInv, Bell

(***************************************************************************)
(* Rows are made and sent.                                                 *)
(***************************************************************************)
\* A new row is newer than all there are, and on its way.
LEMMA CreateBell ==
  ASSUME BellInv, CreateForCameraEvent
  PROVE  Ordered' /\ Bell'
<1> USE DEF BellInv
<1>1. PICK i \in Notices : /\ notices[i] = "none" /\ \A j \in Notices : j < i => notices[j] # "none"
                           /\ notices' = [notices EXCEPT ![i] = "unread"] /\ sending' = i
  BY DEF CreateForCameraEvent
<1>2. /\ sending = None /\ excused' = (excused \/ (~loading.over \/ ClickSweeping))
      /\ UNCHANGED <<socket, wire, loading, click, breaks>> /\ UNCHANGED <<shown, badge, cursor, borders>>
  BY DEF CreateForCameraEvent, feedView, Excuse
<1>3. /\ \A j \in Notices : j \in Nat
      /\ notices \in [Notices -> {"none", "unread", "read", "cleared"}] /\ None \notin Notices
  BY FeedAssumption DEF FeedTyped
<1>4. notices'[i] = "unread" /\ \A j \in Notices \ {i} : notices'[j] = notices[j]
  BY <1>1, <1>3
<1>5. Ordered'
  <2> SUFFICES ASSUME NEW j \in Notices, NEW k \in Notices, j < k, notices'[k] # "none"
               PROVE  notices'[j] # "none"
    BY DEF Ordered
  <2>1. CASE k = i
    BY <1>1, <1>3, <1>4, <2>1
  <2>2. CASE k # i
    <3>1. notices[k] # "none"
      BY <1>4, <2>2
    <3>2. notices[j] # "none"
      BY <3>1 DEF Ordered
    <3>3. QED
      BY <1>1, <1>4, <3>2
  <2>3. QED
    BY <2>1, <2>2
<1>6. SUFFICES ASSUME ~excused, loading.over, ~ClickSweeping, BellLoaded PROVE BellLoaded'
  BY <1>2, <1>5 DEF Bell
<1>7. /\ UnreadRows' = UnreadRows \cup {i} /\ KeptRows' = KeptRows \cup {i} /\ i \notin KeptRows
      /\ UnreadRows \subseteq KeptRows /\ ShownIds' = ShownIds
  BY <1>1, <1>2, <1>3, <1>4 DEF UnreadRows, KeptRows, ShownIds
<1>8. Coming' = Coming \cup {i} /\ Coming \subseteq UnreadRows
  BY <1>1, <1>2, <1>3, <1>6 DEF Coming, BellLoaded, ComingNew
<1>9. /\ \A kind, at : (Going(kind, at))' = Going(kind, at)
      /\ \A c : ClickGoing(c)' <=> ClickGoing(c)
      /\ AnsweredReads' = AnsweredReads /\ (ClickSweeping' <=> ClickSweeping)
  BY <1>2 DEF Going, ClickGoing, AnsweredReads, ClickSweeping
<1>10. NoSweepAnswered /\ NoSweepAnswered'
  BY <1>6, <1>9 DEF NoSweepAnswered, ClickSweeping, Going, ClickGoing
<1>11. /\ badge = Cardinality(SeenUnread) /\ cursor \in KeptRows \cup {0}
       /\ \A k \in DOMAIN shown : shown[k].id \in KeptRows
            /\ (shown[k].read <=> shown[k].id \notin SeenUnread)
  BY <1>6, <1>10 DEF BellLoaded, ViewTrue
<1>12. SeenUnread' = SeenUnread
  BY <1>7, <1>8, <1>9 DEF SeenUnread
<1>13. cursor < i
  <2>1. CASE cursor = 0
    BY <1>3, <2>1, FeedAssumption
  <2>2. CASE cursor \in KeptRows
    <3>1. cursor \in Notices /\ notices[cursor] # "none" /\ cursor # i /\ cursor \in Nat /\ i \in Nat
      BY <1>1, <1>3, <2>2 DEF KeptRows
    <3>2. ~(i < cursor)
      BY <1>1, <3>1 DEF Ordered
    <3>3. QED
      BY <3>1, <3>2
  <2>3. QED
    BY <1>11, <2>1, <2>2
<1>14. ShownIds \subseteq KeptRows
  BY <1>11 DEF ShownIds
<1>15. ClicksApart'
  BY <1>2, <1>6, <1>9 DEF BellLoaded, ClicksApart
<1>16. ComingNew'
  <2>1. \A k \in DOMAIN wire : wire[k] # i
    BY <1>7, <1>8 DEF Coming
  <2>2. Coming' \cap ShownIds' = {}
    BY <1>6, <1>7, <1>8, <1>14 DEF BellLoaded, ComingNew
  <2>3. \A j \in Coming' : cursor < j
    BY <1>6, <1>8, <1>13 DEF BellLoaded, ComingNew
  <2>4. Coming' \subseteq UnreadRows'
    BY <1>7, <1>8
  <2>5. QED
    BY <1>1, <1>2, <1>6, <1>9, <2>1, <2>2, <2>3, <2>4 DEF BellLoaded, ComingNew
<1>17. SweptTrue' /\ ViewTrue'
  BY <1>2, <1>7, <1>10, <1>11, <1>12 DEF SweptTrue, ViewTrue, NoSweepAnswered
<1>18. ListTrue'
  BY <1>2, <1>6, <1>7, <1>8 DEF BellLoaded, ListTrue
<1>19. MarksTrue'
  <2>1. ASSUME NEW from \in Notices, from = cursor PROVE (PageFrom(from))' = PageFrom(from)
    <3>1. from \in Nat /\ from \in KeptRows /\ from \in KeptRows' /\ from < i /\ from # 0
      BY <1>3, <1>7, <1>11, <1>13, <2>1, FeedAssumption
    <3>2. (RowsBehind(from))' = RowsBehind(from) /\ i \notin RowsBehind(from)
      BY <1>3, <1>7, <3>1 DEF RowsBehind
    <3>3. RowsBehind(from) \subseteq Notices
      BY DEF RowsBehind, KeptRows
    <3>4. QED
      BY <1>4, <3>2, <3>3, PageKept
  <2>2. \A c \in Clicks : c \in Going("read", "answered") => notices'[click[c].id] = "read"
    BY <1>1, <1>4, <1>6 DEF BellLoaded, MarksTrue, FeedTyped, ClickRecord
  <2>3. QED
    BY <1>2, <1>6, <1>7, <1>9, <2>1, <2>2 DEF BellLoaded, MarksTrue
<1>20. QED
  BY <1>15, <1>16, <1>17, <1>18, <1>19 DEF BellLoaded

LEMMA SendBell ==
  ASSUME BellInv, SendToUser
  PROVE  Ordered' /\ Bell'
<1> USE DEF BellInv
<1>1. /\ sending # None /\ sending' = None /\ excused' = (excused \/ ~socket)
      /\ wire' = IF socket THEN Append(wire, sending) ELSE wire
      /\ UNCHANGED <<notices, socket, loading, click, breaks>> /\ UNCHANGED <<shown, badge, cursor, borders>>
  BY DEF SendToUser, feedView, Excuse
<1>2. Ordered'
  BY <1>1 DEF Ordered
<1>3. ~excused => loading.over
  BY <1>1 DEF Bell, Untouched
<1>4. SUFFICES ASSUME ~excused, socket, BellLoaded PROVE BellLoaded'
  BY <1>1, <1>2, <1>3 DEF Bell
<1>5. PICK i \in Notices : i = sending
  BY <1>1 DEF FeedTyped
<1>6. wire \in Seq(Notices) /\ wire' = Append(wire, i)
  BY <1>1, <1>4, <1>5 DEF FeedTyped
<1>7. /\ DOMAIN wire = 1..Len(wire) /\ DOMAIN wire' = 1..(Len(wire) + 1) /\ Len(wire) \in Nat
      /\ wire'[Len(wire) + 1] = i /\ \A k \in 1..Len(wire) : wire'[k] = wire[k]
  BY <1>6
<1>8. None \notin Notices
  BY FeedAssumption
<1>9. Coming' = Coming
  <2>1. Coming' = {wire'[k] : k \in 1..(Len(wire) + 1)}
    BY <1>1, <1>7 DEF Coming
  <2>2. Coming = {wire[k] : k \in 1..Len(wire)} \cup {i}
    BY <1>5, <1>7, <1>8 DEF Coming
  <2>3. \A k \in 1..(Len(wire) + 1) : k \in 1..Len(wire) \/ k = Len(wire) + 1
    BY <1>7
  <2>4. \A k \in 1..Len(wire) : k \in 1..(Len(wire) + 1)
    BY <1>7
  <2>5. Len(wire) + 1 \in 1..(Len(wire) + 1)
    BY <1>7
  <2>6. QED
    BY <1>7, <2>1, <2>2, <2>3, <2>4, <2>5
<1>10. /\ \A j, k \in DOMAIN wire' : wire'[j] = wire'[k] => j = k
       /\ \A k \in DOMAIN wire' : wire'[k] # sending'
  <2>1. \A k \in 1..(Len(wire) + 1) : k \in 1..Len(wire) \/ k = Len(wire) + 1
    BY <1>7
  <2>2. \A k \in 1..(Len(wire) + 1) : wire'[k] \in Notices
    BY <1>6, <1>7, <2>1
  <2>3. \A j, k \in 1..Len(wire) : wire[j] = wire[k] => j = k
    BY <1>4, <1>7 DEF BellLoaded, ComingNew
  <2>4. \A k \in 1..Len(wire) : wire[k] # i
    BY <1>4, <1>5, <1>7 DEF BellLoaded, ComingNew
  <2>5. QED
    BY <1>1, <1>7, <1>8, <2>1, <2>2, <2>3, <2>4
<1>11. UnreadRows' = UnreadRows /\ KeptRows' = KeptRows /\ ShownIds' = ShownIds
  BY <1>1 DEF UnreadRows, KeptRows, ShownIds
<1>12. /\ \A kind, at : (Going(kind, at))' = Going(kind, at)
       /\ \A c : ClickGoing(c)' <=> ClickGoing(c)
       /\ AnsweredReads' = AnsweredReads /\ (ClickSweeping' <=> ClickSweeping)
  BY <1>1 DEF Going, ClickGoing, AnsweredReads, ClickSweeping
<1>13. SeenUnread' = SeenUnread /\ (NoSweepAnswered' <=> NoSweepAnswered)
  BY <1>9, <1>11, <1>12 DEF SeenUnread, NoSweepAnswered
<1>14. \A from : (PageFrom(from))' = PageFrom(from)
  BY <1>1 DEF PageFrom, RowsBehind, KeptRows
<1>15. ClicksApart' /\ ComingNew'
  BY <1>1, <1>4, <1>9, <1>10, <1>11, <1>12 DEF BellLoaded, ClicksApart, ComingNew
<1>16. SweptTrue' /\ ViewTrue' /\ ListTrue'
  BY <1>1, <1>4, <1>9, <1>11, <1>12, <1>13 DEF BellLoaded, SweptTrue, ViewTrue, ListTrue
<1>17. MarksTrue'
  BY <1>1, <1>4, <1>11, <1>12, <1>14 DEF BellLoaded, MarksTrue
<1>18. QED
  BY <1>15, <1>16, <1>17 DEF BellLoaded

\* The badge and the list take what arrives; nobody has marked it yet.
LEMMA ReceiveBell ==
  ASSUME BellInv, ReceiveNotice
  PROVE  Ordered' /\ Bell'
<1> USE DEF BellInv
<1>1. /\ wire # <<>> /\ wire' = Tail(wire) /\ shown' = <<[id |-> Head(wire), read |-> FALSE]>> \o shown
      /\ badge' = badge + 1
      /\ UNCHANGED <<notices, sending, socket, loading, cursor, click, breaks, borders, excused>>
  BY DEF ReceiveNotice, Received
<1>2. Ordered'
  BY <1>1 DEF Ordered
<1>3. ~excused => loading.over
  BY <1>1 DEF Bell, Untouched
<1>4. SUFFICES ASSUME ~excused, loading.over, BellLoaded PROVE BellLoaded'
  BY <1>1, <1>2, <1>3 DEF Bell
<1>5. wire \in Seq(Notices) /\ shown \in Seq(ShownEntries) /\ None \notin Notices
  BY FeedAssumption DEF FeedTyped
<1>6. PICK i \in Notices : i = Head(wire)
  BY <1>1, <1>5
<1>7. PICK m \in Nat : m + 1 = Len(wire)
  <2>1. Len(wire) \in Nat /\ Len(wire) # 0
    BY <1>1, <1>5
  <2>2. Len(wire) - 1 \in Nat /\ (Len(wire) - 1) + 1 = Len(wire)
    BY <2>1
  <2>3. QED
    BY <2>2
<1>8. /\ DOMAIN wire = 1..(m + 1) /\ DOMAIN wire' = 1..m /\ wire[1] = i
      /\ \A k \in 1..m : wire'[k] = wire[k + 1]
  BY <1>1, <1>5, <1>6, <1>7
<1>9. \A k \in 1..(m + 1) : k = 1 \/ (k - 1 \in 1..m /\ (k - 1) + 1 = k)
  BY <1>7
<1>10. \A k \in 1..m : k + 1 \in 1..(m + 1) /\ k + 1 # 1
  BY <1>7
<1>11. /\ \A j, k \in 1..(m + 1) : wire[j] = wire[k] => j = k
       /\ \A k \in 1..(m + 1) : wire[k] # sending
  BY <1>4, <1>8 DEF BellLoaded, ComingNew
<1>12. 1 \in 1..(m + 1)
  BY <1>7
<1>13. i \in Coming /\ i # sending
  BY <1>8, <1>11, <1>12 DEF Coming
<1>14. {wire'[k] : k \in 1..m} = {wire[k] : k \in 1..(m + 1)} \ {i}
  <2>1. ASSUME NEW k \in 1..m PROVE wire'[k] \in {wire[n] : n \in 1..(m + 1)} \ {i}
    BY <1>8, <1>10, <1>11, <1>12
  <2>2. ASSUME NEW k \in 1..(m + 1), wire[k] # i PROVE wire[k] \in {wire'[n] : n \in 1..m}
    <3>1. k - 1 \in 1..m /\ (k - 1) + 1 = k
      BY <1>8, <1>9, <2>2
    <3>2. wire'[k - 1] = wire[k]
      BY <1>8, <3>1
    <3>3. QED
      BY <3>1, <3>2
  <2>3. QED
    BY <2>1, <2>2
<1>15. Coming' = Coming \ {i}
  BY <1>1, <1>8, <1>13, <1>14 DEF Coming
<1>16. PICK e \in ShownEntries : e = [id |-> i, read |-> FALSE] /\ e.id = i /\ ~e.read
  <2>1. [id |-> i, read |-> FALSE] \in ShownEntries /\ [id |-> i, read |-> FALSE].id = i
          /\ ~[id |-> i, read |-> FALSE].read
    BY DEF ShownEntries
  <2>2. QED
    BY <2>1
<1>17. /\ DOMAIN shown = 1..Len(shown) /\ Len(shown) \in Nat /\ DOMAIN shown' = 1..(Len(shown) + 1)
       /\ shown'[1] = e /\ \A k \in 2..(Len(shown) + 1) : shown'[k] = shown[k - 1]
  <2>1. shown' = <<e>> \o shown /\ <<e>> \in Seq(ShownEntries) /\ Len(<<e>>) = 1 /\ <<e>>[1] = e
    BY <1>1, <1>6, <1>16
  <2>2. QED
    BY <1>5, <2>1
<1>18. \A k \in 1..(Len(shown) + 1) : k = 1 \/ (k \in 2..(Len(shown) + 1) /\ k - 1 \in 1..Len(shown))
  BY <1>17
<1>19. \A k \in 1..Len(shown) : k + 1 \in 2..(Len(shown) + 1) /\ k + 1 \in 1..(Len(shown) + 1)
         /\ (k + 1) - 1 = k
  BY <1>17
<1>20. ShownIds' = ShownIds \cup {i}
  <2>1. ASSUME NEW k \in 1..(Len(shown) + 1) PROVE shown'[k].id \in ShownIds \cup {i}
    BY <1>16, <1>17, <1>18 DEF ShownIds
  <2>2. ASSUME NEW k \in 1..Len(shown) PROVE shown[k].id \in ShownIds'
    <3>1. shown'[k + 1] = shown[k] /\ k + 1 \in DOMAIN shown'
      BY <1>17, <1>19
    <3>2. QED
      BY <3>1 DEF ShownIds
  <2>3. i \in ShownIds'
    <3>1. 1 \in DOMAIN shown'
      BY <1>17
    <3>2. QED
      BY <1>16, <1>17, <3>1 DEF ShownIds
  <2>4. ShownIds' \subseteq ShownIds \cup {i}
    BY <1>17, <2>1 DEF ShownIds
  <2>5. ShownIds \subseteq ShownIds'
    BY <1>17, <2>2 DEF ShownIds
  <2>6. QED
    BY <2>3, <2>4, <2>5
<1>21. /\ UnreadRows' = UnreadRows /\ KeptRows' = KeptRows
       /\ \A kind, at : (Going(kind, at))' = Going(kind, at)
       /\ \A c : ClickGoing(c)' <=> ClickGoing(c)
       /\ AnsweredReads' = AnsweredReads /\ (ClickSweeping' <=> ClickSweeping)
       /\ \A from : (PageFrom(from))' = PageFrom(from)
  BY <1>1 DEF UnreadRows, KeptRows, Going, ClickGoing, AnsweredReads, ClickSweeping, PageFrom, RowsBehind
<1>22. /\ i \in UnreadRows /\ i \notin ShownIds /\ ~ClickSweeping /\ cursor < i
       /\ AnsweredReads \subseteq ShownIds
  <2>1. i \in UnreadRows /\ i \notin ShownIds /\ ~ClickSweeping /\ cursor < i
    BY <1>4, <1>13 DEF BellLoaded, ComingNew
  <2>2. \A c \in Going("read", "answered") : click[c].id \in ShownIds
    BY <1>4 DEF BellLoaded, MarksTrue, Going
  <2>3. QED
    BY <2>1, <2>2 DEF AnsweredReads
<1>23. NoSweepAnswered /\ NoSweepAnswered'
  BY <1>21, <1>22 DEF NoSweepAnswered, ClickSweeping, Going, ClickGoing
<1>24. SeenUnread' = SeenUnread \cup {i} /\ i \notin SeenUnread
  BY <1>13, <1>15, <1>21, <1>22 DEF SeenUnread
<1>25. /\ badge = Cardinality(SeenUnread) /\ cursor \in KeptRows \cup {0}
       /\ \A k \in DOMAIN shown : shown[k].id \in KeptRows
            /\ (shown[k].read <=> shown[k].id \notin SeenUnread)
  BY <1>4, <1>23 DEF BellLoaded, ViewTrue
<1>26. SeenUnread \in SUBSET Notices
  <2>1. ShownIds \subseteq Notices
    BY <1>25 DEF ShownIds, KeptRows
  <2>2. QED
    BY <1>22, <2>1 DEF SeenUnread, UnreadRows
<1>27. Cardinality(SeenUnread') = Cardinality(SeenUnread) + 1
  BY <1>24, <1>26, NoticesFinite, FS_AddElement
<1>28. ClicksApart' /\ ComingNew'
  <2>1. \A j, k \in 1..m : wire'[j] = wire'[k] => j = k
    <3>1. ASSUME NEW j \in 1..m, NEW k \in 1..m, wire'[j] = wire'[k] PROVE j = k
      <4>1. j + 1 = k + 1
        BY <1>8, <1>10, <1>11, <3>1
      <4>2. QED
        BY <4>1
    <3>2. QED
      BY <3>1
  <2>2. \A k \in 1..m : wire'[k] # sending
    BY <1>8, <1>10, <1>11
  <2>3. Coming' \cap ShownIds' = {} /\ Coming' \subseteq UnreadRows' /\ \A j \in Coming' : cursor < j
    BY <1>4, <1>15, <1>20, <1>21 DEF BellLoaded, ComingNew
  <2>4. QED
    BY <1>1, <1>4, <1>8, <1>21, <1>22, <2>1, <2>2, <2>3 DEF BellLoaded, ClicksApart, ComingNew
<1>29. SweptTrue' /\ ViewTrue'
  <2>1. ASSUME NEW k \in DOMAIN shown'
        PROVE  shown'[k].id \in KeptRows /\ (shown'[k].read <=> shown'[k].id \notin SeenUnread')
    <3>1. CASE k = 1
      BY <1>16, <1>17, <1>22, <1>24, <3>1 DEF KeptRows, UnreadRows
    <3>2. CASE k # 1
      <4>1. k - 1 \in DOMAIN shown /\ shown'[k] = shown[k - 1]
        BY <1>17, <1>18, <3>2
      <4>2. shown[k - 1].id # i
        BY <1>22, <4>1 DEF ShownIds
      <4>3. QED
        BY <1>24, <1>25, <4>1, <4>2
    <3>3. QED
      BY <3>1, <3>2
  <2>2. QED
    BY <1>1, <1>21, <1>23, <1>25, <1>27, <2>1 DEF SweptTrue, ViewTrue, NoSweepAnswered
<1>30. ListTrue'
  <2>1. ASSUME NEW j \in DOMAIN shown', NEW k \in DOMAIN shown', shown'[j].id = shown'[k].id PROVE j = k
    <3>1. \A n \in DOMAIN shown' : n # 1 => n - 1 \in DOMAIN shown /\ shown'[n] = shown[n - 1]
            /\ shown[n - 1].id # i
      BY <1>17, <1>18, <1>22 DEF ShownIds
    <3>2. CASE j = 1 \/ k = 1
      BY <1>16, <1>17, <2>1, <3>1, <3>2
    <3>3. CASE j # 1 /\ k # 1
      <4>1. j - 1 = k - 1
        BY <1>4, <2>1, <3>1, <3>3 DEF BellLoaded, ListTrue
      <4>2. j \in Nat /\ k \in Nat
        BY <1>17
      <4>3. QED
        BY <4>1, <4>2
    <3>4. QED
      BY <3>2, <3>3
  <2>2. \A k \in DOMAIN shown' : cursor < shown'[k].id
    <3>1. \A k \in DOMAIN shown' : shown'[k].id \in ShownIds \cup {i}
      BY <1>20 DEF ShownIds
    <3>2. \A j \in ShownIds : cursor < j
      BY <1>4 DEF BellLoaded, ListTrue, ShownIds
    <3>3. QED
      BY <1>22, <3>1, <3>2
  <2>3. \A j \in KeptRows : j > cursor => j \in ShownIds' \cup borders \cup Coming'
    BY <1>4, <1>15, <1>20 DEF BellLoaded, ListTrue
  <2>4. QED
    BY <1>1, <1>4, <1>21, <2>1, <2>2, <2>3 DEF BellLoaded, ListTrue
<1>31. MarksTrue'
  BY <1>1, <1>4, <1>20, <1>21 DEF BellLoaded, MarksTrue
<1>32. QED
  BY <1>28, <1>29, <1>30, <1>31 DEF BellLoaded

LEMMA SocketBell ==
  ASSUME BellInv, SocketJoins \/ SocketBreaks
  PROVE  Ordered' /\ Bell'
<1>1. CASE SocketJoins
  BY <1>1, BellKept DEF SocketJoins, feedView, BellInv, Bell, Untouched, PageFrom, RowsBehind, KeptRows,
     UnreadRows, ClickGoing
<1>2. CASE SocketBreaks
  <2>1. /\ UNCHANGED <<notices, loading, click>> /\ UNCHANGED <<shown, badge, cursor, borders>>
        /\ ~excused' => ~excused /\ wire = <<>> /\ wire' = wire /\ sending' = sending
    BY <1>2 DEF SocketBreaks, feedView, Excuse
  <2>2. CASE excused'
    BY <2>1, <2>2 DEF BellInv, Bell, Ordered
  <2>3. CASE ~excused'
    BY <2>1, <2>3, BellKept DEF BellInv, Bell, Untouched, PageFrom, RowsBehind, KeptRows, UnreadRows,
         ClickGoing
  <2>4. QED
    BY <2>2, <2>3
<1>3. QED
  BY <1>1, <1>2

(***************************************************************************)
(* The first load, during which nothing happens.                           *)
(***************************************************************************)
LEMMA LoadBell ==
  ASSUME BellInv, LoadPage \/ LoadCount \/ LoadFails
  PROVE  Ordered' /\ Bell'
<1> USE DEF BellInv
<1>1. /\ UNCHANGED <<notices, sending, wire, shown, badge, cursor, click, borders>>
      /\ ~loading.over
  BY DEF LoadPage, LoadCount, LoadFails, feedView
<1>2. Ordered'
  BY <1>1 DEF Ordered
<1>3. (PageFrom(0))' = PageFrom(0) /\ UnreadRows' = UnreadRows /\ \A c : ClickGoing(c)' <=> ClickGoing(c)
  BY <1>1 DEF PageFrom, RowsBehind, KeptRows, UnreadRows, ClickGoing
<1>4. CASE LoadPage
  <2>1. loading'.page = PageFrom(0) /\ loading'.count = loading.count /\ ~loading'.over
    BY <1>1, <1>4 DEF LoadPage, FeedTyped
  <2>2. QED
    BY <1>1, <1>2, <1>3, <1>4, <2>1 DEF LoadPage, Bell, Untouched
<1>5. CASE LoadCount
  <2>1. loading'.page = loading.page /\ loading'.count = Cardinality(UnreadRows) /\ ~loading'.over
    BY <1>1, <1>5 DEF LoadCount, FeedTyped
  <2>2. QED
    BY <1>1, <1>2, <1>3, <1>5, <2>1 DEF LoadCount, Bell, Untouched
<1>6. CASE LoadFails
  BY <1>2, <1>6 DEF LoadFails, Bell, Excuse
<1>7. QED
  BY <1>4, <1>5, <1>6

LEMMA LoadEndBell ==
  ASSUME BellInv, LoadEnd
  PROVE  Ordered' /\ Bell'
<1> USE DEF BellInv
<1>1. /\ ~loading.over /\ loading.page # None /\ loading.count # None
      /\ shown' = loading.page.items /\ cursor' = loading.page.next /\ badge' = loading.count
      /\ borders' = borders \cup {loading.page.next} /\ loading'.over
      /\ UNCHANGED <<notices, sending, socket, wire, click, breaks, excused>>
  BY DEF LoadEnd
<1>2. Ordered'
  BY <1>1 DEF Ordered
<1>3. SUFFICES ASSUME ~excused, Untouched PROVE BellLoaded'
  BY <1>1, <1>2 DEF Bell
<1>4. PICK page : page = PageFrom(0)
  OBVIOUS
<1>5. loading.page = page /\ loading.count = Cardinality(UnreadRows)
  BY <1>1, <1>3, <1>4 DEF Untouched
<1>6. RowsBehind(0) = KeptRows
  BY DEF RowsBehind
<1>7. /\ page \in FeedPages
      /\ \A k \in DOMAIN page.items : page.items[k].id \in KeptRows
           /\ (page.items[k].read <=> notices[page.items[k].id] = "read")
      /\ \A j, k \in DOMAIN page.items : page.items[j].id = page.items[k].id => j = k
      /\ page.next # 0 => page.next \in KeptRows /\ \A k \in DOMAIN page.items : page.next < page.items[k].id
      /\ \A i \in KeptRows : i > page.next => \E k \in DOMAIN page.items : page.items[k].id = i
  BY <1>4, <1>6, PageRows DEF FeedTyped
<1>8. /\ UnreadRows' = UnreadRows /\ KeptRows' = KeptRows /\ Coming' = {}
      /\ \A kind : (Going(kind, "sent"))' = {} /\ (Going(kind, "answered"))' = {}
      /\ \A c \in Clicks : ~ClickGoing(c)'
  BY <1>1, <1>3 DEF Untouched, UnreadRows, KeptRows, Coming, Going, ClickGoing
<1>9. SeenUnread' = UnreadRows
  BY <1>8 DEF SeenUnread, AnsweredReads
<1>10. \A i \in KeptRows : i \in Notices /\ i \in Nat /\ i > 0
         /\ (notices[i] = "read" <=> i \notin UnreadRows)
  BY NoticesFinite DEF KeptRows, UnreadRows
<1>11. ClicksApart' /\ ComingNew' /\ SweptTrue'
  <2>1. ~ClickSweeping'
    BY <1>8 DEF ClickSweeping
  <2>2. wire' = <<>> /\ DOMAIN wire' = {}
    BY <1>1, <1>3 DEF Untouched
  <2>3. ClicksApart' /\ SweptTrue'
    BY <1>8 DEF ClicksApart, SweptTrue
  <2>4. ComingNew'
    BY <1>8, <2>1, <2>2 DEF ComingNew
  <2>5. QED
    BY <2>3, <2>4
<1>12. ViewTrue'
  <2>1. cursor' \in KeptRows \cup {0}
    BY <1>1, <1>5, <1>7
  <2>2. \A k \in DOMAIN shown' : shown'[k].id \in KeptRows
          /\ (shown'[k].read <=> shown'[k].id \notin UnreadRows)
    BY <1>1, <1>5, <1>7, <1>10
  <2>3. badge' = Cardinality(UnreadRows)
    BY <1>1, <1>5
  <2>4. QED
    BY <1>8, <1>9, <2>1, <2>2, <2>3 DEF ViewTrue
<1>13. ListTrue'
  <2>1. \A k \in DOMAIN shown' : cursor' < shown'[k].id
    BY <1>1, <1>5, <1>7, <1>10
  <2>2. \A i \in KeptRows : i > cursor' => i \in ShownIds'
    BY <1>1, <1>5, <1>7 DEF ShownIds
  <2>3. QED
    BY <1>1, <1>5, <1>7, <1>8, <2>1, <2>2 DEF ListTrue
<1>14. MarksTrue'
  BY <1>8 DEF MarksTrue
<1>15. QED
  BY <1>11, <1>12, <1>13, <1>14 DEF BellLoaded

(***************************************************************************)
(* What the user does.                                                     *)
(***************************************************************************)
\* A call is sent: nothing but that has changed.
LEMMA SentBell ==
  ASSUME BellInv, ~excused, loading.over, NEW c \in Clicks, ~ClickGoing(c),
         NEW kind \in {"read", "all", "clear", "more"}, NEW id \in Notices \cup {None}, Click(c, kind, id),
         UNCHANGED <<notices, sending, wire, shown, badge, cursor, borders>>,
         \A d \in ClicksBeside(c) : click[d].kind = "read" /\ kind = "read" /\ click[d].id # id,
         kind = "read" => id \in ShownIds \cap UnreadRows,
         kind = "more" => id = cursor /\ cursor # 0,
         kind \in {"all", "clear"} => Coming = {}
  PROVE  BellLoaded'
<1> USE DEF BellInv
<1>1. BellLoaded
  BY DEF Bell
<1>2. /\ click' \in [Clicks -> ClickRecord]
      /\ click'[c].kind = kind /\ click'[c].at = "sent" /\ click'[c].id = id
      /\ \A d \in Clicks \ {c} : click'[d] = click[d]
  BY ClickSent
<1>3. /\ Coming' = Coming /\ UnreadRows' = UnreadRows /\ KeptRows' = KeptRows /\ ShownIds' = ShownIds
      /\ \A from : (PageFrom(from))' = PageFrom(from)
  BY DEF Coming, UnreadRows, KeptRows, ShownIds, PageFrom, RowsBehind
<1>4. click[c].at = "idle"
  BY DEF ClickGoing
<1>5. \A k : (Going(k, "answered"))' = Going(k, "answered")
  BY <1>2, <1>4 DEF Going
<1>6. AnsweredReads' = AnsweredReads
  <2>1. \A d \in Going("read", "answered") : click'[d] = click[d]
    BY <1>2, <1>4 DEF Going
  <2>2. QED
    BY <1>5, <2>1 DEF AnsweredReads
<1>7. SeenUnread' = SeenUnread /\ (NoSweepAnswered' <=> NoSweepAnswered)
  BY <1>3, <1>5, <1>6 DEF SeenUnread, NoSweepAnswered
<1>8. \A d \in Clicks \ {c} : ClickGoing(d)' => d \in ClicksBeside(c)
  BY <1>2 DEF ClickGoing, ClicksBeside
<1>9. ClicksApart'
  BY <1>1, <1>2, <1>8 DEF BellLoaded, ClicksApart, ClickGoing, ClicksBeside
<1>10. ComingNew'
  <2>1. Coming # {} => ~ClickSweeping'
    BY <1>1, <1>2 DEF BellLoaded, ComingNew, ClickSweeping, ClickGoing
  <2>2. QED
    BY <1>1, <1>3, <2>1 DEF BellLoaded, ComingNew
<1>11. SweptTrue' /\ ViewTrue' /\ ListTrue'
  BY <1>1, <1>3, <1>5, <1>7 DEF BellLoaded, SweptTrue, ViewTrue, ListTrue
<1>12. MarksTrue'
  <2> SUFFICES ASSUME NEW d \in Clicks
               PROVE  /\ (d \in Going("read", "sent"))' => click'[d].id \in ShownIds \cap UnreadRows
                      /\ (d \in Going("read", "answered"))' => click'[d].id \in ShownIds
                           /\ notices[click'[d].id] = "read"
                      /\ click'[d].kind = "more" /\ ClickGoing(d)' => click'[d].id = cursor /\ cursor # 0
                      /\ (d \in Going("more", "answered"))' =>
                           \A from \in Notices : from = cursor => click'[d].page = PageFrom(from)
    BY <1>3 DEF MarksTrue
  <2>1. CASE d = c
    BY <1>2, <2>1 DEF Going
  <2>2. CASE d # c
    BY <1>1, <1>2, <2>2 DEF BellLoaded, MarksTrue, Going, ClickGoing
  <2>3. QED
    BY <2>1, <2>2
<1>13. QED
  BY <1>9, <1>10, <1>11, <1>12 DEF BellLoaded

LEMMA ClickBell ==
  ASSUME BellInv, NEW c \in Clicks, ClickRead(c) \/ ClickSweep(c) \/ ClickMore(c)
  PROVE  Ordered' /\ Bell'
<1> USE DEF BellInv
<1>1. /\ ~ClickGoing(c) /\ UNCHANGED <<notices, sending, socket, wire, loading, breaks>>
      /\ UNCHANGED <<shown, badge, cursor, borders>>
  BY DEF ClickRead, ClickSweep, ClickMore, feedView
<1>2. Ordered'
  BY <1>1 DEF Ordered
<1>3. excused => excused'
  BY DEF ClickRead, ClickSweep, ClickMore, Excuse
<1>4. SUFFICES ASSUME ~excused, ~excused' PROVE loading.over /\ BellLoaded'
  BY <1>1, <1>2, <1>3 DEF Bell
<1>5. CASE ClickRead(c)
  <2>1. PICK k \in DOMAIN shown : /\ ~shown[k].read /\ Click(c, "read", shown[k].id)
                                  /\ Excuse(~loading.over \/ \E d \in ClicksBeside(c) :
                                              click[d].kind # "read" \/ click[d].id = shown[k].id)
    BY <1>5 DEF ClickRead
  <2>2. loading.over /\ \A d \in ClicksBeside(c) : click[d].kind = "read" /\ click[d].id # shown[k].id
    BY <1>4, <2>1 DEF Excuse
  <2>3. BellLoaded
    BY <1>4, <2>2 DEF Bell
  <2>4. shown[k].id \in Notices
    <3>1. shown[k] \in ShownEntries
      BY DEF FeedTyped
    <3>2. QED
      BY <3>1 DEF ShownEntries
  <2>5. shown[k].id \in ShownIds
    BY DEF ShownIds
  <2>6. CASE NoSweepAnswered
    <3>1. shown[k].id \in SeenUnread
      BY <2>1, <2>3, <2>6 DEF BellLoaded, ViewTrue
    <3>2. shown[k].id \notin AnsweredReads
      BY <1>1, <2>2 DEF AnsweredReads, Going, ClicksBeside, ClickGoing
    <3>3. shown[k].id \in UnreadRows
      BY <3>1, <3>2 DEF SeenUnread
    <3>4. QED
      BY <1>1, <1>4, <2>1, <2>2, <2>4, <2>5, <3>3, SentBell
  <2>7. CASE ~NoSweepAnswered
    <3>1. PICK d \in Clicks : d \in Going("all", "answered") \cup Going("clear", "answered")
      BY <2>7 DEF NoSweepAnswered, Going
    <3>2. d \in ClicksBeside(c) /\ click[d].kind # "read"
      BY <1>1, <3>1 DEF Going, ClicksBeside, ClickGoing
    <3>3. QED
      BY <2>2, <3>2
  <2>8. QED
    BY <2>6, <2>7
<1>6. CASE ClickSweep(c)
  <2>1. /\ Excuse(~loading.over \/ ClicksBeside(c) # {} \/ sending # None \/ wire # <<>>)
        /\ Click(c, "all", None) \/ Click(c, "clear", None)
    BY <1>6 DEF ClickSweep
  <2>2. loading.over /\ ClicksBeside(c) = {} /\ sending = None /\ wire = <<>>
    BY <1>4, <2>1 DEF Excuse
  <2>3. Coming = {}
    BY <2>2 DEF Coming
  <2>4. CASE Click(c, "all", None)
    BY <1>1, <1>4, <2>2, <2>3, <2>4, SentBell
  <2>5. CASE Click(c, "clear", None)
    BY <1>1, <1>4, <2>2, <2>3, <2>5, SentBell
  <2>6. QED
    BY <2>1, <2>2, <2>4, <2>5
<1>7. CASE ClickMore(c)
  <2>1. cursor # 0 /\ Click(c, "more", cursor) /\ Excuse(ClicksBeside(c) # {})
    BY <1>7 DEF ClickMore
  <2>2. loading.over /\ ClicksBeside(c) = {} /\ cursor \in Notices
    BY <1>4, <2>1, CursorRow DEF Bell, Untouched, Excuse
  <2>3. QED
    BY <1>1, <1>4, <2>1, <2>2, SentBell
<1>8. QED
  BY <1>5, <1>6, <1>7

\* A request that is under way: the bell is loaded, and what other requests go are marks.
LEMMA ClickUnderWay ==
  ASSUME BellInv, ~excused, NEW c \in Clicks, ClickGoing(c)
  PROVE  /\ loading.over /\ BellLoaded /\ click[c].kind \in {"read", "all", "clear", "more"}
         /\ \A d \in Clicks \ {c} : ClickGoing(d) =>
              click[c].kind = "read" /\ click[d].kind = "read" /\ click[d].id # click[c].id
         /\ \A d \in Clicks \ {c}, at \in {"sent", "answered"} :
              /\ d \notin Going("all", at) /\ d \notin Going("clear", at) /\ d \notin Going("more", at)
              /\ click[c].kind # "read" => d \notin Going("read", at)
         /\ click[c].kind \in {"all", "clear"} => Coming = {}
<1>1. loading.over /\ BellLoaded
  BY DEF BellInv, Bell, Untouched
<1>2. click[c].kind \in {"read", "all", "clear", "more"}
  BY DEF BellInv, FeedTyped, ClickRecord
<1>3. \A d \in Clicks \ {c} : ClickGoing(d) =>
        click[c].kind = "read" /\ click[d].kind = "read" /\ click[d].id # click[c].id
  BY <1>1 DEF BellLoaded, ClicksApart
<1>4. \A kind : \A d \in Clicks, at \in {"sent", "answered"} :
        d \in Going(kind, at) => ClickGoing(d) /\ click[d].kind = kind
  BY DEF Going, ClickGoing
<1>5. click[c].kind \in {"all", "clear"} => Coming = {}
  BY <1>1 DEF BellLoaded, ComingNew, ClickSweeping
<1>6. ASSUME NEW d \in Clicks \ {c}, NEW at \in {"sent", "answered"}
      PROVE  /\ d \notin Going("all", at) /\ d \notin Going("clear", at) /\ d \notin Going("more", at)
             /\ click[c].kind # "read" => d \notin Going("read", at)
  BY <1>3, <1>4
<1>7. QED
  BY <1>1, <1>2, <1>3, <1>5, <1>6

LEMMA ServeBell ==
  ASSUME BellInv, NEW c \in Clicks, ServeClick(c)
  PROVE  Ordered' /\ Bell'
<1> USE DEF BellInv
<1>1. /\ click[c].at = "sent" /\ notices' = AfterClick(click[c].kind, click[c].id)
      /\ UNCHANGED <<sending, socket, wire, loading, breaks, excused>>
           /\ UNCHANGED <<shown, badge, cursor, borders>>
  BY DEF ServeClick, feedView
<1>2. notices \in [Notices -> {"none", "unread", "read", "cleared"}]
  BY DEF FeedTyped
<1>3. PICK kind, id : kind = click[c].kind /\ id = click[c].id
  OBVIOUS
<1>4. \A i \in Notices :
        notices'[i] = CASE notices[i] = "unread" /\ (kind = "all" \/ (kind = "read" /\ i = id)) -> "read"
                        [] kind = "clear" /\ i \in KeptRows -> "cleared"
                        [] OTHER -> notices[i]
  BY <1>1, <1>3 DEF AfterClick
<1>5. \A i \in Notices : notices'[i] = "none" <=> notices[i] = "none"
  BY <1>4 DEF KeptRows
<1>6. Ordered'
  BY <1>5 DEF Ordered
<1>7. SUFFICES ASSUME ~excused PROVE loading.over /\ BellLoaded'
  BY <1>1, <1>6 DEF Bell
<1>8. ClickGoing(c)
  BY <1>1 DEF ClickGoing
<1>9. /\ loading.over /\ BellLoaded /\ kind \in {"read", "all", "clear", "more"}
      /\ \A d \in Clicks \ {c} : ClickGoing(d) => kind = "read" /\ click[d].kind = "read" /\ click[d].id # id
      /\ kind \in {"all", "clear"} => Coming = {}
  BY <1>3, <1>7, <1>8, ClickUnderWay
<1>10. \A d \in Clicks \ {c}, at \in {"sent", "answered"} :
         /\ d \notin Going("all", at) /\ d \notin Going("clear", at) /\ d \notin Going("more", at)
         /\ kind # "read" => d \notin Going("read", at)
  BY <1>3, <1>7, <1>8, ClickUnderWay
<1>11. /\ click' \in [Clicks -> ClickRecord]
       /\ click'[c].kind = kind /\ click'[c].at = "answered" /\ click'[c].id = id
       /\ kind = "more" => click'[c].page = PageFrom(id)
       /\ \A d \in Clicks \ {c} : click'[d] = click[d]
  BY <1>3, ClickServed
<1>12. Coming' = Coming /\ ShownIds' = ShownIds /\ \A d \in Clicks : ClickGoing(d)' <=> ClickGoing(d)
  BY <1>1, <1>8, <1>11 DEF Coming, ShownIds, ClickGoing
<1>13. ClicksApart' /\ (ClickSweeping' <=> ClickSweeping)
  <2>1. \A d \in Clicks : click'[d].kind = click[d].kind /\ click'[d].id = click[d].id
    BY <1>3, <1>11
  <2>2. QED
    BY <1>9, <1>12, <2>1 DEF BellLoaded, ClicksApart, ClickSweeping
<1>14. NoSweepAnswered
  BY <1>1, <1>10 DEF NoSweepAnswered, Going
<1>15. /\ badge = Cardinality(SeenUnread) /\ cursor \in KeptRows \cup {0}
       /\ \A k \in DOMAIN shown : shown[k].id \in KeptRows
            /\ (shown[k].read <=> shown[k].id \notin SeenUnread)
       /\ ShownIds \subseteq KeptRows
  BY <1>9, <1>14 DEF BellLoaded, ViewTrue, ShownIds
<1>16. CASE kind = "read"
  <2>1. id \in ShownIds \cap UnreadRows /\ id \notin Coming
    BY <1>1, <1>3, <1>9, <1>16 DEF BellLoaded, MarksTrue, ComingNew, Going
  <2>2. UnreadRows' = UnreadRows \ {id} /\ KeptRows' = KeptRows /\ notices'[id] = "read"
    BY <1>2, <1>4, <1>16, <2>1 DEF UnreadRows, KeptRows
  <2>3. AnsweredReads' = AnsweredReads \cup {id}
    BY <1>1, <1>11, <1>16 DEF AnsweredReads, Going
  <2>4. SeenUnread' = SeenUnread
    BY <1>12, <2>1, <2>2, <2>3 DEF SeenUnread
  <2>5. NoSweepAnswered'
    BY <1>10, <1>11, <1>16 DEF NoSweepAnswered, Going
  <2>6. ComingNew'
    BY <1>1, <1>9, <1>12, <1>13, <2>1, <2>2 DEF BellLoaded, ComingNew
  <2>7. SweptTrue' /\ ViewTrue' /\ ListTrue'
    BY <1>1, <1>9, <1>12, <1>15, <2>2, <2>4, <2>5 DEF BellLoaded, SweptTrue, ViewTrue, ListTrue, NoSweepAnswered
  <2>8. MarksTrue'
    <3> SUFFICES ASSUME NEW d \in Clicks
                 PROVE  /\ (d \in Going("read", "sent"))' => click'[d].id \in ShownIds \cap UnreadRows'
                        /\ (d \in Going("read", "answered"))' => click'[d].id \in ShownIds
                             /\ notices'[click'[d].id] = "read"
                        /\ ~(click'[d].kind = "more" /\ ClickGoing(d)')
                        /\ ~(d \in Going("more", "answered"))'
      BY <1>12 DEF MarksTrue
    <3>1. CASE d = c
      BY <1>11, <1>16, <2>1, <2>2, <3>1 DEF Going
    <3>2. CASE d # c
      <4>1. click'[d] = click[d] /\ (d \in Going("read", "sent"))' = (d \in Going("read", "sent"))
        BY <1>11, <3>2 DEF Going
      <4>2. d \in Going("read", "sent") => click[d].id \in ShownIds \cap UnreadRows /\ click[d].id # id
        BY <1>9, <3>2 DEF BellLoaded, MarksTrue, Going, ClickGoing
      <4>3. d \in Going("read", "answered") => click[d].id \in ShownIds /\ notices[click[d].id] = "read"
        BY <1>9 DEF BellLoaded, MarksTrue
      <4>4. \A i \in Notices : notices[i] = "read" => notices'[i] = "read"
        BY <1>4, <1>16
      <4>5. ShownIds \subseteq Notices
        BY <1>15 DEF KeptRows
      <4>6. ~(click[d].kind = "more" /\ ClickGoing(d))
        BY <1>9, <3>2
      <4>7. QED
        BY <1>11, <1>12, <2>2, <3>2, <4>1, <4>2, <4>3, <4>4, <4>5, <4>6 DEF Going, ClickGoing
    <3>3. QED
      BY <3>1, <3>2
  <2>9. QED
    BY <1>9, <1>13, <2>6, <2>7, <2>8 DEF BellLoaded
<1>17. CASE kind \in {"all", "clear"}
  <2>1. UnreadRows' = {} /\ (kind = "clear" => KeptRows' = {}) /\ (kind = "all" => KeptRows' = KeptRows)
    BY <1>2, <1>4, <1>17 DEF UnreadRows, KeptRows
  <2>2. ~NoSweepAnswered' /\ (kind = "all" => Going("clear", "answered")' = {})
                          /\ (kind = "clear" => Going("all", "answered")' = {})
    BY <1>10, <1>11, <1>17 DEF NoSweepAnswered, Going
  <2>3. SweptTrue'
    BY <1>1, <1>12, <1>15, <1>17, <2>1, <2>2 DEF SweptTrue
  <2>4. ViewTrue'
    BY <2>2 DEF ViewTrue
  <2>5. ComingNew'
    BY <1>1, <1>9, <1>12, <1>17 DEF BellLoaded, ComingNew
  <2>6. ListTrue'
    BY <1>1, <1>9, <1>12, <1>17, <2>1 DEF BellLoaded, ListTrue
  <2>7. MarksTrue'
    BY <1>10, <1>11, <1>17, <1>9, <1>12 DEF MarksTrue, Going, ClickGoing
  <2>8. QED
    BY <1>9, <1>13, <2>3, <2>4, <2>5, <2>6, <2>7 DEF BellLoaded
<1>18. CASE kind = "more"
  <2>1. notices' = notices
    <3>1. \A i \in Notices : notices'[i] = notices[i]
      BY <1>4, <1>18
    <3>2. DOMAIN notices' = Notices
      BY <1>1 DEF AfterClick
    <3>3. notices' = [i \in Notices |-> notices'[i]]
      BY <1>1, <3>2 DEF AfterClick
    <3>4. QED
      BY <1>2, <3>1, <3>3
  <2>2. UnreadRows' = UnreadRows /\ KeptRows' = KeptRows /\ \A from : (PageFrom(from))' = PageFrom(from)
    BY <2>1 DEF UnreadRows, KeptRows, PageFrom, RowsBehind
  <2>3. NoSweepAnswered' /\ AnsweredReads' = {} /\ AnsweredReads = {}
    BY <1>1, <1>3, <1>10, <1>11, <1>18 DEF NoSweepAnswered, AnsweredReads, Going
  <2>4. SeenUnread' = SeenUnread
    BY <1>12, <2>2, <2>3 DEF SeenUnread
  <2>5. ComingNew'
    BY <1>1, <1>9, <1>12, <1>13, <2>2 DEF BellLoaded, ComingNew
  <2>6. SweptTrue' /\ ViewTrue' /\ ListTrue'
    BY <1>1, <1>9, <1>12, <1>15, <2>2, <2>3, <2>4 DEF BellLoaded, SweptTrue, ViewTrue, ListTrue, NoSweepAnswered
  <2>7. id = cursor /\ cursor # 0
    BY <1>3, <1>8, <1>9, <1>18 DEF BellLoaded, MarksTrue
  <2>8. MarksTrue'
    <3> SUFFICES ASSUME NEW d \in Clicks
                 PROVE  /\ ~(d \in Going("read", "sent"))' /\ ~(d \in Going("read", "answered"))'
                        /\ click'[d].kind = "more" /\ ClickGoing(d)' => click'[d].id = cursor /\ cursor # 0
                        /\ (d \in Going("more", "answered"))' =>
                             \A from \in Notices : from = cursor => click'[d].page = PageFrom(from)
      BY <1>1, <2>2 DEF MarksTrue
    <3>1. CASE d = c
      BY <1>11, <1>18, <2>7, <3>1 DEF Going
    <3>2. CASE d # c
      BY <1>9, <1>10, <1>11, <1>12, <1>18, <3>2 DEF Going
    <3>3. QED
      BY <3>1, <3>2
  <2>9. QED
    BY <1>9, <1>13, <2>5, <2>6, <2>8 DEF BellLoaded
<1>19. QED
  BY <1>9, <1>16, <1>17, <1>18

\* What a request that is over leaves behind.
LEMMA OverBell ==
  ASSUME BellInv, ~excused, NEW c \in Clicks, ClickGoing(c), click' = [click EXCEPT ![c] = NoClick],
         UNCHANGED <<notices, sending, wire>>, click[c].kind = "read" => ShownIds' = ShownIds
  PROVE  /\ UnreadRows' = UnreadRows /\ KeptRows' = KeptRows /\ Coming' = Coming
         /\ ClicksApart' /\ MarksTrue' /\ NoSweepAnswered' /\ ~ClickSweeping'
         /\ AnsweredReads' = {click[d].id : d \in Going("read", "answered") \ {c}}
         /\ click[c].kind # "read" => AnsweredReads' = {}
         /\ \A kind : (Going(kind, "answered"))' = Going(kind, "answered") \ {c}
<1>1. /\ loading.over /\ BellLoaded
      /\ \A d \in Clicks \ {c} : ClickGoing(d) =>
           click[c].kind = "read" /\ click[d].kind = "read" /\ click[d].id # click[c].id
  BY ClickUnderWay
<1>2. click'[c].at = "idle" /\ \A d \in Clicks \ {c} : click'[d] = click[d]
  BY ClickOver DEF BellInv
<1>3. UnreadRows' = UnreadRows /\ KeptRows' = KeptRows /\ Coming' = Coming
  BY DEF UnreadRows, KeptRows, Coming
<1>4. \A d \in Clicks : ClickGoing(d)' => d # c /\ ClickGoing(d) /\ click'[d] = click[d]
  BY <1>2 DEF ClickGoing
<1>5. \A d \in Clicks : ClickGoing(d)' => click[c].kind = "read" /\ click'[d].kind = "read"
  BY <1>1, <1>4
<1>6. ClicksApart'
  BY <1>1, <1>4 DEF BellLoaded, ClicksApart
<1>7. \A kind : (Going(kind, "answered"))' = Going(kind, "answered") \ {c}
  BY <1>2 DEF Going
<1>8. AnsweredReads' = {click[d].id : d \in Going("read", "answered") \ {c}}
  <2>1. \A d \in Going("read", "answered") \ {c} : click'[d] = click[d]
    BY <1>2 DEF Going
  <2>2. QED
    BY <1>7, <2>1 DEF AnsweredReads
<1>9. \A d \in Clicks : click'[d].at = "answered" => ClickGoing(d)'
  BY DEF ClickGoing
<1>10. NoSweepAnswered' /\ ~ClickSweeping'
  BY <1>5, <1>9 DEF NoSweepAnswered, Going, ClickSweeping
<1>11. click[c].kind # "read" => AnsweredReads' = {}
  BY <1>5, <1>9 DEF AnsweredReads, Going
<1>12. MarksTrue'
  <2> SUFFICES ASSUME NEW d \in Clicks
               PROVE  /\ (d \in Going("read", "sent"))' => click'[d].id \in ShownIds' \cap UnreadRows
                      /\ (d \in Going("read", "answered"))' => click'[d].id \in ShownIds'
                           /\ notices[click'[d].id] = "read"
                      /\ ~(click'[d].kind = "more" /\ ClickGoing(d)')
                      /\ ~(d \in Going("more", "answered"))'
    BY <1>3 DEF MarksTrue
  <2>1. CASE ClickGoing(d)'
    <3>1. d # c /\ click'[d] = click[d] /\ click'[d].kind = "read" /\ ShownIds' = ShownIds
      BY <1>4, <1>5, <2>1
    <3>2. /\ d \in Going("read", "sent") => click[d].id \in ShownIds \cap UnreadRows
          /\ d \in Going("read", "answered") => click[d].id \in ShownIds /\ notices[click[d].id] = "read"
      BY <1>1 DEF BellLoaded, MarksTrue
    <3>3. QED
      BY <3>1, <3>2 DEF Going
  <2>2. CASE ~ClickGoing(d)'
    BY <2>2 DEF Going, ClickGoing
  <2>3. QED
    BY <2>1, <2>2
<1>13. QED
  BY <1>3, <1>6, <1>7, <1>8, <1>10, <1>11, <1>12

\* A mark is repeated: the badge had counted the row, which is shown as read from now on.
LEMMA RepeatReadBell ==
  ASSUME BellInv, ~excused, NEW c \in Clicks, RepeatClick(c), click[c].kind = "read"
  PROVE  BellLoaded'
<1> USE DEF BellInv
<1>1. PICK id \in Notices \cup {None} : id = click[c].id
  BY DEF FeedTyped, ClickRecord
<1>2. /\ click[c].at = "answered" /\ click' = [click EXCEPT ![c] = NoClick]
      /\ shown' = MarkShown({id}) /\ badge' = (IF badge = 0 THEN 0 ELSE badge - 1)
      /\ cursor' = cursor /\ borders' = borders \cup {cursor}
      /\ UNCHANGED <<notices, sending, socket, wire, loading, breaks, excused>>
  BY <1>1 DEF RepeatClick
<1>3. ClickGoing(c)
  BY <1>2 DEF ClickGoing
<1>4. /\ DOMAIN shown' = DOMAIN shown
      /\ \A k \in DOMAIN shown : /\ shown'[k].id = shown[k].id
                                 /\ shown'[k].read <=> shown[k].read \/ shown[k].id = id
  BY <1>2, MarkShownTyped DEF FeedTyped
<1>5. ShownIds' = ShownIds
  BY <1>4 DEF ShownIds
<1>6. /\ loading.over /\ BellLoaded
      /\ \A d \in Clicks \ {c} : ClickGoing(d) => click[d].kind = "read" /\ click[d].id # id
      /\ \A d \in Clicks \ {c} : d \notin Going("all", "answered") /\ d \notin Going("clear", "answered")
  BY <1>1, <1>3, ClickUnderWay
<1>7. /\ UnreadRows' = UnreadRows /\ KeptRows' = KeptRows /\ Coming' = Coming
      /\ ClicksApart' /\ MarksTrue' /\ NoSweepAnswered' /\ ~ClickSweeping'
      /\ AnsweredReads' = {click[d].id : d \in Going("read", "answered") \ {c}}
  BY <1>2, <1>3, <1>5, OverBell
<1>8. NoSweepAnswered
  BY <1>6 DEF NoSweepAnswered, Going
<1>9. /\ badge = Cardinality(SeenUnread) /\ cursor \in KeptRows \cup {0}
      /\ \A k \in DOMAIN shown : shown[k].id \in KeptRows /\ (shown[k].read <=> shown[k].id \notin SeenUnread)
  BY <1>6, <1>8 DEF BellLoaded, ViewTrue
<1>10. c \in Going("read", "answered") /\ id \in AnsweredReads
  BY <1>1, <1>2 DEF Going, AnsweredReads
<1>11. id \in ShownIds /\ notices[id] = "read"
  BY <1>1, <1>6, <1>10 DEF BellLoaded, MarksTrue
<1>12. id \notin UnreadRows
  BY <1>11 DEF UnreadRows
<1>13. AnsweredReads' = AnsweredReads \ {id}
  <2>1. \A d \in Going("read", "answered") \ {c} : click[d].id # id
    BY <1>6 DEF Going, ClickGoing
  <2>2. QED
    BY <1>1, <1>7, <2>1 DEF AnsweredReads
<1>14. SeenUnread' = SeenUnread \ {id} /\ id \in SeenUnread
  BY <1>7, <1>10, <1>12, <1>13 DEF SeenUnread
<1>15. SeenUnread \in SUBSET Notices
  <2>1. AnsweredReads \subseteq ShownIds
    BY <1>6 DEF BellLoaded, MarksTrue, AnsweredReads, Going
  <2>2. ShownIds \subseteq Notices
    BY <1>9 DEF ShownIds, KeptRows
  <2>3. QED
    BY <2>1, <2>2 DEF SeenUnread, UnreadRows
<1>16. badge' = Cardinality(SeenUnread')
  <2>1. PICK seen \in SUBSET Notices : seen = SeenUnread
    BY <1>15
  <2>2. IsFiniteSet(seen) /\ Cardinality(seen) \in Nat /\ Cardinality(seen \ {id}) \in Nat
    BY NoticesFinite
  <2>3. Cardinality(seen \ {id}) = Cardinality(seen) - 1
    BY <1>14, <2>1, <2>2, FS_RemoveElement
  <2>4. QED
    BY <1>2, <1>9, <1>14, <2>1, <2>2, <2>3
<1>17. ViewTrue'
  BY <1>2, <1>4, <1>7, <1>9, <1>14, <1>16 DEF ViewTrue
<1>18. ComingNew' /\ SweptTrue'
  <2>1. ComingNew'
    BY <1>2, <1>5, <1>6, <1>7 DEF BellLoaded, ComingNew
  <2>2. SweptTrue'
    BY <1>7 DEF SweptTrue, NoSweepAnswered
  <2>3. QED
    BY <2>1, <2>2
<1>19. ListTrue'
  <2>1. /\ \A j, k \in DOMAIN shown' : shown'[j].id = shown'[k].id => j = k
        /\ \A k \in DOMAIN shown' : cursor < shown'[k].id
    BY <1>4, <1>6 DEF BellLoaded, ListTrue
  <2>2. /\ cursor # 0 => cursor \in borders
        /\ \A i \in KeptRows : i > cursor => i \in ShownIds \cup borders \cup Coming
    BY <1>6 DEF BellLoaded, ListTrue
  <2>3. QED
    BY <1>2, <1>5, <1>7, <2>1, <2>2 DEF ListTrue
<1>20. QED
  BY <1>7, <1>17, <1>18, <1>19 DEF BellLoaded

\* A sweep is repeated: nothing is unread, or nothing is there.
LEMMA RepeatSweepBell ==
  ASSUME BellInv, ~excused, NEW c \in Clicks, RepeatClick(c), click[c].kind \in {"all", "clear"}
  PROVE  BellLoaded'
<1> USE DEF BellInv
<1>1. PICK kind \in {"all", "clear"} : kind = click[c].kind
  OBVIOUS
<1>2. /\ click[c].at = "answered" /\ click' = [click EXCEPT ![c] = NoClick] /\ badge' = 0
      /\ kind = "all" => shown' = MarkShown(Notices) /\ cursor' = cursor
      /\ kind = "clear" => shown' = <<>> /\ cursor' = 0
      /\ borders' = borders \cup {cursor'}
      /\ UNCHANGED <<notices, sending, socket, wire, loading, breaks, excused>>
  BY <1>1 DEF RepeatClick
<1>3. ClickGoing(c)
  BY <1>2 DEF ClickGoing
<1>4. loading.over /\ BellLoaded /\ Coming = {}
  BY <1>1, <1>3, ClickUnderWay
<1>5. /\ UnreadRows' = UnreadRows /\ KeptRows' = KeptRows /\ Coming' = Coming
      /\ ClicksApart' /\ MarksTrue' /\ NoSweepAnswered' /\ ~ClickSweeping' /\ AnsweredReads' = {}
  BY <1>1, <1>2, <1>3, OverBell
<1>6. c \in Going(kind, "answered") /\ UnreadRows \subseteq KeptRows
  BY <1>1, <1>2 DEF Going, UnreadRows, KeptRows
<1>7. /\ UnreadRows = {}
      /\ kind = "clear" => KeptRows = {}
      /\ kind = "all" => ShownIds \subseteq KeptRows /\ cursor \in KeptRows \cup {0}
  BY <1>1, <1>4, <1>6 DEF BellLoaded, SweptTrue
<1>8. SeenUnread' = {} /\ Cardinality(SeenUnread') = 0
  <2>1. SeenUnread' = {}
    BY <1>5, <1>7 DEF SeenUnread
  <2>2. QED
    BY <2>1, FS_EmptySet
<1>9. SweptTrue'
  BY <1>5 DEF SweptTrue, NoSweepAnswered
<1>10. ComingNew'
  BY <1>2, <1>4, <1>5 DEF BellLoaded, ComingNew
<1>11. CASE kind = "all"
  <2>1. /\ DOMAIN shown' = DOMAIN shown
        /\ \A k \in DOMAIN shown : /\ shown'[k].id = shown[k].id
                                   /\ shown'[k].read <=> shown[k].read \/ shown[k].id \in Notices
    BY <1>2, <1>11, MarkShownTyped DEF FeedTyped
  <2>2. ShownIds' = ShownIds
    BY <2>1 DEF ShownIds
  <2>3. \A k \in DOMAIN shown : shown[k].id \in KeptRows /\ shown[k].id \in Notices
    BY <1>7, <1>11 DEF ShownIds, KeptRows
  <2>4. ViewTrue'
    BY <1>2, <1>5, <1>7, <1>8, <1>11, <2>1, <2>3 DEF ViewTrue
  <2>5. ListTrue'
    BY <1>2, <1>4, <1>5, <1>11, <2>1, <2>2 DEF BellLoaded, ListTrue
  <2>6. QED
    BY <1>5, <1>9, <1>10, <2>4, <2>5 DEF BellLoaded
<1>12. CASE kind = "clear"
  <2>1. shown' = <<>> /\ DOMAIN shown' = {} /\ cursor' = 0
    BY <1>2, <1>12
  <2>2. ViewTrue'
    BY <1>2, <1>8, <2>1 DEF ViewTrue
  <2>3. KeptRows' = {}
    BY <1>5, <1>7, <1>12
  <2>4. ListTrue'
    BY <2>1, <2>3 DEF ListTrue
  <2>5. QED
    BY <1>5, <1>9, <1>10, <2>2, <2>4 DEF BellLoaded
<1>13. QED
  BY <1>11, <1>12

\* A page is appended: its rows are all below the cursor, its read marks those of the rows.
LEMMA RepeatMoreBell ==
  ASSUME BellInv, ~excused, NEW c \in Clicks, RepeatClick(c), click[c].kind = "more"
  PROVE  BellLoaded'
<1> USE DEF BellInv
<1>1. PICK page \in FeedPages : page = click[c].page
  BY DEF FeedTyped, ClickRecord
<1>2. /\ click[c].at = "answered" /\ click' = [click EXCEPT ![c] = NoClick]
      /\ shown' = shown \o page.items /\ badge' = badge /\ cursor' = page.next
      /\ borders' = borders \cup {page.next}
      /\ UNCHANGED <<notices, sending, socket, wire, loading, breaks, excused>>
  BY <1>1 DEF RepeatClick
<1>3. ClickGoing(c) /\ c \in Going("more", "answered")
  BY <1>2 DEF ClickGoing, Going
<1>4. /\ loading.over /\ BellLoaded
      /\ \A d \in Clicks \ {c} : ~ClickGoing(d)
  BY <1>3, ClickUnderWay
<1>5. /\ UnreadRows' = UnreadRows /\ KeptRows' = KeptRows /\ Coming' = Coming
      /\ ClicksApart' /\ MarksTrue' /\ NoSweepAnswered' /\ ~ClickSweeping' /\ AnsweredReads' = {}
  BY <1>2, <1>3, OverBell
<1>6. NoSweepAnswered /\ AnsweredReads = {}
  BY <1>2, <1>4 DEF NoSweepAnswered, AnsweredReads, Going, ClickGoing
<1>7. /\ badge = Cardinality(SeenUnread) /\ cursor \in KeptRows \cup {0}
      /\ \A k \in DOMAIN shown : shown[k].id \in KeptRows /\ (shown[k].read <=> shown[k].id \notin SeenUnread)
  BY <1>4, <1>6 DEF BellLoaded, ViewTrue
<1>8. SeenUnread = UnreadRows \ Coming /\ SeenUnread' = SeenUnread
  BY <1>5, <1>6 DEF SeenUnread
<1>9. cursor # 0
  BY <1>3, <1>4 DEF BellLoaded, MarksTrue
<1>10. PICK from \in Notices : from = cursor /\ from \in KeptRows
  BY <1>7, <1>9 DEF KeptRows
<1>11. page = PageFrom(from)
  BY <1>1, <1>3, <1>4, <1>10 DEF BellLoaded, MarksTrue
<1>12. \A i \in Notices : i \in Nat /\ i > 0
  BY FeedAssumption
<1>13. from # 0 /\ RowsBehind(from) = {i \in KeptRows : i < from}
  BY <1>10, <1>12 DEF RowsBehind
<1>14. PICK items \in Seq(ShownEntries), next \in Notices \cup {0} : items = page.items /\ next = page.next
  BY DEF FeedPages
<1>15. /\ \A k \in DOMAIN items : /\ items[k].id \in KeptRows /\ items[k].id < from
                                  /\ items[k].read <=> notices[items[k].id] = "read"
       /\ \A j, k \in DOMAIN items : items[j].id = items[k].id => j = k
       /\ next # 0 => /\ next \in KeptRows /\ next < from
                      /\ \A k \in DOMAIN items : next < items[k].id
       /\ \A i \in KeptRows : i < from /\ i > next => \E k \in DOMAIN items : items[k].id = i
  BY <1>11, <1>13, <1>14, PageRows DEF FeedTyped
<1>16. /\ \A i \in KeptRows : i \in Notices /\ i \in Nat /\ i > 0
       /\ \A i \in KeptRows : i \notin UnreadRows <=> notices[i] = "read"
  BY <1>12 DEF KeptRows, UnreadRows
<1>17. next < from /\ \A k \in DOMAIN items : next < items[k].id
  <2>1. CASE next = 0
    <3>1. \A k \in DOMAIN items : items[k].id \in Nat /\ items[k].id > 0
      BY <1>15, <1>16
    <3>2. from \in Nat /\ from > 0
      BY <1>12
    <3>3. QED
      BY <2>1, <3>1, <3>2
  <2>2. CASE next # 0
    BY <1>15, <2>2
  <2>3. QED
    BY <2>1, <2>2
<1>18. PICK n \in Nat, m \in Nat : n = Len(shown) /\ m = Len(items)
  BY DEF FeedTyped
<1>19. /\ DOMAIN shown = 1..n /\ DOMAIN items = 1..m /\ DOMAIN shown' = 1..(n + m)
       /\ \A k \in 1..n : shown'[k] = shown[k]
       /\ \A k \in 1..(n + m) : k > n => shown'[k] = items[k - n]
  <2>1. shown \in Seq(ShownEntries) /\ shown' = shown \o items
    BY <1>2, <1>14 DEF FeedTyped
  <2>2. QED
    BY <1>18, <2>1
<1>20. /\ \A k \in 1..(n + m) : k \in 1..n \/ (k > n /\ k - n \in 1..m)
       /\ \A k \in 1..n : k \in 1..(n + m)
       /\ \A k \in 1..m : k + n \in 1..(n + m) /\ k + n > n /\ (k + n) - n = k
  BY <1>18
<1>21. \A k \in DOMAIN shown' :
         \/ k \in DOMAIN shown /\ shown'[k] = shown[k]
         \/ k > n /\ k - n \in DOMAIN items /\ shown'[k] = items[k - n]
  BY <1>19, <1>20
<1>22. ShownIds' = ShownIds \cup {items[k].id : k \in DOMAIN items}
  <2>1. ASSUME NEW k \in DOMAIN shown' PROVE shown'[k].id \in ShownIds \cup {items[j].id : j \in DOMAIN items}
    BY <1>21 DEF ShownIds
  <2>2. ASSUME NEW k \in DOMAIN shown PROVE shown[k].id \in ShownIds'
    BY <1>19, <1>20 DEF ShownIds
  <2>3. ASSUME NEW k \in DOMAIN items PROVE items[k].id \in ShownIds'
    <3>1. k + n \in DOMAIN shown' /\ shown'[k + n] = items[k]
      BY <1>19, <1>20
    <3>2. QED
      BY <3>1 DEF ShownIds
  <2>4. ShownIds' \subseteq ShownIds \cup {items[j].id : j \in DOMAIN items}
    BY <2>1 DEF ShownIds
  <2>5. ShownIds \subseteq ShownIds'
    BY <2>2 DEF ShownIds
  <2>6. QED
    BY <2>3, <2>4, <2>5
<1>23. \A k \in DOMAIN shown : shown[k].id \in KeptRows /\ from < shown[k].id
  BY <1>4, <1>7, <1>10 DEF BellLoaded, ListTrue
<1>24. \A i \in Coming : from < i /\ i \in Notices
  BY <1>4, <1>10 DEF BellLoaded, ComingNew, UnreadRows
<1>25. \A k \in DOMAIN items : items[k].id \notin Coming /\ items[k].id \notin ShownIds
  <2>1. \A k \in DOMAIN items : items[k].id \in Nat /\ items[k].id < from
    BY <1>15, <1>16
  <2>2. \A i \in ShownIds : i \in Nat /\ from < i
    BY <1>12, <1>16, <1>23 DEF ShownIds
  <2>3. from \in Nat /\ \A i \in Coming : i \in Nat
    BY <1>12, <1>24
  <2>4. QED
    BY <1>24, <2>1, <2>2, <2>3
<1>26. \A i \in Notices : from < i => next < i
  <2>1. next \in Nat /\ from \in Nat
    BY <1>12, <1>14
  <2>2. next < from
    BY <1>17
  <2>3. ASSUME NEW i \in Notices, from < i PROVE next < i
    <3>1. i \in Nat
      BY <1>12
    <3>2. QED
      BY <2>1, <2>2, <2>3, <3>1
  <2>4. QED
    BY <2>3
<1>27. ViewTrue'
  <2>1. ASSUME NEW k \in DOMAIN shown'
        PROVE  shown'[k].id \in KeptRows /\ (shown'[k].read <=> shown'[k].id \notin SeenUnread)
    <3>1. CASE k \in DOMAIN shown /\ shown'[k] = shown[k]
      BY <1>7, <3>1
    <3>2. CASE k - n \in DOMAIN items /\ shown'[k] = items[k - n]
      <4>1. \A j \in DOMAIN items : /\ items[j].id \in KeptRows
                                    /\ items[j].read <=> items[j].id \notin UnreadRows
        BY <1>15, <1>16
      <4>2. \A j \in DOMAIN items : items[j].read <=> items[j].id \notin SeenUnread
        BY <1>8, <1>25, <4>1
      <4>3. QED
        BY <3>2, <4>1, <4>2
    <3>3. QED
      BY <1>21, <3>1, <3>2
  <2>2. cursor' \in KeptRows \cup {0}
    BY <1>2, <1>14, <1>15
  <2>3. QED
    BY <1>2, <1>5, <1>7, <1>8, <2>1, <2>2 DEF ViewTrue
<1>28. ComingNew'
  <2>1. Coming \cap ShownIds' = {}
    BY <1>4, <1>22, <1>25 DEF BellLoaded, ComingNew
  <2>2. \A i \in Coming : cursor' < i
    BY <1>2, <1>14, <1>24, <1>26
  <2>3. QED
    BY <1>2, <1>4, <1>5, <2>1, <2>2 DEF BellLoaded, ComingNew
<1>29. SweptTrue'
  BY <1>5 DEF SweptTrue, NoSweepAnswered
<1>30. ListTrue'
  <2>1. ASSUME NEW j \in DOMAIN shown', NEW k \in DOMAIN shown', shown'[j].id = shown'[k].id PROVE j = k
    <3>1. CASE j \in DOMAIN shown /\ k \in DOMAIN shown
      BY <1>4, <1>19, <2>1, <3>1 DEF BellLoaded, ListTrue
    <3>2. CASE j \notin DOMAIN shown /\ k \notin DOMAIN shown
      <4>1. j - n = k - n
        BY <1>15, <1>21, <2>1, <3>2
      <4>2. j \in Nat /\ k \in Nat
        BY <1>19
      <4>3. QED
        BY <1>18, <4>1, <4>2
    <3>3. CASE (j \in DOMAIN shown) # (k \in DOMAIN shown)
      <4>1. \A i \in DOMAIN shown : shown[i].id \in ShownIds
        BY DEF ShownIds
      <4>2. QED
        BY <1>19, <1>21, <1>25, <2>1, <3>3, <4>1
    <3>4. QED
      BY <3>1, <3>2, <3>3
  <2>2. \A k \in DOMAIN shown' : cursor' < shown'[k].id
    <3>1. \A k \in DOMAIN shown : next < shown[k].id
      BY <1>16, <1>23, <1>26
    <3>2. QED
      BY <1>2, <1>14, <1>17, <1>21, <3>1
  <2>3. ASSUME NEW i \in KeptRows, i > next PROVE i \in ShownIds' \cup borders' \cup Coming
    <3>1. i \in Nat /\ from \in Nat
      BY <1>12, <1>16
    <3>2. CASE i > from
      BY <1>2, <1>4, <1>10, <1>22, <3>2 DEF BellLoaded, ListTrue
    <3>3. CASE i = from
      BY <1>2, <1>4, <1>9, <1>10, <3>3 DEF BellLoaded, ListTrue
    <3>4. CASE i < from
      BY <1>15, <1>22, <2>3, <3>4
    <3>5. QED
      BY <3>1, <3>2, <3>3, <3>4
  <2>4. QED
    BY <1>2, <1>5, <1>14, <2>1, <2>2, <2>3 DEF ListTrue
<1>31. QED
  BY <1>5, <1>27, <1>28, <1>29, <1>30 DEF BellLoaded

LEMMA RepeatBell ==
  ASSUME BellInv, NEW c \in Clicks, RepeatClick(c)
  PROVE  Ordered' /\ Bell'
<1>1. ClickGoing(c) /\ UNCHANGED <<notices, loading, excused>>
  BY DEF RepeatClick, ClickGoing
<1>2. Ordered'
  BY <1>1 DEF BellInv, Ordered
<1>3. SUFFICES ASSUME ~excused PROVE loading.over /\ BellLoaded'
  BY <1>1, <1>2 DEF Bell
<1>4. loading.over /\ click[c].kind \in {"read", "all", "clear", "more"}
  BY <1>1, <1>3, ClickUnderWay
<1>5. QED
  BY <1>3, <1>4, RepeatReadBell, RepeatSweepBell, RepeatMoreBell

\* A request fails that has changed nothing, or only read.
LEMMA FailBell ==
  ASSUME BellInv, NEW c \in Clicks, ClickFails(c)
  PROVE  Ordered' /\ Bell'
<1>1. /\ ClickGoing(c) /\ click' = [click EXCEPT ![c] = NoClick]
      /\ excused' = (excused \/ (click[c].at = "answered" /\ click[c].kind # "more"))
      /\ UNCHANGED <<notices, sending, socket, wire, loading, breaks>>
           /\ UNCHANGED <<shown, badge, cursor, borders>>
  BY DEF ClickFails, feedView, Excuse
<1>2. Ordered'
  BY <1>1 DEF BellInv, Ordered
<1>3. SUFFICES ASSUME ~excused, ~(click[c].at = "answered"
                        /\ click[c].kind # "more") PROVE loading.over /\ BellLoaded'
  BY <1>1, <1>2 DEF Bell
<1>4. loading.over /\ BellLoaded
  BY <1>1, <1>3, ClickUnderWay
<1>5. ShownIds' = ShownIds
  BY <1>1 DEF ShownIds
<1>6. /\ UnreadRows' = UnreadRows /\ KeptRows' = KeptRows /\ Coming' = Coming
      /\ ClicksApart' /\ MarksTrue' /\ NoSweepAnswered' /\ ~ClickSweeping'
      /\ AnsweredReads' = {click[d].id : d \in Going("read", "answered") \ {c}}
      /\ \A kind : (Going(kind, "answered"))' = Going(kind, "answered") \ {c}
  BY <1>1, <1>3, <1>5, OverBell
<1>7. \A kind \in {"read", "all", "clear"} : c \notin Going(kind, "answered")
  BY <1>3 DEF Going
<1>8. AnsweredReads' = AnsweredReads /\ NoSweepAnswered
  BY <1>6, <1>7 DEF AnsweredReads, NoSweepAnswered
<1>9. SeenUnread' = SeenUnread
  BY <1>6, <1>8 DEF SeenUnread
<1>10. ComingNew' /\ SweptTrue'
  <2>1. ComingNew'
    BY <1>1, <1>4, <1>5, <1>6 DEF BellLoaded, ComingNew
  <2>2. SweptTrue'
    BY <1>6 DEF SweptTrue, NoSweepAnswered
  <2>3. QED
    BY <2>1, <2>2
<1>11. ViewTrue' /\ ListTrue'
  BY <1>1, <1>4, <1>5, <1>6, <1>8, <1>9 DEF BellLoaded, ViewTrue, ListTrue
<1>12. QED
  BY <1>4, <1>6, <1>10, <1>11 DEF BellLoaded

(***************************************************************************)
(* The theorem.                                                            *)
(***************************************************************************)
LEMMA BellStepInv == BellInv /\ [FeedNext]_feedVars => BellInv'
<1> SUFFICES ASSUME BellInv, [FeedNext]_feedVars PROVE BellInv'
  OBVIOUS
<1>1. FeedTyped
  BY DEF BellInv
<1>2. CASE CreateForCameraEvent
  BY <1>1, <1>2, CreateTyped, CreateBell DEF BellInv
<1>3. CASE SendToUser \/ ReceiveNotice \/ SocketJoins \/ SocketBreaks
  BY <1>1, <1>3, SocketTyped, SendBell, ReceiveBell, SocketBell DEF BellInv
<1>4. CASE LoadPage \/ LoadCount \/ LoadEnd \/ LoadFails
  BY <1>1, <1>4, LoadTyped, LoadBell, LoadEndBell DEF BellInv
<1>5. ASSUME NEW c \in Clicks, ClickRead(c) \/ ClickSweep(c) \/ ClickMore(c) PROVE BellInv'
  BY <1>1, <1>5, ClickTyped, ClickBell DEF BellInv
<1>6. ASSUME NEW c \in Clicks, ServeClick(c) \/ RepeatClick(c) \/ ClickFails(c) PROVE BellInv'
  BY <1>1, <1>6, AnswerTyped, ServeBell, RepeatBell, FailBell DEF BellInv
<1>7. CASE UNCHANGED feedVars
  <2>1. /\ UNCHANGED <<notices, sending, socket, wire, loading, shown, badge, cursor, click, breaks>>
        /\ UNCHANGED <<borders, excused>>
    BY <1>7 DEF feedVars
  <2>2. FeedTyped'
    BY <1>1, <2>1 DEF FeedTyped
  <2>3. Untouched => Untouched'
    BY <2>1 DEF Untouched, PageFrom, RowsBehind, KeptRows, UnreadRows, ClickGoing
  <2>4. QED
    BY <2>1, <2>2, <2>3, BellKept DEF BellInv, Bell
<1>8. QED
  BY <1>2, <1>3, <1>4, <1>5, <1>6, <1>7 DEF FeedNext

\* The bell's invariant (useNotifications, src/apps/web/src/hooks/use-notifications.ts:77).
THEOREM BellInvHolds == FeedSpec => []BellInv
<1>1. FeedInit => BellInv
  BY InitBell
<1>2. QED
  BY <1>1, BellStepInv, PTL DEF FeedSpec

\* What the list shows once, it shows in as many places as there are rows.
LEMMA ShownOnce ==
  ASSUME FeedTyped, \A j, k \in DOMAIN shown : shown[j].id = shown[k].id => j = k
  PROVE  Cardinality(ShownIds) = Len(shown)
<1>1. PICK n \in Nat : n = Len(shown) /\ DOMAIN shown = 1..n
  BY DEF FeedTyped
<1>2. PICK ids : ids = [k \in 1..n |-> shown[k].id]
  OBVIOUS
<1>3. ids \in Bijection(1..n, ShownIds)
  BY <1>1, <1>2 DEF ShownIds, Bijection, Injection, Surjection, IsInjective
<1>4. IsFiniteSet(1..n) /\ Cardinality(1..n) = n
  BY FS_Interval
<1>5. ExistsBijection(1..n, ShownIds)
  BY <1>3 DEF ExistsBijection
<1>6. Cardinality(ShownIds) = n
  BY <1>4, <1>5, FS_Bijection
<1>7. QED
  BY <1>1, <1>6

\* When everything has arrived and nothing excuses it, the bell tells what the
\* server has.  (useNotifications, src/apps/web/src/hooks/use-notifications.ts:77)
THEOREM BellTellsRowsHolds == FeedSpec => []BellTellsRows
<1>1. BellInv => BellTellsRows
  <2> SUFFICES ASSUME BellInv, FeedSettled, ~excused
               PROVE  /\ badge = Cardinality(UnreadRows) /\ Cardinality(ShownIds) = Len(shown)
                      /\ \A k \in DOMAIN shown :
                           shown[k].id \in KeptRows /\ (shown[k].read <=> shown[k].id \notin UnreadRows)
                      /\ \A i \in KeptRows : i > cursor => i \in ShownIds \cup borders
    BY DEF BellTellsRows
  <2>1. /\ BellLoaded /\ sending = None /\ wire = <<>> /\ DOMAIN wire = {}
        /\ \A c \in Clicks : click[c].at = "idle"
    BY DEF BellInv, Bell, FeedSettled, ClickGoing
  <2>2. Coming = {}
    BY <2>1 DEF Coming
  <2>3. \A kind : Going(kind, "answered") = {}
    BY <2>1 DEF Going
  <2>4. NoSweepAnswered /\ SeenUnread = UnreadRows
    BY <2>2, <2>3 DEF NoSweepAnswered, SeenUnread, AnsweredReads
  <2>5. Cardinality(ShownIds) = Len(shown)
    BY <2>1, ShownOnce DEF BellInv, BellLoaded, ListTrue
  <2>6. QED
    BY <2>1, <2>2, <2>4, <2>5 DEF BellLoaded, ViewTrue, ListTrue
<1>2. QED
  BY <1>1, BellInvHolds, PTL
=============================================================================
