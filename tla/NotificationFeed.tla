--------------------------- MODULE NotificationFeed ---------------------------
(***************************************************************************)
(* The bell of one user: Notification rows (NotificationsService), the     *)
(* socket of NotificationsGateway, and useNotifications of the web         *)
(* application, which loads a first page and a count, adds what the socket *)
(* brings, and repeats on its own list what the user asked the server to   *)
(* do.  Nothing is loaded again after a reconnection.                      *)
(***************************************************************************)
EXTENDS Naturals, Sequences, FiniteSets, Optional

CONSTANTS
  Notices,    \* rows, numbered in the order of their creation
  PageSize,   \* take (20)
  Clicks,     \* what the user has going at the same time
  MaxBreaks   \* bound: connections that break

ASSUME FeedAssumption ==
  /\ Notices \subseteq Nat \ {0} /\ IsFiniteSet(Notices) /\ None \notin Notices
  /\ PageSize \in Nat \ {0} /\ MaxBreaks \in Nat

VARIABLES
  notices,   \* rows: none, unread, read, cleared
  sending,   \* createForCameraEvent: the row made and not yet sent, or None
  socket,    \* the connection is in the user's room
  wire,      \* events on their way, in order
  loading,   \* fetchInitial: page and count as read, or None; over
  shown,     \* the list: id and read of each
  badge,     \* unreadCount
  cursor,    \* cursorRef, 0 for none
  click,     \* calls: kind, place, row, the page answered
  breaks,
  borders,   \* history: rows that were a cursor
  excused    \* history: why the bell may be wrong from now on

feedVars == <<notices, sending, socket, wire, loading, shown, badge, cursor, click, breaks, borders, excused>>
feedView == <<shown, badge, cursor, borders>>

KeptRows == {i \in Notices : notices[i] \in {"unread", "read"}}
UnreadRows == {i \in Notices : notices[i] = "unread"}
NoPage == [items |-> <<>>, next |-> 0]
NoClick == [kind |-> "read", at |-> "idle", id |-> None, page |-> NoPage]

FeedInit ==
  /\ notices \in [Notices -> {"none", "unread"}]
  /\ \A i, j \in Notices : i < j /\ notices[j] # "none" => notices[i] # "none"
  /\ sending = None /\ socket = FALSE /\ wire = <<>>
  /\ loading = [page |-> None, count |-> None, over |-> FALSE]
  /\ shown = <<>> /\ badge = 0 /\ cursor = 0
  /\ click = [c \in Clicks |-> NoClick] /\ breaks = 0
  /\ borders = {} /\ excused = FALSE

ClickGoing(c) == click[c].at # "idle"
ClickSweeping == \E c \in Clicks : ClickGoing(c) /\ click[c].kind \in {"all", "clear"}
Excuse(why) == excused' = (excused \/ why)

(***************************************************************************)
(* A row is made, then sent to whoever is in the room.                     *)
(***************************************************************************)
CreateForCameraEvent ==
  /\ sending = None
  /\ \E i \in Notices :
       /\ notices[i] = "none" /\ \A j \in Notices : j < i => notices[j] # "none"
       /\ notices' = [notices EXCEPT ![i] = "unread"] /\ sending' = i
  /\ Excuse(~loading.over \/ ClickSweeping)
  /\ UNCHANGED <<socket, wire, loading, click, breaks>> /\ UNCHANGED feedView

SendToUser ==
  /\ sending # None /\ sending' = None
  /\ wire' = IF socket THEN Append(wire, sending) ELSE wire
  /\ Excuse(~socket)
  /\ UNCHANGED <<notices, socket, loading, click, breaks>> /\ UNCHANGED feedView

\* The mutant of Received: the list grows and the count does not.
ReceivedQuietly(i) == shown' = <<[id |-> i, read |-> FALSE]>> \o shown /\ UNCHANGED badge
Received(i) == shown' = <<[id |-> i, read |-> FALSE]>> \o shown /\ badge' = badge + 1

ReceiveNotice ==
  /\ wire # <<>> /\ wire' = Tail(wire) /\ Received(Head(wire))
  /\ UNCHANGED <<notices, sending, socket, loading, cursor, click, breaks, borders, excused>>

SocketJoins ==
  /\ ~socket /\ socket' = TRUE
  /\ UNCHANGED <<notices, sending, wire, loading, click, breaks, excused>> /\ UNCHANGED feedView

\* The network, or the API process with a row it was about to send.
SocketBreaks ==
  /\ socket /\ breaks < MaxBreaks /\ breaks' = breaks + 1
  /\ socket' = FALSE /\ wire' = <<>>
  /\ \E kept \in {sending, None} : sending' = kept /\ Excuse(wire # <<>> \/ kept # sending)
  /\ UNCHANGED <<notices, loading, click>> /\ UNCHANGED feedView

(***************************************************************************)
(* findForUser: newest first, from behind the cursor's row, one more than  *)
(* asked for; that one is taken off and is the next cursor.                *)
(***************************************************************************)
RowsBehind(from) == {i \in KeptRows : from = 0 \/ (from \in KeptRows /\ i < from)}
Newer(i, rows) == {j \in rows : j > i}
Newest(rows, k) == CHOOSE i \in rows : Cardinality(Newer(i, rows)) = k - 1
PageFrom(from) ==
  LET found == RowsBehind(from)
      ends == Cardinality(found) <= PageSize
      rows == [k \in 1..(IF ends THEN Cardinality(found) ELSE PageSize) |-> Newest(found, k)] IN
  [items |-> [k \in DOMAIN rows |-> [id |-> rows[k], read |-> notices[rows[k]] = "read"]],
   next |-> IF ends THEN 0 ELSE Newest(found, PageSize + 1)]

LoadPage ==
  /\ ~loading.over /\ loading.page = None /\ loading' = [loading EXCEPT !.page = PageFrom(0)]
  /\ UNCHANGED <<notices, sending, socket, wire, click, breaks, excused>> /\ UNCHANGED feedView

LoadCount ==
  /\ ~loading.over /\ loading.count = None
  /\ loading' = [loading EXCEPT !.count = Cardinality(UnreadRows)]
  /\ UNCHANGED <<notices, sending, socket, wire, click, breaks, excused>> /\ UNCHANGED feedView

LoadEnd ==
  /\ ~loading.over /\ loading.page # None /\ loading.count # None
  /\ shown' = loading.page.items /\ cursor' = loading.page.next /\ badge' = loading.count
  /\ borders' = borders \cup {loading.page.next}
  /\ loading' = [page |-> None, count |-> None, over |-> TRUE]
  /\ UNCHANGED <<notices, sending, socket, wire, click, breaks, excused>>

LoadFails ==
  /\ ~loading.over /\ loading' = [page |-> None, count |-> None, over |-> TRUE] /\ Excuse(TRUE)
  /\ UNCHANGED <<notices, sending, socket, wire, click, breaks>> /\ UNCHANGED feedView

(***************************************************************************)
(* What the user does: the request goes out, the server does it, and when  *)
(* the answer is there the list repeats it.                                *)
(***************************************************************************)
ClicksBeside(c) == {d \in Clicks \ {c} : ClickGoing(d)}
Click(c, kind, id) == click' = [click EXCEPT ![c] = [NoClick EXCEPT !.kind = kind, !.at = "sent", !.id = id]]

\* Marks of two rows do not disturb each other.
ClickRead(c) ==
  /\ ~ClickGoing(c)
  /\ \E k \in DOMAIN shown :
       /\ ~shown[k].read /\ Click(c, "read", shown[k].id)
       /\ Excuse(~loading.over \/ \E d \in ClicksBeside(c) :
                                     click[d].kind # "read" \/ click[d].id = shown[k].id)
  /\ UNCHANGED <<notices, sending, socket, wire, loading, breaks>> /\ UNCHANGED feedView

ClickSweep(c) ==
  /\ ~ClickGoing(c)
  /\ \/ (\E k \in DOMAIN shown : ~shown[k].read) /\ Click(c, "all", None)
     \/ shown # <<>> /\ Click(c, "clear", None)
  /\ Excuse(~loading.over \/ ClicksBeside(c) # {} \/ sending # None \/ wire # <<>>)
  /\ UNCHANGED <<notices, sending, socket, wire, loading, breaks>> /\ UNCHANGED feedView

ClickMore(c) ==
  /\ ~ClickGoing(c) /\ cursor # 0 /\ Click(c, "more", cursor)
  /\ Excuse(ClicksBeside(c) # {})
  /\ UNCHANGED <<notices, sending, socket, wire, loading, breaks>> /\ UNCHANGED feedView

AfterClick(kind, id) ==
  [i \in Notices |->
     CASE notices[i] = "unread" /\ (kind = "all" \/ (kind = "read" /\ i = id)) -> "read"
       [] kind = "clear" /\ i \in KeptRows -> "cleared"
       [] OTHER -> notices[i]]

ServeClick(c) ==
  /\ click[c].at = "sent"
  /\ notices' = AfterClick(click[c].kind, click[c].id)
  /\ click' = [click EXCEPT ![c].at = "answered",
                            ![c].page = IF click[c].kind = "more" THEN PageFrom(click[c].id) ELSE @]
  /\ UNCHANGED <<sending, socket, wire, loading, breaks, excused>> /\ UNCHANGED feedView

MarkShown(ids) == [k \in DOMAIN shown |-> [shown[k] EXCEPT !.read = @ \/ shown[k].id \in ids]]

RepeatClick(c) ==
  LET kind == click[c].kind
      page == click[c].page IN
  /\ click[c].at = "answered" /\ click' = [click EXCEPT ![c] = NoClick]
  /\ shown' = CASE kind = "read" -> MarkShown({click[c].id})
                [] kind = "all" -> MarkShown(Notices)
                [] kind = "clear" -> <<>>
                [] kind = "more" -> shown \o page.items
  /\ badge' = CASE kind = "read" -> IF badge = 0 THEN 0 ELSE badge - 1
                [] kind = "more" -> badge
                [] OTHER -> 0
  /\ cursor' = CASE kind = "clear" -> 0 [] kind = "more" -> page.next [] OTHER -> cursor
  /\ borders' = borders \cup {cursor'}
  /\ UNCHANGED <<notices, sending, socket, wire, loading, breaks, excused>>

\* Done or not, no answer came: the list stays as it is.
ClickFails(c) ==
  /\ ClickGoing(c) /\ click' = [click EXCEPT ![c] = NoClick]
  /\ Excuse(click[c].at = "answered" /\ click[c].kind # "more")
  /\ UNCHANGED <<notices, sending, socket, wire, loading, breaks>> /\ UNCHANGED feedView

FeedNext ==
  \/ CreateForCameraEvent \/ SendToUser \/ ReceiveNotice \/ SocketJoins \/ SocketBreaks
  \/ LoadPage \/ LoadCount \/ LoadEnd \/ LoadFails
  \/ \E c \in Clicks :
       ClickRead(c) \/ ClickSweep(c) \/ ClickMore(c) \/ ServeClick(c) \/ RepeatClick(c) \/ ClickFails(c)

FeedSpec == FeedInit /\ [][FeedNext]_feedVars

(***************************************************************************)
(* Properties.                                                             *)
(***************************************************************************)
FeedTypeOK ==
  /\ notices \in [Notices -> {"none", "unread", "read", "cleared"}]
  /\ sending \in Notices \cup {None} /\ socket \in BOOLEAN /\ wire \in Seq(Notices)
  /\ \A k \in DOMAIN shown : shown[k] \in [id : Notices, read : BOOLEAN]
  /\ badge \in Nat /\ cursor \in Notices \cup {0} /\ borders \subseteq Notices \cup {0}
  /\ \A c \in Clicks : click[c].at \in {"idle", "sent", "answered"}
  /\ loading.over \in BOOLEAN /\ breaks \in 0..MaxBreaks /\ excused \in BOOLEAN

FeedSettled == loading.over /\ sending = None /\ wire = <<>> /\ \A c \in Clicks : ~ClickGoing(c)
ShownIds == {shown[k].id : k \in DOMAIN shown}

\* When everything has arrived, the bell tells what the server has: the number of
\* unread rows, each row once and as it is, and all rows down to the cursor but those
\* that were one.  Unless the first load met a new row or failed, a row was sent to
\* nobody, the answer to a mark or a clear was lost, two requests that disturb each
\* other overlapped, or a row came while all were being marked or cleared.
\* (useNotifications, src/apps/web/src/hooks/use-notifications.ts:77)
BellTellsRows ==
  FeedSettled /\ ~excused =>
    /\ badge = Cardinality(UnreadRows)
    /\ Cardinality(ShownIds) = Len(shown)
    /\ \A k \in DOMAIN shown : shown[k].id \in KeptRows /\ (shown[k].read <=> shown[k].id \notin UnreadRows)
    /\ \A i \in KeptRows : i > cursor => i \in ShownIds \cup borders
=============================================================================
