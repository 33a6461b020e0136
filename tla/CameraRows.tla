------------------------------- MODULE CameraRows -------------------------------
(***************************************************************************)
(* The list of cameras of one page: TenantCamerasPage (and the map), which *)
(* loads all rows at the start and after each of its actions, and patches  *)
(* the status of a row when StatusGateway tells (useCameraStatus).  Loads  *)
(* overlap, are not cancelled, and are not repeated when the socket comes  *)
(* back.  Who changes a status, and which actions there are, is left open. *)
(***************************************************************************)
EXTENDS Naturals, Sequences

LOCAL INSTANCE SequencesExt

CONSTANTS
  PageCameras,  \* cameras
  Fetches,      \* loads at the same time
  MaxTurns,     \* bound: changes of a Camera row
  MaxDrops      \* bound: connections that break

ASSUME RowsAssumption == MaxTurns \in Nat /\ MaxDrops \in Nat

VARIABLES
  camera,    \* Camera rows: their status, "none" before there is one, and "gone"
  telling,   \* transitions: status written and not yet broadcast, in the order of
             \*   the writes, and whether a later one has been broadcast
  room,      \* the page's socket is in the organisation's room
  events,    \* camera:status on their way
  table,     \* what the page shows
  fetch,     \* fetchCameras: place, the list answered, cameras told of since it was read
  turns, drops,
  behind     \* history: cameras whose row may be wrong, until it is right again

rowsVars == <<camera, telling, room, events, table, fetch, turns, drops, behind>>

NoRows == [c \in PageCameras |-> "none"]
NoFetch == [at |-> "idle", list |-> NoRows, since |-> {}]

RowsInit ==
  /\ camera \in [PageCameras -> {"none", "offline"}] /\ telling = <<>> /\ room = FALSE /\ events = <<>>
  /\ table = NoRows /\ fetch = [f \in Fetches |-> NoFetch]
  /\ turns = 0 /\ drops = 0 /\ behind = PageCameras

\* GET /api/cameras
ListAnswer == [c \in PageCameras |-> IF camera[c] = "gone" THEN "none" ELSE camera[c]]

\* The page may be wrong about the cameras of one set, and is not about those it shows
\* as they are.
FallBehind(more) == behind' = {c \in behind \cup more : table'[c] # ListAnswer'[c]}
\* Loads that were read before something was told of these cameras.
ToldSince(these) ==
  [f \in Fetches |-> [fetch[f] EXCEPT !.since = IF fetch[f].at = "read" THEN @ \cup these ELSE @]]

(***************************************************************************)
(* The server.                                                             *)
(***************************************************************************)
RowTurn ==
  /\ turns < MaxTurns /\ turns' = turns + 1

ChangeStatus(c) ==
  /\ RowTurn /\ camera[c] \notin {"none", "gone"}
  /\ \E s \in {"online", "offline"} \ {camera[c]} :
       camera' = [camera EXCEPT ![c] = s] /\ telling' = Append(telling, [id |-> c, status |-> s, late |-> FALSE])
  /\ UNCHANGED <<room, events, table, fetch, drops>> /\ FallBehind({})

\* Nobody is told of a camera that is added or deleted.
AddOrDelete(c) ==
  /\ RowTurn /\ camera[c] # "gone"
  /\ camera' = [camera EXCEPT ![c] = IF @ = "none" THEN "offline" ELSE "gone"]
  /\ fetch' = ToldSince({c})
  /\ UNCHANGED <<telling, room, events, table, drops>> /\ FallBehind({c})

\* After its write, but those of two transitions may change places.
BroadcastStatus(k) ==
  LET c == telling[k].id
      rest == [j \in DOMAIN telling |->
                 [telling[j] EXCEPT !.late = @ \/ (j < k /\ telling[j].id = c)]] IN
  /\ telling' = RemoveAt(rest, k)
  /\ UNCHANGED <<camera, room, table, turns, drops>>
  /\ IF room THEN events' = Append(events, telling[k]) /\ UNCHANGED fetch /\ FallBehind({})
             ELSE fetch' = ToldSince({c}) /\ UNCHANGED events /\ FallBehind({c})

(***************************************************************************)
(* The socket.                                                             *)
(***************************************************************************)
RoomJoined ==
  /\ ~room /\ room' = TRUE
  /\ UNCHANGED <<camera, telling, events, table, fetch, turns, drops, behind>>

LostEvents == {events[k].id : k \in DOMAIN events}

RoomLeft ==
  /\ room /\ drops < MaxDrops /\ drops' = drops + 1
  /\ room' = FALSE /\ events' = <<>>
  /\ fetch' = ToldSince(LostEvents)
  /\ UNCHANGED <<camera, telling, table, turns>> /\ FallBehind(LostEvents)

\* Mutant of Patched: while rows are being loaded, the page waits for them.
PatchedAtRest(e) ==
  [c \in PageCameras |-> IF c = e.id /\ table[c] # "none" /\ \A f \in Fetches : fetch[f].at = "idle"
                    THEN e.status ELSE table[c]]
Patched(e) == [c \in PageCameras |-> IF c = e.id /\ table[c] # "none" THEN e.status ELSE table[c]]

PatchRow ==
  /\ events # <<>> /\ events' = Tail(events)
  /\ table' = Patched(Head(events)) /\ fetch' = ToldSince({Head(events).id})
  /\ UNCHANGED <<camera, telling, room, turns, drops>>
  /\ FallBehind(IF Head(events).late THEN {Head(events).id} ELSE {})

(***************************************************************************)
(* fetchCameras: at the start, and when an action of the page is done.     *)
(***************************************************************************)
FetchBegin(f) ==
  /\ fetch[f].at = "idle" /\ fetch' = [fetch EXCEPT ![f].at = "sent"]
  /\ UNCHANGED <<camera, telling, room, events, table, turns, drops, behind>>

FetchRead(f) ==
  /\ fetch[f].at = "sent" /\ fetch' = [fetch EXCEPT ![f] = [at |-> "read", list |-> ListAnswer, since |-> {}]]
  /\ UNCHANGED <<camera, telling, room, events, table, turns, drops, behind>>

\* Whoever has been told of since may be shown as it was.
FetchAnswered(f) ==
  /\ fetch[f].at = "read" /\ table' = fetch[f].list
  /\ fetch' = [fetch EXCEPT ![f] = NoFetch]
  /\ UNCHANGED <<camera, telling, room, events, turns, drops>> /\ FallBehind(fetch[f].since)

FetchFailed(f) ==
  /\ fetch[f].at # "idle" /\ fetch' = [fetch EXCEPT ![f] = NoFetch]
  /\ UNCHANGED <<camera, telling, room, events, table, turns, drops, behind>>

RowsNext ==
  \/ \E c \in PageCameras : ChangeStatus(c) \/ AddOrDelete(c)
  \/ (\E k \in DOMAIN telling : BroadcastStatus(k)) \/ RoomJoined \/ RoomLeft \/ PatchRow
  \/ \E f \in Fetches : FetchBegin(f) \/ FetchRead(f) \/ FetchAnswered(f) \/ FetchFailed(f)

RowsSpec == RowsInit /\ [][RowsNext]_rowsVars

(***************************************************************************)
(* Properties.                                                             *)
(***************************************************************************)
RowStatus == {"none", "online", "offline"}

RowsTypeOK ==
  /\ camera \in [PageCameras -> RowStatus \cup {"gone"}] /\ table \in [PageCameras -> RowStatus]
  /\ room \in BOOLEAN /\ turns \in 0..MaxTurns /\ drops \in 0..MaxDrops /\ behind \subseteq PageCameras
  /\ \A q \in {telling, events} : \A k \in DOMAIN q : q[k].id \in PageCameras /\ q[k].status \in RowStatus
  /\ \A f \in Fetches :
       /\ fetch[f].at \in {"idle", "sent", "read"} /\ fetch[f].since \subseteq PageCameras
       /\ fetch[f].list \in [PageCameras -> RowStatus]

\* When everything has arrived, a row shows the camera's status, and cameras without a
\* row have none; unless it was added or deleted, or its event lost, and no load was read
\* since, or a load that was read before it was told of has answered after, or two of its
\* transitions were told in another order than written; and it has not come right
\* since.  (useCameraStatus and fetchCameras, tenant-cameras-page.tsx:106)
RowsTellStatus ==
  telling = <<>> /\ events = <<>> /\ (\A f \in Fetches : fetch[f].at = "idle") =>
    \A c \in PageCameras \ behind : table[c] = ListAnswer[c]
=============================================================================
