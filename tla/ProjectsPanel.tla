------------------------------ MODULE ProjectsPanel ------------------------------
(***************************************************************************)
(* TenantProjectsPage: the panel lists the rows of the node selected in    *)
(* the tree (projects, a project's sites, a site's cameras).  It asks for  *)
(* them when another node is selected and when an action of the user is    *)
(* done, then for the node of the render that began the action; what was   *)
(* asked before is not cancelled, and every answer is shown.  Bulk actions *)
(* (useCameraBulkActions) take the selected ones of the shown cameras.     *)
(* What other users change is left out: nothing tells the page of it; so   *)
(* is what becomes of the rows of a node that is deleted.                  *)
(***************************************************************************)
EXTENDS Naturals, FiniteSets

CONSTANTS
  Root,     \* no node: all projects
  Nodes,    \* projects and sites
  CamSites, \* those that are sites
  Names,    \* rows a place can have
  Asks,     \* fetchPanelData at the same time
  Acts,     \* single-row actions at the same time
  MaxDoings \* bound: selections of a node, actions and bulk actions

ASSUME PanelAssumption ==
  CamSites \subseteq Nodes /\ Root \notin Nodes /\ MaxDoings \in Nat /\ Names # {} /\ Asks # {}

Places == Nodes \cup {Root}
PanelRows == Places \X Names

VARIABLES
  exists,    \* rows the server has
  node,      \* selectedNode
  panel,     \* the rows shown, and whose they are
  selection, \* rowSelection
  ask,       \* fetchPanelData: place, whose rows, the answer, asked again since
  act,       \* single-row actions: place, the node they began at
  bulk,      \* runBulk: its node and verb, rows to do, rows that failed
  doings,
  mislaid    \* history: why the panel may be wrong, until it is right again

panelVars == <<exists, node, panel, selection, ask, act, bulk, doings, mislaid>>

NoAsk == [at |-> "idle", of |-> Root, rows |-> {}, older |-> FALSE]
NoAct == [at |-> "idle", of |-> Root]
NoBulk == [on |-> FALSE, of |-> Root, verb |-> "other", todo |-> {}, failed |-> {}]

\* The first render asks for all projects.
PanelInit ==
  /\ exists = Places \X {CHOOSE n \in Names : TRUE}
  /\ node = Root /\ panel = [of |-> Root, rows |-> {}] /\ selection = {}
  /\ ask = [q \in Asks |-> IF q = CHOOSE p \in Asks : TRUE THEN [NoAsk EXCEPT !.at = "sent"] ELSE NoAsk]
  /\ act = [a \in Acts |-> NoAct] /\ bulk = NoBulk /\ doings = 0 /\ mislaid = FALSE

Doing == doings < MaxDoings /\ doings' = doings + 1

(***************************************************************************)
(* fetchPanelData                                                          *)
(***************************************************************************)
RowsAt(p) == {r \in exists : r[1] = p}
Pending(q) == ask[q].at # "idle"
NewestPending == \E q \in Asks : Pending(q) /\ ~ask[q].older

AskFor(p) ==
  \E q \in Asks :
    /\ ~Pending(q)
    /\ ask' = [x \in Asks |-> IF x = q THEN [NoAsk EXCEPT !.at = "sent", !.of = p]
                                       ELSE [ask[x] EXCEPT !.older = Pending(x)]]

AskRead(q) ==
  /\ ask[q].at = "sent" /\ ask' = [ask EXCEPT ![q].at = "read", ![q].rows = RowsAt(ask[q].of)]
  /\ UNCHANGED <<exists, node, panel, selection, act, bulk, doings, mislaid>>

\* The newest answer is right if it is the selected node's; an older one only does no
\* harm before the newest.
AskAnswered(q) ==
  /\ ask[q].at = "read" /\ ask' = [ask EXCEPT ![q] = NoAsk]
  /\ panel' = [of |-> ask[q].of, rows |-> ask[q].rows]
  /\ mislaid' = IF ask[q].older THEN mislaid \/ ~NewestPending ELSE ask[q].of # node
  /\ UNCHANGED <<exists, node, selection, act, bulk, doings>>

AskFails(q) ==
  /\ Pending(q) /\ ask' = [ask EXCEPT ![q] = NoAsk]
  /\ mislaid' = (mislaid \/ ~ask[q].older)
  /\ UNCHANGED <<exists, node, panel, selection, act, bulk, doings>>

\* handleNodeSelect, navigateBreadcrumb; the same node is a new one when the tree has
\* been loaded again.  The rows stay until there is an answer, and so does the selection.
SelectNode(p) ==
  /\ Doing /\ (p = node => p # Root) /\ node' = p /\ AskFor(p)
  /\ UNCHANGED <<exists, panel, selection, act, bulk, mislaid>>

\* Mutant of RefreshAll: the tree is loaded again, the panel is not.
RefreshTree(p) == p \in Places /\ UNCHANGED ask
RefreshAll(p) == AskFor(p)

(***************************************************************************)
(* One row is created or deleted.  (An edit or a toggle changes no row's   *)
(* place, and ends like these.)                                            *)
(***************************************************************************)
ActBegin(a) ==
  /\ Doing /\ act[a].at = "idle" /\ act' = [act EXCEPT ![a] = [at |-> "sent", of |-> node]]
  /\ UNCHANGED <<exists, node, panel, selection, ask, bulk, mislaid>>

ActServe(a) ==
  /\ act[a].at = "sent" /\ act' = [act EXCEPT ![a].at = "done"]
  /\ \E r \in PanelRows :
       /\ r[1] = act[a].of
       /\ exists' = IF r \in exists THEN exists \ {r} ELSE exists \cup {r}
  /\ UNCHANGED <<node, panel, selection, ask, bulk, doings, mislaid>>

ActAnswered(a) ==
  /\ act[a].at = "done" /\ act' = [act EXCEPT ![a] = NoAct] /\ RefreshAll(act[a].of)
  /\ UNCHANGED <<exists, node, panel, selection, bulk, doings, mislaid>>

\* Refused, or done and the answer lost: the panel is not asked for again.
ActFails(a) ==
  /\ act[a].at # "idle" /\ act' = [act EXCEPT ![a] = NoAct]
  /\ IF act[a].at = "done"
     THEN /\ mislaid' = TRUE
          /\ ask' = [q \in Asks |-> [ask[q] EXCEPT !.older = @ \/ ask[q].at = "read"]]
     ELSE UNCHANGED <<ask, mislaid>>
  /\ UNCHANGED <<exists, node, panel, selection, bulk, doings>>

(***************************************************************************)
(* Bulk actions on selected cameras.                                       *)
(***************************************************************************)
ShownCameras == IF node \in CamSites /\ panel.of \in CamSites THEN panel.rows ELSE {}

SelectRow(r) ==
  /\ r \in ShownCameras
  /\ selection' = IF r \in selection THEN selection \ {r} ELSE selection \cup {r}
  /\ UNCHANGED <<exists, node, panel, ask, act, bulk, doings, mislaid>>

\* The filters leave out the cameras that a verb has nothing to do for.
RunBulk ==
  /\ Doing /\ ~bulk.on
  /\ \E verb \in {"delete", "other"}, targets \in SUBSET (ShownCameras \cap selection) \ {{}} :
       /\ verb = "delete" => targets = ShownCameras \cap selection
       /\ bulk' = [on |-> TRUE, of |-> node, verb |-> verb, todo |-> targets, failed |-> {}]
  /\ UNCHANGED <<exists, node, panel, selection, ask, act, mislaid>>

\* bulkAction: some five at a time, in any order; one that failed may have been done.
BulkServe(r) ==
  /\ r \in bulk.todo
  /\ \E failed \in {{}, {r}} :
       bulk' = [bulk EXCEPT !.todo = @ \ {r}, !.failed = @ \cup failed]
  /\ exists' \in IF bulk.verb = "other" THEN {exists}
                 ELSE IF r \in bulk'.failed THEN {exists, exists \ {r}} ELSE {exists \ {r}}
  /\ UNCHANGED <<node, panel, selection, ask, act, doings, mislaid>>

BulkEnd ==
  /\ bulk.on /\ bulk.todo = {} /\ bulk' = NoBulk
  /\ selection' = bulk.failed /\ RefreshAll(bulk.of)
  /\ UNCHANGED <<exists, node, panel, act, doings, mislaid>>

PanelNext ==
  \/ \E p \in Places : SelectNode(p)
  \/ \E q \in Asks : AskRead(q) \/ AskAnswered(q) \/ AskFails(q)
  \/ \E a \in Acts : ActBegin(a) \/ ActServe(a) \/ ActAnswered(a) \/ ActFails(a)
  \/ \E r \in PanelRows : SelectRow(r) \/ BulkServe(r)
  \/ RunBulk \/ BulkEnd

PanelSpec == PanelInit /\ [][PanelNext]_panelVars

(***************************************************************************)
(* Properties.                                                             *)
(***************************************************************************)
PanelTypeOK ==
  /\ exists \subseteq PanelRows /\ node \in Places /\ doings \in 0..MaxDoings /\ mislaid \in BOOLEAN
  /\ panel \in [of : Places, rows : SUBSET PanelRows] /\ selection \subseteq PanelRows
  /\ \A q \in Asks : ask[q].at \in {"idle", "sent", "read"} /\ ask[q].of \in Places
  /\ \A a \in Acts : act[a].at \in {"idle", "sent", "done"} /\ act[a].of \in Places
  /\ bulk.todo \subseteq PanelRows /\ bulk.failed \subseteq PanelRows

\* When nothing is on its way the panel shows the rows of the selected node, those of
\* the user's own actions included, so a bulk action hits cameras of that site; unless
\* the last load failed or was begun by an action for a node that is not selected any
\* more, an older answer came after the newest, or an action was done whose answer got
\* lost.  (fetchPanelData, tenant-projects-page.tsx:135)
PanelTellsNode ==
  /\ \A q \in Asks : ~Pending(q)
  /\ \A a \in Acts : act[a].at = "idle"
  /\ ~bulk.on
  /\ ~mislaid
  => panel = [of |-> node, rows |-> RowsAt(node)]
=============================================================================
